--------------------------- MODULE WorkspaceProofs ---------------------------
(***************************************************************************)
(* Theorems about Workspace, for any tree, any patterns and any order in   *)
(* which the file system lists a directory.                                *)
(***************************************************************************)
EXTENDS Workspace, FiniteSetTheorems, TLAPS

-------------------------------------------------------------------------------
(* Sequences *)

LEMMA HeadAndTail ==
  ASSUME NEW S, NEW s \in Seq(S), s # <<>>
  PROVE  /\ Head(s) \in S
         /\ Tail(s) \in Seq(S)
         /\ Head(s) \in Range(s)
         /\ Range(s) = {Head(s)} \cup Range(Tail(s))
         /\ \A a \in DOMAIN Tail(s) : a + 1 \in DOMAIN s /\ Tail(s)[a] = s[a + 1]
         /\ 1 \in DOMAIN s /\ s[1] = Head(s)
<1>1. /\ Head(s) \in S /\ Tail(s) \in Seq(S)
      /\ Len(s) \in Nat \ {0} /\ DOMAIN s = 1..Len(s) /\ s[1] = Head(s)
      /\ DOMAIN Tail(s) = 1..(Len(s) - 1)
      /\ \A a \in 1..(Len(s) - 1) : Tail(s)[a] = s[a + 1]
  OBVIOUS
<1>2. \A a \in DOMAIN Tail(s) : a + 1 \in DOMAIN s /\ Tail(s)[a] = s[a + 1]
  BY <1>1
<1>3. \A a \in DOMAIN s : a = 1 \/ (a - 1 \in DOMAIN Tail(s) /\ Tail(s)[a - 1] = s[a])
  BY <1>1
<1>4. Range(s) = {Head(s)} \cup Range(Tail(s))
  BY <1>1, <1>2, <1>3 DEF Range
<1> QED
  BY <1>1, <1>2, <1>4 DEF Range

LEMMA Appended ==
  ASSUME NEW S, NEW s \in Seq(S), NEW x \in S
  PROVE  /\ Append(s, x) \in Seq(S)
         /\ Range(Append(s, x)) = Range(s) \cup {x}
         /\ \A a \in DOMAIN Append(s, x) :
              \/ a \in DOMAIN s /\ Append(s, x)[a] = s[a]
              \/ a \notin DOMAIN s /\ a = Len(s) + 1 /\ Append(s, x)[a] = x
<1>1. /\ Append(s, x) \in Seq(S) /\ Len(s) \in Nat
      /\ DOMAIN s = 1..Len(s)
      /\ DOMAIN Append(s, x) = 1..(Len(s) + 1)
      /\ Append(s, x)[Len(s) + 1] = x
      /\ \A a \in DOMAIN s : Append(s, x)[a] = s[a]
  OBVIOUS
<1>2. \A a \in DOMAIN Append(s, x) :
        \/ a \in DOMAIN s /\ Append(s, x)[a] = s[a]
        \/ a \notin DOMAIN s /\ a = Len(s) + 1 /\ Append(s, x)[a] = x
  BY <1>1
<1>3. \A a \in DOMAIN s : a \in DOMAIN Append(s, x)
  BY <1>1
<1>4. Len(s) + 1 \in DOMAIN Append(s, x)
  BY <1>1
<1> HIDE <1>1
<1>5. Range(Append(s, x)) = Range(s) \cup {x}
  BY <1>1, <1>2, <1>3, <1>4 DEF Range
<1> QED
  BY <1>1, <1>2, <1>5

LEMMA Singleton ==
  ASSUME NEW S, NEW x \in S
  PROVE  /\ <<x>> \in Seq(S) /\ Range(<<x>>) = {x}
         /\ \A a \in DOMAIN <<x>>, b \in DOMAIN <<x>> : ~(a < b)
  BY DEF Range

LEMMA EmptyRange == Range(<<>>) = {}
  BY DEF Range

\* Sorting a list keeps its members.
LEMMA SortedList ==
  ASSUME NEW S, NEW s \in Seq(S), NEW t \in [DOMAIN s -> Places],
         InPathOrder(s, t)
  PROVE  /\ t \in Seq(S)
         /\ Range(t) = Range(s)
         /\ \A a \in DOMAIN t, b \in DOMAIN t : a < b => t[a] =< t[b]
<1>1. DOMAIN s = 1..Len(s) /\ Len(s) \in Nat /\ DOMAIN t = DOMAIN s
  OBVIOUS
<1>2. PICK p \in [DOMAIN s -> DOMAIN s] :
        /\ \A a \in DOMAIN s, b \in DOMAIN s : p[a] = p[b] => a = b
        /\ \A a \in DOMAIN s : t[a] = s[p[a]]
  BY DEF InPathOrder
<1>3. p \in Injection(DOMAIN s, DOMAIN s)
  BY <1>2 DEF Injection, IsInjective
<1>4. IsFiniteSet(DOMAIN s)
  <2>1. 1 \in Int /\ Len(s) \in Int
    BY <1>1
  <2> QED
    BY ONLY <1>1, <2>1, FS_Interval
<1>5. \A a \in DOMAIN s : \E b \in DOMAIN s : p[b] = a
  BY <1>3, <1>4, FS_Injection DEF Surjection
<1>6. Range(t) = Range(s)
  <2>1. DOMAIN t = DOMAIN s /\ Range(t) = {t[a] : a \in DOMAIN t}
        /\ Range(s) = {s[a] : a \in DOMAIN s}
    BY <1>1 DEF Range
  <2>2. \A a \in DOMAIN s : p[a] \in DOMAIN s /\ t[a] = s[p[a]]
    BY <1>2
  <2>3. \A a \in DOMAIN s : \E b \in DOMAIN s : t[b] = s[a]
    BY ONLY <1>5, <2>2
  <2> QED
    BY ONLY <2>1, <2>2, <2>3
<1>7. t \in Seq(S)
  <2>1. \A a \in 1..Len(s) : t[a] \in S
    BY <1>1, <1>2
  <2> QED
    BY <1>1, <2>1
<1> QED
  BY <1>1, <1>6, <1>7 DEF InPathOrder

-------------------------------------------------------------------------------
(* The invariant *)

\* What pattern k leads to, and whether it has to be refused.
LedTo(k) == Leads(patterns[k])
Refused(k) == Bad(patterns[k])

AtAPattern ==
  /\ pc \in {"entry", "merge"} => at \in DOMAIN patterns
  /\ pc = "read" => at = 1
  /\ pc = "workspace" => at = Len(patterns) + 1

Listing == tree.listing[Front(Pattern)]

\* While a directory is listed, what was found is where the entries taken lead.
ListedSoFar ==
  pc = "entry" =>
    /\ ~Unsupported(Pattern) /\ EndsInStar(Pattern)
    /\ Front(Pattern) \in DOMAIN tree.listing
    /\ left \subseteq Listing
    /\ Range(found) =
         {tree.canon[q] : q \in (Listing \ left) \cap DOMAIN tree.canon} \cap Dirs

\* The patterns behind are good; an error has a bad one to show.
GoodSoFar ==
  /\ \A k \in DOMAIN patterns :
       k < at \/ (k = at /\ pc = "merge") => ~Refused(k)
  /\ pc = "error" => \E k \in DOMAIN patterns : Refused(k)

\* What the patterns behind lead to are the members; at the pattern at hand,
\* what joins next is sorted, and comes after what has joined.
MergedSoFar ==
  /\ \A k \in DOMAIN patterns : k < at => LedTo(k) \subseteq Range(members)
  /\ \A k \in DOMAIN patterns : k = at /\ pc = "merge" =>
       /\ Range(found) \subseteq LedTo(k)
       /\ LedTo(k) \subseteq Range(members) \cup Range(found)
       /\ \A a \in DOMAIN found, b \in DOMAIN found : a < b => found[a] =< found[b]
       /\ \A m \in Range(members), f \in Range(found) :
            LeadsFirst(k, m) => m =< f

\* Every member is led to by a pattern that was merged, and the members stand
\* in the order of the patterns that lead to them first.
InOrder ==
  /\ \A m \in Range(members) : \E j \in DOMAIN patterns :
       /\ LeadsFirst(j, m)
       /\ j < at \/ (j = at /\ pc = "merge")
  /\ \A a \in DOMAIN members, b \in DOMAIN members : a < b =>
       \E j \in DOMAIN patterns, k \in DOMAIN patterns :
         /\ LeadsFirst(j, members[a]) /\ LeadsFirst(k, members[b])
         /\ j < k \/ (j = k /\ members[a] < members[b])

IInv ==
  /\ TypeOK /\ AtAPattern /\ ListedSoFar /\ GoodSoFar
  /\ MergedSoFar /\ InOrder /\ NoMemberTwice

-------------------------------------------------------------------------------
(* Types *)

LEMMA InitType == Init => TypeOK /\ AtAPattern
<1> SUFFICES ASSUME Init PROVE TypeOK /\ AtAPattern
  OBVIOUS
<1>1. patterns \in Seq(Patterns)
  <2>1. PICK n \in 0..(IF pyproject.declares THEN MaxPatterns ELSE 0) :
          patterns \in [1..n -> Patterns]
    BY DEF Init
  <2>2. n \in Nat
    BY <2>1, BoundAssumption
  <2> QED
    BY <2>1, <2>2
<1>2. /\ at \in 1..Len(patterns) + 1
      /\ <<>> \in Seq(Inside \cap Dirs)
  BY <1>1 DEF Init
<1> QED
  BY <1>1, <1>2, TreesAssumption DEF Init, TypeOK, AtAPattern, Outcomes

LEMMA StepType == TypeOK /\ AtAPattern /\ [Next]_vars => TypeOK' /\ AtAPattern'
<1> SUFFICES ASSUME TypeOK, AtAPattern, [Next]_vars
             PROVE  TypeOK' /\ AtAPattern'
  OBVIOUS
<1> USE DEF inputs
<1>1. /\ Len(patterns) \in Nat /\ DOMAIN patterns = 1..Len(patterns)
      /\ at \in Nat
  BY DEF TypeOK
<1>2. AtPattern => at \in DOMAIN patterns
  BY <1>1 DEF AtPattern, TypeOK
<1>3. \A p \in DOMAIN tree.canon : tree.canon[p] \in Inside /\ tree.canon[p] \in Dirs
        => tree.canon[p] \in Inside \cap Dirs
  OBVIOUS
<1>4. <<>> \in Seq(Inside \cap Dirs)
  OBVIOUS
<1>5. CASE NoWorkspace \/ ReadMembers
  BY <1>5, <1>1 DEF NoWorkspace, ReadMembers, TypeOK, AtAPattern, Outcomes
<1>6. CASE Reject \/ ExactEscapes \/ EntryEscapes \/ EntryUnreadable
  BY <1>6 DEF Reject, ExactEscapes, EntryEscapes, EntryUnreadable, Fail,
              TypeOK, AtAPattern, Outcomes
<1>7. CASE ExactMissing \/ Unlisted
  BY <1>7, <1>2, <1>4 DEF ExactMissing, Unlisted, AtExact, AtStar, Expanded,
                          TypeOK, AtAPattern, Outcomes
<1>8. CASE Exact
  <2> DEFINE place == tree.canon[Pattern]
  <2>1. /\ AtPattern /\ place \in Inside
        /\ Expanded(IF place \in Dirs THEN <<place>> ELSE <<>>)
    BY <1>8 DEF Exact, AtExact
  <2>2. found' \in Seq(Inside \cap Dirs)
    <3>1. CASE place \in Dirs
      <4>1. place \in Inside \cap Dirs
        BY <2>1, <3>1
      <4> HIDE DEF place
      <4>2. <<place>> \in Seq(Inside \cap Dirs)
        BY <4>1, Singleton
      <4> QED
        BY <2>1, <3>1, <4>2 DEF Expanded
    <3>2. CASE place \notin Dirs
      BY <2>1, <3>2, <1>4 DEF Expanded
    <3> QED
      BY <3>1, <3>2
  <2> QED
    BY <2>1, <2>2, <1>2 DEF Expanded, TypeOK, AtAPattern, Outcomes
<1>9. CASE List
  BY <1>9, <1>2, <1>4 DEF List, AtStar, TypeOK, IsTree, AtAPattern, Outcomes
<1>10. CASE SkipEntry
  BY <1>10 DEF SkipEntry, TakeEntry, TypeOK, AtAPattern, Outcomes
<1>11. CASE KeepEntry
  <2>1. PICK p \in left : /\ TakeEntry(p) /\ LeadsToDir(p)
                          /\ tree.canon[p] \in Inside
                          /\ found' = Append(found, tree.canon[p])
                          /\ UNCHANGED <<inputs, pc, at, members>>
    BY <1>11 DEF KeepEntry
  <2>2. found' \in Seq(Inside \cap Dirs)
    <3>1. tree.canon[p] \in Inside \cap Dirs
      BY <2>1 DEF LeadsToDir
    <3> QED
      BY <2>1, <3>1, Appended DEF TypeOK
  <2> QED
    BY <2>1, <2>2 DEF TakeEntry, TypeOK, AtAPattern, Outcomes
<1>12. CASE Listed
  <2>1. found' \in Seq(Inside \cap Dirs)
    BY <1>12, SortedList DEF Listed, TypeOK
  <2> QED
    BY <1>12, <2>1 DEF Listed, TypeOK, AtAPattern, Outcomes
<1>13. CASE MergeNext
  <2>1. /\ Head(found) \in Inside \cap Dirs
        /\ Tail(found) \in Seq(Inside \cap Dirs)
    BY <1>13, HeadAndTail DEF MergeNext, TypeOK
  <2>2. members' \in Seq(Inside \cap Dirs)
    BY <1>13, <2>1, Appended DEF MergeNext, TypeOK
  <2> QED
    BY <1>13, <2>1, <2>2 DEF MergeNext, TypeOK, AtAPattern, Outcomes
<1>14. CASE NextPattern
  <2>1. at' \in 1..Len(patterns) + 1
    BY <1>14, <1>1 DEF NextPattern, AtAPattern
  <2> QED
    BY <1>14, <2>1 DEF NextPattern, TypeOK, AtAPattern, Outcomes
<1>15. CASE Detected
  BY <1>15, <1>1 DEF Detected, TypeOK, AtAPattern, Outcomes
<1>16. CASE UNCHANGED vars
  BY <1>16 DEF vars, TypeOK, AtAPattern, Outcomes
<1> QED
  BY <1>5, <1>6, <1>7, <1>8, <1>9, <1>10, <1>11, <1>12, <1>13, <1>14, <1>15,
     <1>16 DEF Next, Done

-------------------------------------------------------------------------------
(* The merge *)

\* What a pattern leads to depends on the inputs alone.
LEMMA SameInputs ==
  ASSUME UNCHANGED inputs
  PROVE  /\ \A k : LedTo(k)' = LedTo(k)
         /\ \A k : Refused(k)' <=> Refused(k)
         /\ \A k, m : LeadsFirst(k, m)' <=> LeadsFirst(k, m)
<1> USE DEF inputs
<1>1. \A k : LedTo(k)' = LedTo(k)
  BY DEF LedTo, Leads
<1>2. \A k : Refused(k)' <=> Refused(k)
  BY DEF Refused, Bad, Leads, Unsupported
<1>3. \A k, m : LeadsFirst(k, m)' <=> LeadsFirst(k, m)
  BY DEF LeadsFirst, Leads
<1> QED
  BY <1>1, <1>2, <1>3

\* Before a pattern is merged, nothing has come from it first.
LEMMA NothingYet ==
  ASSUME TypeOK, InOrder, pc # "merge", NEW m \in Range(members)
  PROVE  ~LeadsFirst(at, m)
<1>1. PICK j \in DOMAIN patterns : LeadsFirst(j, m) /\ j < at
  BY DEF InOrder
<1>2. j \in 1..(at - 1)
  BY <1>1 DEF TypeOK
<1> QED
  BY <1>1, <1>2 DEF LeadsFirst

\* A step that neither begins, goes on nor ends a merge.
LEMMA Waiting ==
  ASSUME IInv, UNCHANGED <<inputs, at, members>>, pc # "merge", pc' # "merge"
  PROVE  /\ MergedSoFar' /\ InOrder' /\ NoMemberTwice'
         /\ \A k \in DOMAIN patterns' :
              k < at' \/ (k = at' /\ pc' = "merge") => ~Refused(k)'
<1>1. UNCHANGED inputs /\ patterns' = patterns /\ at' = at /\ members' = members
  BY DEF inputs
<1>2. MergedSoFar'
  BY <1>1, SameInputs DEF IInv, MergedSoFar
<1>3. InOrder'
  BY <1>1, SameInputs DEF IInv, InOrder
<1>4. NoMemberTwice'
  BY <1>1 DEF IInv, NoMemberTwice
<1>5. \A k \in DOMAIN patterns' :
        k < at' \/ (k = at' /\ pc' = "merge") => ~Refused(k)'
  BY <1>1, SameInputs DEF IInv, GoodSoFar
<1> QED
  BY <1>2, <1>3, <1>4, <1>5

\* A step that is done with expanding the pattern at hand.
LEMMA MergeBegins ==
  ASSUME IInv, UNCHANGED <<inputs, at, members>>, pc # "merge", pc' = "merge",
         ~Refused(at), Range(found') = LedTo(at),
         \A a \in DOMAIN found', b \in DOMAIN found' : a < b => found'[a] =< found'[b]
  PROVE  ListedSoFar' /\ GoodSoFar' /\ MergedSoFar' /\ InOrder' /\ NoMemberTwice'
<1>1. UNCHANGED inputs /\ patterns' = patterns /\ at' = at /\ members' = members
  BY DEF inputs
<1>2. GoodSoFar'
  BY <1>1, SameInputs DEF IInv, GoodSoFar
<1>3. MergedSoFar'
  <2>1. \A m \in Range(members) : ~LeadsFirst(at, m)
    BY NothingYet DEF IInv
  <2>2. \A k \in DOMAIN patterns' : k < at' => LedTo(k)' \subseteq Range(members')
    BY <1>1, SameInputs DEF IInv, MergedSoFar
  <2>3. ASSUME NEW k \in DOMAIN patterns', k = at'
        PROVE  /\ Range(found') \subseteq LedTo(k)'
               /\ LedTo(k)' \subseteq Range(members') \cup Range(found')
               /\ \A m \in Range(members'), f \in Range(found') :
                    LeadsFirst(k, m)' => m =< f
    BY <1>1, <2>1, <2>3, SameInputs
  <2> QED
    BY <2>2, <2>3 DEF MergedSoFar
<1>4. InOrder'
  BY <1>1, SameInputs DEF IInv, InOrder
<1>5. NoMemberTwice' /\ ListedSoFar'
  BY <1>1 DEF IInv, NoMemberTwice, ListedSoFar
<1> QED
  BY <1>2, <1>3, <1>4, <1>5

-------------------------------------------------------------------------------
(* The steps *)

\* The parts of the invariant that are more than types.
Merging == ListedSoFar /\ GoodSoFar /\ MergedSoFar /\ InOrder /\ NoMemberTwice

LEMMA AtOne ==
  ASSUME TypeOK, AtAPattern
  PROVE  /\ AtPattern => at \in DOMAIN patterns
         /\ pc = "entry" => at \in DOMAIN patterns
<1>1. /\ Len(patterns) \in Nat /\ DOMAIN patterns = 1..Len(patterns)
      /\ at \in 1..Len(patterns) + 1
  BY DEF TypeOK
<1> QED
  BY <1>1 DEF AtPattern, AtAPattern

LEMMA Fails ==
  ASSUME IInv, Fail, pc \in {"pattern", "entry"}, at \in DOMAIN patterns, Refused(at)
  PROVE  Merging'
<1>1. /\ UNCHANGED inputs /\ patterns' = patterns /\ pc' = "error"
      /\ UNCHANGED <<inputs, at, members>>
  BY DEF Fail, inputs
<1>2. MergedSoFar' /\ InOrder' /\ NoMemberTwice'
      /\ \A k \in DOMAIN patterns' :
           k < at' \/ (k = at' /\ pc' = "merge") => ~Refused(k)'
  BY <1>1, Waiting
<1>3. \E k \in DOMAIN patterns' : Refused(k)'
  BY <1>1, SameInputs
<1> QED
  BY <1>1, <1>2, <1>3 DEF Merging, ListedSoFar, GoodSoFar

\* What the segments of a pattern make of it.
LEMMA OneOrTheOther ==
  /\ Unsupported(Pattern) => Refused(at)
  /\ ~EndsInStar(Pattern) /\ ~Unsupported(Pattern) =>
       /\ LedTo(at) = IF Pattern \in DOMAIN tree.canon /\ tree.canon[Pattern] \in Dirs
                      THEN {tree.canon[Pattern]} ELSE {}
       /\ Refused(at) <=> /\ Pattern \in DOMAIN tree.canon
                          /\ tree.canon[Pattern] \notin Inside
  /\ EndsInStar(Pattern) /\ ~Unsupported(Pattern) =>
       /\ Refused(at) <=> LedTo(at) \ Inside # {} \/ Front(Pattern) \in tree.torn
       /\ Front(Pattern) \in DOMAIN tree.listing =>
            LedTo(at) = {tree.canon[q] : q \in Listing \cap DOMAIN tree.canon} \cap Dirs
       /\ Front(Pattern) \notin DOMAIN tree.listing => LedTo(at) = {}
<1>1. Unsupported(Pattern) => Refused(at)
  BY DEF Refused, Bad, Pattern
<1>2. ASSUME ~EndsInStar(Pattern), ~Unsupported(Pattern)
      PROVE  /\ LedTo(at) = IF Pattern \in DOMAIN tree.canon /\ tree.canon[Pattern] \in Dirs
                            THEN {tree.canon[Pattern]} ELSE {}
             /\ Refused(at) <=> /\ Pattern \in DOMAIN tree.canon
                                /\ tree.canon[Pattern] \notin Inside
  <2>1. Leads(Pattern) = {tree.canon[q] : q \in {Pattern} \cap DOMAIN tree.canon} \cap Dirs
    BY <1>2 DEF Leads
  <2>2. LedTo(at) = Leads(Pattern) /\ (Refused(at) <=> Bad(Pattern))
    BY DEF LedTo, Refused, Pattern
  <2> HIDE DEF Pattern
  <2>3. Leads(Pattern) = IF Pattern \in DOMAIN tree.canon /\ tree.canon[Pattern] \in Dirs
                         THEN {tree.canon[Pattern]} ELSE {}
    BY <2>1
  <2> QED
    BY <1>2, <2>2, <2>3 DEF Bad
<1>3. ASSUME EndsInStar(Pattern), ~Unsupported(Pattern)
      PROVE  /\ Refused(at) <=> LedTo(at) \ Inside # {} \/ Front(Pattern) \in tree.torn
             /\ Front(Pattern) \in DOMAIN tree.listing =>
                  LedTo(at) = {tree.canon[q] : q \in Listing \cap DOMAIN tree.canon} \cap Dirs
             /\ Front(Pattern) \notin DOMAIN tree.listing => LedTo(at) = {}
  <2>1. LedTo(at) = Leads(Pattern) /\ (Refused(at) <=> Bad(Pattern))
    BY DEF LedTo, Refused, Pattern
  <2>2. Refused(at) <=> LedTo(at) \ Inside # {} \/ Front(Pattern) \in tree.torn
    BY <1>3, <2>1 DEF Bad
  <2>3. Front(Pattern) \in DOMAIN tree.listing =>
          LedTo(at) = {tree.canon[q] : q \in Listing \cap DOMAIN tree.canon} \cap Dirs
    BY <1>3, <2>1 DEF Leads, Listing
  <2>4. Front(Pattern) \notin DOMAIN tree.listing => LedTo(at) = {}
    BY <1>3, <2>1 DEF Leads
  <2> QED
    BY <2>2, <2>3, <2>4
<1> QED
  BY <1>1, <1>2, <1>3

LEMMA StepExact ==
  ASSUME IInv, Reject \/ ExactMissing \/ ExactEscapes \/ Exact
  PROVE  Merging'
<1>1. AtPattern /\ at \in DOMAIN patterns /\ pc = "pattern"
  BY AtOne DEF IInv, Reject, ExactMissing, ExactEscapes, Exact, AtExact, AtPattern
<1>2. CASE Reject
  BY <1>1, <1>2, Fails, OneOrTheOther DEF Reject
<1>3. CASE ExactEscapes
  BY <1>1, <1>3, Fails, OneOrTheOther DEF ExactEscapes, AtExact
<1>4. CASE ExactMissing
  <2>1. ~Refused(at) /\ LedTo(at) = {}
    BY <1>4, OneOrTheOther DEF ExactMissing, AtExact
  <2>2. /\ UNCHANGED <<inputs, at, members>> /\ found' = <<>> /\ pc' = "merge"
    BY <1>4 DEF ExactMissing, Expanded
  <2>3. \A a \in DOMAIN found', b \in DOMAIN found' : a < b => found'[a] =< found'[b]
    BY <2>2
  <2> QED
    BY <1>1, <2>1, <2>2, <2>3, EmptyRange, MergeBegins DEF Merging
<1>5. CASE Exact
  <2> DEFINE place == tree.canon[Pattern]
  <2>1. /\ ~Refused(at)
        /\ LedTo(at) = IF place \in Dirs THEN {place} ELSE {}
    BY <1>5, OneOrTheOther DEF Exact, AtExact
  <2>2. /\ UNCHANGED <<inputs, at, members>> /\ pc' = "merge"
        /\ found' = IF place \in Dirs THEN <<place>> ELSE <<>>
    BY <1>5 DEF Exact, Expanded
  <2> HIDE DEF place
  <2>3. /\ Range(found') = LedTo(at)
        /\ \A a \in DOMAIN found', b \in DOMAIN found' : a < b => found'[a] =< found'[b]
    <3>1. CASE place \in Dirs
      <4>1. /\ Range(<<place>>) = {place}
            /\ \A a \in DOMAIN <<place>>, b \in DOMAIN <<place>> : ~(a < b)
        BY <3>1, Singleton
      <4> QED
        BY <3>1, <4>1, <2>1, <2>2
    <3>2. CASE place \notin Dirs
      BY <3>2, <2>1, <2>2, EmptyRange
    <3> QED
      BY <3>1, <3>2
  <2> QED
    BY <1>1, <2>1, <2>2, <2>3, MergeBegins DEF Merging
<1> QED
  BY <1>2, <1>3, <1>4, <1>5

LEMMA StepStar ==
  ASSUME IInv, Unlisted \/ List
  PROVE  Merging'
<1>1. AtPattern /\ at \in DOMAIN patterns /\ pc = "pattern"
  BY AtOne DEF IInv, Unlisted, List, AtStar, AtPattern
<1>2. CASE Unlisted
  <2>1. LedTo(at) = {} /\ ~Refused(at)
    BY <1>2, OneOrTheOther DEF Unlisted, AtStar, IInv, TypeOK, IsTree
  <2>2. /\ UNCHANGED <<inputs, at, members>> /\ found' = <<>> /\ pc' = "merge"
    BY <1>2 DEF Unlisted, Expanded
  <2>3. \A a \in DOMAIN found', b \in DOMAIN found' : a < b => found'[a] =< found'[b]
    BY <2>2
  <2> QED
    BY <1>1, <2>1, <2>2, <2>3, EmptyRange, MergeBegins DEF Merging
<1>3. CASE List
  <2>1. /\ UNCHANGED <<inputs, at, members>> /\ found' = <<>> /\ pc' = "entry"
        /\ Front(Pattern) \in DOMAIN tree.listing
        /\ left' = Listing
        /\ ~Unsupported(Pattern) /\ EndsInStar(Pattern)
    BY <1>3 DEF List, AtStar, Listing
  <2>2. UNCHANGED <<tree, patterns, at>>
    BY <2>1 DEF inputs
  <2>3. /\ Pattern' = Pattern /\ Listing' = Listing
        /\ Unsupported(Pattern)' = Unsupported(Pattern)
        /\ EndsInStar(Pattern)' = EndsInStar(Pattern)
    BY <2>2 DEF Pattern, Listing, Unsupported, EndsInStar
  <2>4. ListedSoFar'
    BY <2>1, <2>2, <2>3, EmptyRange DEF ListedSoFar
  <2>5. GoodSoFar' /\ MergedSoFar' /\ InOrder' /\ NoMemberTwice'
    BY <1>1, <2>1, Waiting DEF GoodSoFar
  <2> QED
    BY <2>4, <2>5 DEF Merging
<1> QED
  BY <1>2, <1>3

LEMMA StepEntry ==
  ASSUME IInv, SkipEntry \/ KeepEntry \/ EntryEscapes \/ EntryUnreadable
  PROVE  Merging'
<1>1. pc = "entry" /\ at \in DOMAIN patterns
  BY AtOne DEF IInv, SkipEntry, KeepEntry, EntryEscapes, EntryUnreadable, TakeEntry
<1>2. /\ ~Unsupported(Pattern) /\ EndsInStar(Pattern)
      /\ Front(Pattern) \in DOMAIN tree.listing
      /\ left \subseteq Listing
      /\ Range(found) =
           {tree.canon[q] : q \in (Listing \ left) \cap DOMAIN tree.canon} \cap Dirs
  BY <1>1 DEF IInv, ListedSoFar
<1>3. ASSUME NEW p \in left, TakeEntry(p), UNCHANGED <<inputs, pc, at, members>>,
             Range(found') = Range(found) \cup
                             ({tree.canon[q] : q \in {p} \cap DOMAIN tree.canon} \cap Dirs)
      PROVE  Merging'
  <2>1. UNCHANGED <<tree, patterns, at, pc>>
    BY <1>3 DEF inputs
  <2>2. /\ Pattern' = Pattern /\ Listing' = Listing
        /\ Unsupported(Pattern)' = Unsupported(Pattern)
        /\ EndsInStar(Pattern)' = EndsInStar(Pattern)
    BY <2>1 DEF Pattern, Listing, Unsupported, EndsInStar
  <2>3. left' = left \ {p} /\ p \in Listing
    BY <1>2, <1>3 DEF TakeEntry
  <2>4. Range(found') =
          {tree.canon[q] : q \in (Listing \ left') \cap DOMAIN tree.canon} \cap Dirs
    BY <1>2, <1>3, <2>3
  <2>5. ListedSoFar'
    BY <1>2, <2>1, <2>2, <2>3, <2>4 DEF ListedSoFar
  <2>6. GoodSoFar' /\ MergedSoFar' /\ InOrder' /\ NoMemberTwice'
    BY <1>1, <1>3, Waiting DEF GoodSoFar
  <2> QED
    BY <2>5, <2>6 DEF Merging
<1>4. CASE SkipEntry
  <2>1. PICK p \in left : /\ TakeEntry(p) /\ ~LeadsToDir(p)
                          /\ UNCHANGED <<inputs, pc, at, found, members>>
    BY <1>4 DEF SkipEntry
  <2>2. {tree.canon[q] : q \in {p} \cap DOMAIN tree.canon} \cap Dirs = {}
    BY <2>1 DEF LeadsToDir
  <2> QED
    BY <1>3, <2>1, <2>2
<1>5. CASE KeepEntry
  <2>1. PICK p \in left : /\ TakeEntry(p) /\ LeadsToDir(p)
                          /\ tree.canon[p] \in Inside
                          /\ found' = Append(found, tree.canon[p])
                          /\ UNCHANGED <<inputs, pc, at, members>>
    BY <1>5 DEF KeepEntry
  <2>2. {tree.canon[q] : q \in {p} \cap DOMAIN tree.canon} \cap Dirs = {tree.canon[p]}
    BY <2>1 DEF LeadsToDir
  <2>3. tree.canon[p] \in Inside \cap Dirs
    BY <2>1 DEF LeadsToDir
  <2>4. Range(found') = Range(found) \cup {tree.canon[p]}
    BY <2>1, <2>3, Appended DEF IInv, TypeOK
  <2> QED
    BY <1>3, <2>1, <2>2, <2>4
<1>6. CASE EntryEscapes
  <2>1. PICK p \in left : /\ LeadsToDir(p) /\ tree.canon[p] \notin Inside /\ Fail
    BY <1>6 DEF EntryEscapes
  <2>2. tree.canon[p] \in LedTo(at)
    BY <1>2, <2>1, OneOrTheOther DEF LeadsToDir
  <2>3. Refused(at)
    BY <1>2, <2>1, <2>2, OneOrTheOther
  <2> QED
    BY <1>1, <2>1, <2>3, Fails
<1>7. CASE EntryUnreadable
  BY <1>1, <1>2, <1>7, OneOrTheOther, Fails DEF EntryUnreadable, Torn
<1> QED
  BY <1>4, <1>5, <1>6, <1>7

LEMMA StepListed ==
  ASSUME IInv, Listed
  PROVE  Merging'
<1>1. /\ pc = "entry" /\ left = {} /\ ~Torn /\ pc' = "merge"
      /\ UNCHANGED <<inputs, at, members>>
  BY DEF Listed
<1>2. /\ ~Unsupported(Pattern) /\ EndsInStar(Pattern)
      /\ Front(Pattern) \in DOMAIN tree.listing
      /\ Range(found) = LedTo(at)
  BY <1>1, OneOrTheOther DEF IInv, ListedSoFar
<1>3. /\ Range(found') = Range(found)
      /\ \A a \in DOMAIN found', b \in DOMAIN found' : a < b => found'[a] =< found'[b]
  BY SortedList DEF Listed, IInv, TypeOK
<1>4. Range(found) \subseteq Inside
  BY DEF IInv, TypeOK, Range
<1>5. ~Refused(at)
  BY <1>1, <1>2, <1>4, OneOrTheOther DEF Torn
<1> QED
  BY <1>1, <1>2, <1>3, <1>5, MergeBegins DEF Merging

\* A place the members have already.
LEMMA MergeKnown ==
  ASSUME IInv, MergeNext, Head(found) \in Range(members)
  PROVE  Merging'
<1>1. /\ pc = "merge" /\ found # <<>> /\ found' = Tail(found)
      /\ UNCHANGED inputs /\ patterns' = patterns /\ pc' = pc /\ at' = at
  BY DEF MergeNext, inputs
<1>2. members' = members
  BY DEF MergeNext, Range
<1>3. /\ Range(found) = {Head(found)} \cup Range(found')
      /\ \A a \in DOMAIN found' : a \in Nat /\ a + 1 \in DOMAIN found
                                  /\ found'[a] = found[a + 1]
  BY <1>1, HeadAndTail DEF IInv, TypeOK
<1>4. \A a \in DOMAIN found', b \in DOMAIN found' : a < b => a + 1 < b + 1
  BY <1>3
<1>5. MergedSoFar'
  <2>1. \A k \in DOMAIN patterns' : k < at' => LedTo(k)' \subseteq Range(members')
    BY <1>1, <1>2, SameInputs DEF IInv, MergedSoFar
  <2>2. ASSUME NEW k \in DOMAIN patterns', k = at'
        PROVE  /\ Range(found') \subseteq LedTo(k)'
               /\ LedTo(k)' \subseteq Range(members') \cup Range(found')
               /\ \A a \in DOMAIN found', b \in DOMAIN found' :
                    a < b => found'[a] =< found'[b]
               /\ \A m \in Range(members'), f \in Range(found') :
                    LeadsFirst(k, m)' => m =< f
    BY <1>1, <1>2, <1>3, <1>4, <2>2, SameInputs DEF IInv, MergedSoFar
  <2> QED
    BY <2>1, <2>2 DEF MergedSoFar
<1>6. GoodSoFar' /\ ListedSoFar'
  BY <1>1, SameInputs DEF IInv, GoodSoFar, ListedSoFar
<1>7. InOrder' /\ NoMemberTwice'
  BY <1>1, <1>2, SameInputs DEF IInv, InOrder, NoMemberTwice
<1> QED
  BY <1>5, <1>6, <1>7 DEF Merging

\* A place that joins the members.
LEMMA MergeNew ==
  ASSUME IInv, MergeNext, Head(found) \notin Range(members)
  PROVE  Merging'
<1> DEFINE h == Head(found)
<1>1. /\ pc = "merge" /\ found # <<>> /\ found' = Tail(found)
      /\ UNCHANGED inputs /\ patterns' = patterns /\ pc' = pc /\ at' = at
      /\ at \in DOMAIN patterns /\ at \in Nat
  BY DEF MergeNext, inputs, IInv, AtAPattern, TypeOK
<1>2. members' = Append(members, h)
  BY DEF MergeNext, Range
<1>3. /\ Range(found) = {h} \cup Range(found')
      /\ \A a \in DOMAIN found' : a \in Nat /\ a + 1 \in DOMAIN found
                                  /\ found'[a] = found[a + 1]
      /\ h \in Inside \cap Dirs /\ 1 \in DOMAIN found /\ found[1] = h
      /\ DOMAIN found' \subseteq Nat \ {0}
  BY <1>1, HeadAndTail DEF IInv, TypeOK
<1>4. /\ Range(members') = Range(members) \cup {h}
      /\ \A a \in DOMAIN members' :
           \/ a \in DOMAIN members /\ members'[a] = members[a]
           \/ a \notin DOMAIN members /\ a = Len(members) + 1 /\ members'[a] = h
      /\ Len(members) \in Nat /\ DOMAIN members = 1..Len(members)
  BY <1>2, <1>3, Appended DEF IInv, TypeOK
<1> HIDE DEF h
<1>5. /\ \A k \in DOMAIN patterns : k < at => LedTo(k) \subseteq Range(members)
      /\ Range(found) \subseteq LedTo(at)
      /\ LedTo(at) \subseteq Range(members) \cup Range(found)
      /\ \A a \in DOMAIN found, b \in DOMAIN found : a < b => found[a] =< found[b]
      /\ \A m \in Range(members), f \in Range(found) : LeadsFirst(at, m) => m =< f
  BY <1>1 DEF IInv, MergedSoFar
<1>6. LeadsFirst(at, h)
  <2>1. h \in Leads(patterns[at])
    BY <1>3, <1>5 DEF LedTo
  <2>2. \A j \in 1..(at - 1) : h \notin Leads(patterns[j])
    <3>1. \A j \in 1..(at - 1) : j \in DOMAIN patterns /\ j < at
      BY <1>1 DEF IInv, TypeOK
    <3>2. h \notin Range(members)
      BY DEF h
    <3> QED
      BY <1>5, <3>1, <3>2 DEF LedTo
  <2> QED
    BY <2>1, <2>2 DEF LeadsFirst
<1>7. \A f \in Range(found') : h =< f
  <2>1. \A a \in DOMAIN found' : 1 < a + 1
    BY <1>3
  <2>2. \A a \in DOMAIN found' : h =< found'[a]
    BY <1>3, <1>5, <2>1
  <2> QED
    BY <2>2 DEF Range
<1>8. MergedSoFar'
  <2>1. \A k \in DOMAIN patterns' : k < at' => LedTo(k)' \subseteq Range(members')
    BY <1>1, <1>4, <1>5, SameInputs
  <2>2. \A a \in DOMAIN found', b \in DOMAIN found' : a < b => a + 1 < b + 1
    BY <1>3
  <2>3. ASSUME NEW k \in DOMAIN patterns', k = at'
        PROVE  /\ Range(found') \subseteq LedTo(k)'
               /\ LedTo(k)' \subseteq Range(members') \cup Range(found')
               /\ \A a \in DOMAIN found', b \in DOMAIN found' :
                    a < b => found'[a] =< found'[b]
               /\ \A m \in Range(members'), f \in Range(found') :
                    LeadsFirst(k, m)' => m =< f
    BY <1>1, <1>3, <1>4, <1>5, <1>7, <2>2, <2>3, SameInputs
  <2> QED
    BY <2>1, <2>3 DEF MergedSoFar
<1>9. GoodSoFar' /\ ListedSoFar'
  BY <1>1, SameInputs DEF IInv, GoodSoFar, ListedSoFar
<1>10. InOrder'
  <2>1. \A m \in Range(members') : \E j \in DOMAIN patterns' :
          LeadsFirst(j, m)' /\ (j < at' \/ (j = at' /\ pc' = "merge"))
    BY <1>1, <1>4, <1>6, SameInputs DEF IInv, InOrder
  <2>2. ASSUME NEW a \in DOMAIN members', NEW b \in DOMAIN members', a < b
        PROVE  \E j \in DOMAIN patterns', k \in DOMAIN patterns' :
                 /\ LeadsFirst(j, members[a])' /\ LeadsFirst(k, members[b])'
                 /\ j < k \/ (j = k /\ members'[a] < members'[b])
    <3>1. a \in DOMAIN members /\ members'[a] = members[a]
      BY <1>4, <2>2
    <3>2. CASE b \in DOMAIN members
      BY <1>1, <1>4, <2>2, <3>1, <3>2, SameInputs DEF IInv, InOrder
    <3>3. CASE b \notin DOMAIN members
      <4>1. members'[b] = h
        BY <1>4, <3>3
      <4>2. members[a] \in Range(members)
        BY <3>1 DEF Range
      <4>3. PICK j \in DOMAIN patterns : /\ LeadsFirst(j, members[a])
                                         /\ j < at \/ j = at
        BY <4>2 DEF IInv, InOrder
      <4>4. members[a] # h /\ members[a] \in Nat /\ h \in Nat
        <5>1. members[a] # h
          BY <4>2 DEF h
        <5>2. members[a] \in Inside \cap Dirs
          BY <3>1 DEF IInv, TypeOK
        <5> QED
          BY <1>3, <5>1, <5>2, PlacesAssumption
      <4>5. j = at => members[a] =< h
        BY <1>3, <1>5, <4>2, <4>3
      <4>6. j < at \/ (j = at /\ members[a] < h)
        BY <4>3, <4>4, <4>5
      <4> QED
        BY <1>1, <1>6, <3>1, <4>1, <4>3, <4>6, SameInputs
    <3> QED
      BY <3>2, <3>3
  <2> QED
    BY <2>1, <2>2 DEF InOrder
<1>11. NoMemberTwice'
  <2>1. h \notin Range(members)
    BY DEF h
  <2> QED
    BY <1>4, <2>1 DEF IInv, NoMemberTwice, Range
<1> QED
  BY <1>8, <1>9, <1>10, <1>11 DEF Merging

LEMMA StepNextPattern ==
  ASSUME IInv, NextPattern
  PROVE  Merging'
<1>1. /\ pc = "merge" /\ found = <<>> /\ found' = found /\ members' = members
      /\ UNCHANGED inputs /\ patterns' = patterns /\ pc' = "pattern"
      /\ at' = at + 1 /\ at \in DOMAIN patterns /\ at \in Nat
  BY DEF NextPattern, inputs, IInv, AtAPattern, TypeOK
<1>2. \A k \in DOMAIN patterns : k < at + 1 => k < at \/ k = at
  BY <1>1 DEF IInv, TypeOK
<1>3. LedTo(at) \subseteq Range(members)
  BY <1>1, EmptyRange DEF IInv, MergedSoFar
<1>4. MergedSoFar'
  BY <1>1, <1>2, <1>3, SameInputs DEF IInv, MergedSoFar
<1>5. GoodSoFar' /\ ListedSoFar'
  BY <1>1, <1>2, SameInputs DEF IInv, GoodSoFar, ListedSoFar
<1>6. \A j \in DOMAIN patterns : j < at \/ j = at => j < at + 1
  BY <1>1 DEF IInv, TypeOK
<1>7. InOrder' /\ NoMemberTwice'
  BY <1>1, <1>6, SameInputs DEF IInv, InOrder, NoMemberTwice
<1> QED
  BY <1>4, <1>5, <1>7 DEF Merging

\* Steps that touch neither the place in the patterns nor what was gathered.
LEMMA StepAround ==
  ASSUME IInv, NoWorkspace \/ ReadMembers \/ Detected
  PROVE  Merging'
<1>1. /\ pc # "merge" /\ pc' \notin {"merge", "entry", "error"}
      /\ UNCHANGED <<inputs, at, members>>
  BY DEF NoWorkspace, ReadMembers, Detected
<1> QED
  BY <1>1, Waiting DEF Merging, ListedSoFar, GoodSoFar

-------------------------------------------------------------------------------
(* The theorems *)

LEMMA InitInv == Init => IInv
<1> SUFFICES ASSUME Init PROVE IInv
  OBVIOUS
<1>1. TypeOK /\ AtAPattern
  BY InitType
<1>2. /\ at = 1 /\ pc = "read" /\ members = <<>> /\ Range(members) = {}
      /\ Len(patterns) \in Nat /\ DOMAIN patterns = 1..Len(patterns)
  BY <1>1, EmptyRange DEF Init, TypeOK
<1>3. \A k \in DOMAIN patterns : ~(k < at)
  BY <1>2
<1>4. ListedSoFar /\ GoodSoFar /\ MergedSoFar
  BY <1>2, <1>3 DEF ListedSoFar, GoodSoFar, MergedSoFar
<1>5. InOrder /\ NoMemberTwice
  BY <1>2 DEF InOrder, NoMemberTwice
<1> QED
  BY <1>1, <1>4, <1>5 DEF IInv

LEMMA StepInv == IInv /\ [Next]_vars => IInv'
<1> SUFFICES ASSUME IInv, [Next]_vars PROVE IInv'
  OBVIOUS
<1>1. TypeOK' /\ AtAPattern'
  BY StepType DEF IInv
<1>2. Merging'
  <2>1. CASE UNCHANGED vars
    <3>1. UNCHANGED <<inputs, pc, at, left, found, members, patterns, tree>>
      BY <2>1 DEF vars, inputs
    <3>2. /\ Pattern' = Pattern /\ Listing' = Listing
          /\ Unsupported(Pattern)' = Unsupported(Pattern)
          /\ EndsInStar(Pattern)' = EndsInStar(Pattern)
      BY <3>1 DEF Pattern, Listing, Unsupported, EndsInStar
    <3>3. ListedSoFar'
      BY <3>1, <3>2 DEF IInv, ListedSoFar
    <3>4. GoodSoFar' /\ MergedSoFar'
      BY <3>1, SameInputs DEF IInv, GoodSoFar, MergedSoFar
    <3>5. InOrder' /\ NoMemberTwice'
      BY <3>1, SameInputs DEF IInv, InOrder, NoMemberTwice
    <3> QED
      BY <3>3, <3>4, <3>5 DEF Merging
  <2>2. CASE MergeNext
    BY <2>2, MergeKnown, MergeNew
  <2> QED
    BY <2>1, <2>2, StepAround, StepExact, StepStar, StepEntry, StepListed,
       StepNextPattern DEF Next, Done
<1> QED
  BY <1>1, <1>2 DEF IInv, Merging

LEMMA Invariance == Spec => []IInv
  BY InitInv, StepInv, PTL DEF Spec

\* expand_pattern and validate_member_under_root: what is a member, or was found
\* and is about to become one, is a directory under the workspace root, for any
\* number of patterns and whatever the links of the tree lead to.
THEOREM TypeCorrect == Spec => []TypeOK
<1>1. IInv => TypeOK
  BY DEF IInv
<1> QED
  BY <1>1, Invariance, PTL

\* detect() never lists a member twice, although patterns overlap, links lead to
\* one directory from several names and a listing comes in any order.
THEOREM NoMemberTwiceCorrect == Spec => []NoMemberTwice
<1>1. IInv => NoMemberTwice
  BY DEF IInv
<1> QED
  BY <1>1, Invariance, PTL

\* detect() fails on exactly the workspaces with a pattern to refuse, and no
\* order of the patterns or of a listing hides one.
THEOREM FailsIffAPatternIsBadCorrect == Spec => []FailsIffAPatternIsBad
<1>1. ASSUME IInv PROVE FailsIffAPatternIsBad
  <2>1. pc = "workspace" => \A k \in DOMAIN patterns : k < at
    BY <1>1 DEF IInv, TypeOK, AtAPattern
  <2> QED
    BY <1>1, <2>1 DEF IInv, GoodSoFar, FailsIffAPatternIsBad, Refused
<1> QED
  BY <1>1, Invariance, PTL

\* The members detect() returns, and the order they stand in, depend on the
\* patterns and the tree alone.
THEOREM MembersAreDeterminedCorrect == Spec => []MembersAreDetermined
<1>1. ASSUME IInv, pc = "workspace"
      PROVE  Range(members) = UNION {Leads(patterns[k]) : k \in DOMAIN patterns}
  <2>1. \A k \in DOMAIN patterns : k < at
    BY <1>1 DEF IInv, TypeOK, AtAPattern
  <2>2. \A k \in DOMAIN patterns : Leads(patterns[k]) \subseteq Range(members)
    BY <1>1, <2>1 DEF IInv, MergedSoFar, LedTo
  <2>3. \A m \in Range(members) : \E j \in DOMAIN patterns : m \in Leads(patterns[j])
    BY <1>1 DEF IInv, InOrder, LeadsFirst
  <2> QED
    BY <2>2, <2>3
<1>2. IInv => MembersAreDetermined
  BY <1>1 DEF IInv, InOrder, MembersAreDetermined
<1> QED
  BY <1>2, Invariance, PTL

===============================================================================
