--------------------------- MODULE RestampProofs ---------------------------
(***************************************************************************)
(* `agora repo upgrade --restamp` for every set of notes, tags, vaults and *)
(* processes on any hosts, and any number of commits: what a restamp       *)
(* commit changes, and that a restamp that is repeated changes nothing.    *)
(***************************************************************************)
EXTENDS Restamp, TLAPS, FiniteSetTheorems

Shape(k) == [notes : [Notes -> NoteOf(k)], taxonomy : TaxonomyType]
Result(base, plan) ==
    [base EXCEPT !.notes = plan.notes, !.taxonomy.allowed = plan.allowed]
\* The tree new is what a restamp that is not refused makes of the tree old.
Restamped(old, new, tagged) ==
    /\ Plan(old, tagged).reasons = {}
    /\ new = Result(old, Plan(old, tagged))
\* The same of three values of the state, which the quantifiers name.
RestampedFrom(old, new, tagged) ==
    \E o \in {old}, n \in {new}, t \in {tagged} : Restamped(o, n, t)

CommitType == [parent : 0 .. MaxCommits, tree : Shape(MaxCommits + 1),
               by : {"init", "owner", "restamp", "curate"}, tagged : BOOLEAN]
CommitsType ==
    commits \in Seq(CommitType) /\ Len(commits) \in 1 .. MaxCommits
HistoryOK ==
    /\ tip \in 1 .. Len(commits)
    /\ \A c \in 1 .. Len(commits) :
         /\ TreeOf(c) \in Shape(c)
         /\ Restamps(c) => /\ commits[c].parent \in 1 .. Len(commits)
                           /\ RestampedFrom(Old(c), TreeOf(c), commits[c].tagged)
ProcType ==
    /\ proc = [p \in Procs |-> proc[p]]
    /\ \A p \in Procs :
         /\ proc[p] = [stage |-> proc[p].stage, base |-> proc[p].base,
                       allowed |-> proc[p].allowed, tagged |-> proc[p].tagged,
                       tree |-> proc[p].tree]
         /\ proc[p].stage \in {"idle", "called", "locked"}
         /\ proc[p].tagged \in BOOLEAN
\* What a process will commit it has made of the commit it started from.
PreparedOK ==
    \A p \in Procs : proc[p].stage = "locked" =>
        /\ proc[p].base \in 1 .. Len(commits)
        /\ proc[p].tree \in Shape(proc[p].base + 1)
        /\ JobOf[p] = "restamp" =>
             RestampedFrom(TreeOf(proc[p].base), proc[p].tree, proc[p].tagged)
LiveOK == live \in Shape(Len(commits) + 1)
IInv == CommitsType /\ HistoryOK /\ ProcType /\ PreparedOK /\ LiveOK /\ PreviewIsPlan
-----------------------------------------------------------------------------
(* Notes and trees.                                                        *)

\* A note or a tree with few versions is one with more.
LEMMA ShapeGrows ==
    ASSUME NEW i \in Nat, NEW k \in Nat, i <= k
    PROVE  NoteOf(i) \subseteq NoteOf(k) /\ Shape(i) \subseteq Shape(k)
<1>1. \A v \in 0 .. i : v \in 0 .. k
  OBVIOUS
<1>2. NoteOf(i) \subseteq NoteOf(k)
  BY <1>1 DEF NoteOf
<1>3. [Notes -> NoteOf(i)] \subseteq [Notes -> NoteOf(k)]
  BY <1>2
<1> QED BY <1>2, <1>3 DEF Shape

\* A tree whose notes and whose declared tags are replaced is a tree.
LEMMA ShapeReplaced ==
    ASSUME NEW k, NEW t \in Shape(k), NEW f \in [Notes -> NoteOf(k)],
           NEW a \in SUBSET Tags
    PROVE  /\ [t EXCEPT !.notes = f, !.taxonomy.allowed = a] \in Shape(k)
           /\ [t EXCEPT !.notes = f, !.taxonomy.allowed = a].notes = f
           /\ [t EXCEPT !.notes = f, !.taxonomy.allowed = a].taxonomy =
                [t.taxonomy EXCEPT !.allowed = a]
           /\ [t EXCEPT !.notes = f, !.taxonomy.allowed = a].taxonomy.allowed = a
  BY DEF Shape, TaxonomyType

\* The parts of the tree a plan results in.
LEMMA ResultIs ==
    ASSUME NEW k, NEW t \in Shape(k), NEW plan, plan.notes \in [Notes -> NoteOf(k)],
           plan.allowed \in SUBSET Tags
    PROVE  /\ Result(t, plan) \in Shape(k)
           /\ Result(t, plan).notes = plan.notes
           /\ Result(t, plan).taxonomy = [t.taxonomy EXCEPT !.allowed = plan.allowed]
           /\ Result(t, plan).taxonomy.allowed = plan.allowed
<1>1. /\ Result(t, plan) = [t EXCEPT !.notes = plan.notes, !.taxonomy.allowed = plan.allowed]
      /\ [t EXCEPT !.notes = plan.notes, !.taxonomy.allowed = plan.allowed] \in Shape(k)
      /\ [t EXCEPT !.notes = plan.notes, !.taxonomy.allowed = plan.allowed].notes = plan.notes
      /\ [t EXCEPT !.notes = plan.notes, !.taxonomy.allowed = plan.allowed].taxonomy =
           [t.taxonomy EXCEPT !.allowed = plan.allowed]
      /\ [t EXCEPT !.notes = plan.notes, !.taxonomy.allowed = plan.allowed].taxonomy.allowed
           = plan.allowed
  BY DEF Result, Shape, TaxonomyType
<1> QED BY <1>1

\* The plan leaves a planned note as it is but for its mirror and its tags, and
\* a note it has planned it would plan again.
LEMMA PlanNoteIs ==
    ASSUME NEW k \in Nat, NEW note \in NoteOf(k), Planned(note), NEW match,
           Usable(match) => match.tags \subseteq Tags
    PROVE  /\ PlanNote(note, match) =
                [note EXCEPT !.mirror = note.sources,
                             !.tags = IF Usable(match) THEN match.tags ELSE @]
           /\ PlanNote(note, match) \in NoteOf(k)
           /\ Planned(PlanNote(note, match))
           /\ PlanNote(PlanNote(note, match), match) = PlanNote(note, match)
<1> DEFINE tags == IF Usable(match) THEN match.tags ELSE note.tags
           new == [note EXCEPT !.mirror = note.sources, !.tags = tags]
<1>1. Rendered(note) = note /\ note.form = "stable"
  BY DEF Planned, RoundTrips, NoteOf, Rendered
<1>2. PlanNote(note, match) = new
  BY <1>1 DEF PlanNote, StampSourceLinks, NoteOf
<1>3. tags \in SUBSET (Tags \cup {"?"})
  BY DEF NoteOf
<1> HIDE DEF tags
<1>4. new \in NoteOf(k)
  BY <1>3 DEF NoteOf
<1>5. Rendered(new) = new
  BY <1>1, <1>4 DEF Rendered, NoteOf
<1>6. new.form = "stable" /\ new.at = note.at /\ new.kind = note.kind
         /\ new.stamped = note.stamped /\ new.sources = note.sources
         /\ new.mirror = note.sources /\ new.tags = tags
  BY <1>1 DEF NoteOf
<1>7. Planned(new)
  BY <1>5, <1>6 DEF Planned, RoundTrips, Scanned
<1>8. PlanNote(new, match) =
        [[new EXCEPT !.mirror = new.sources] EXCEPT
            !.tags = IF Usable(match) THEN match.tags ELSE new.tags]
  <2>1. [new EXCEPT !.mirror = new.sources].tags = new.tags
    BY <1>4 DEF NoteOf
  <2> QED BY <1>5, <2>1 DEF PlanNote, StampSourceLinks
<1>9. (IF Usable(match) THEN match.tags ELSE new.tags) = tags
  BY <1>6 DEF tags
<1>10. [new EXCEPT !.mirror = new.sources] = new
  BY <1>4, <1>6 DEF NoteOf
<1>11. [new EXCEPT !.tags = tags] = new
  BY <1>4, <1>6 DEF NoteOf
<1>12. PlanNote(new, match) = new
  BY <1>8, <1>9, <1>10, <1>11
<1>13. [note EXCEPT !.mirror = note.sources,
                    !.tags = IF Usable(match) THEN match.tags ELSE @] = new
  BY DEF tags
<1> QED BY <1>2, <1>4, <1>7, <1>12, <1>13
-----------------------------------------------------------------------------
(* The plan.                                                               *)
PlannedNotes(tree) == {n \in Notes : Planned(tree.notes[n])}
Recovered(tree, tagged) ==
    UNION {Lookup(n).tags : n \in {m \in PlannedNotes(tree) : tagged /\ Usable(Lookup(m))}}

\* The parts of a plan.
LEMMA PlanParts ==
    ASSUME NEW tree, NEW tagged
    PROVE  /\ Plan(tree, tagged).notes =
                [n \in Notes |-> IF n \in PlannedNotes(tree)
                                 THEN PlanNote(tree.notes[n], Answer(n, tagged))
                                 ELSE tree.notes[n]]
           /\ Plan(tree, tagged).allowed = tree.taxonomy.allowed \cup Recovered(tree, tagged)
           /\ Plan(tree, tagged).reasons = {} =>
                LET added == Plan(tree, tagged).allowed \ tree.taxonomy.allowed
                IN  added = {} \/ PolicyAllows(tree.taxonomy.policy, added)
  BY DEF Plan, PlannedNotes, Recovered, MergeAllowedTags

\* Only a vault that is asked, and a match that can be used, gives a note tags;
\* those are valid, and the plan recovers them.
LEMMA AnswerTags ==
    ASSUME NEW n, NEW tagged \in BOOLEAN, Usable(Answer(n, tagged))
    PROVE  /\ tagged /\ Answer(n, tagged) = Lookup(n) /\ Usable(Lookup(n))
           /\ Answer(n, tagged).tags \subseteq Tags
<1>1. CASE tagged
  BY <1>1 DEF Answer, Usable, ValidTags
<1>2. CASE ~tagged
  <2>1. Answer(n, tagged).status = "none"
    BY <1>2 DEF Answer
  <2> QED BY <2>1 DEF Usable
<1> QED BY <1>1, <1>2

\* A plan of a tree is a tree again.
LEMMA PlanShape ==
    ASSUME NEW k \in Nat, NEW tree \in Shape(k), NEW tagged \in BOOLEAN
    PROVE  /\ Plan(tree, tagged).notes \in [Notes -> NoteOf(k)]
           /\ Plan(tree, tagged).allowed \in SUBSET Tags
           /\ Result(tree, Plan(tree, tagged)) \in Shape(k)
<1>1. tree.notes \in [Notes -> NoteOf(k)] /\ tree.taxonomy.allowed \in SUBSET Tags
  BY DEF Shape, TaxonomyType
<1>2. ASSUME NEW n \in Notes, n \in PlannedNotes(tree)
      PROVE  PlanNote(tree.notes[n], Answer(n, tagged)) \in NoteOf(k)
  BY <1>1, <1>2, PlanNoteIs, AnswerTags DEF PlannedNotes
<1>3. Plan(tree, tagged).notes \in [Notes -> NoteOf(k)]
  <2>1. Plan(tree, tagged).notes = [n \in Notes |-> IF n \in PlannedNotes(tree)
          THEN PlanNote(tree.notes[n], Answer(n, tagged)) ELSE tree.notes[n]]
    BY PlanParts
  <2> QED BY <1>1, <1>2, <2>1
<1>4. Recovered(tree, tagged) \subseteq Tags
  BY DEF Recovered, Usable, ValidTags
<1>5. Plan(tree, tagged).allowed \in SUBSET Tags
  <2>1. Plan(tree, tagged).allowed = tree.taxonomy.allowed \cup Recovered(tree, tagged)
    BY PlanParts
  <2> QED BY <1>1, <1>4, <2>1
<1> QED BY <1>3, <1>5, ResultIs

\* Planned again, the result of a plan is what it is: the same notes are planned,
\* with the tags and the mirror they have, and the same tags are recovered.
LEMMA PlanIsRepeatable ==
    ASSUME NEW k \in Nat, NEW tree \in Shape(k), NEW tagged \in BOOLEAN
    PROVE  LET new == Result(tree, Plan(tree, tagged))
           IN ~Changed(new, Plan(new, tagged))
<1> DEFINE plan == Plan(tree, tagged)
           new == Result(tree, plan)
<1>1. tree.notes \in [Notes -> NoteOf(k)]
  BY DEF Shape
<1>2. plan.notes \in [Notes -> NoteOf(k)] /\ plan.allowed \in SUBSET Tags
  BY PlanShape
<1>3. plan.notes = [n \in Notes |-> IF n \in PlannedNotes(tree)
                      THEN PlanNote(tree.notes[n], Answer(n, tagged)) ELSE tree.notes[n]]
      /\ plan.allowed = tree.taxonomy.allowed \cup Recovered(tree, tagged)
  BY PlanParts
<1> HIDE DEF plan
<1>4. new.notes = plan.notes /\ new.taxonomy.allowed = plan.allowed
  <2>1. new = [tree EXCEPT !.notes = plan.notes, !.taxonomy.allowed = plan.allowed]
    BY DEF Result
  <2> HIDE DEF new
  <2> QED BY <1>2, <2>1 DEF Shape, TaxonomyType
<1> HIDE DEF new
<1>5. ASSUME NEW n \in Notes
      PROVE  /\ n \in PlannedNotes(new) <=> n \in PlannedNotes(tree)
             /\ n \in PlannedNotes(tree) =>
                  PlanNote(new.notes[n], Answer(n, tagged)) = new.notes[n]
  <2>1. CASE n \in PlannedNotes(tree)
    <3>1. new.notes[n] = PlanNote(tree.notes[n], Answer(n, tagged))
      BY <1>3, <1>4, <2>1
    <3> DEFINE match == Answer(n, tagged)
               note == tree.notes[n]
    <3>2. note \in NoteOf(k) /\ Planned(note)
      BY <1>1, <2>1 DEF PlannedNotes
    <3>3. Usable(match) => match.tags \subseteq Tags
      BY AnswerTags
    <3>4. Planned(PlanNote(note, match)) /\ PlanNote(PlanNote(note, match), match)
                                              = PlanNote(note, match)
      <4> HIDE DEF match, note
      <4> QED BY <3>2, <3>3, PlanNoteIs
    <3> QED BY <2>1, <3>1, <3>4 DEF PlannedNotes
  <2>2. CASE n \notin PlannedNotes(tree)
    <3>1. new.notes[n] = tree.notes[n]
      BY <1>3, <1>4, <2>2
    <3> QED BY <2>2, <3>1 DEF PlannedNotes
  <2> QED BY <2>1, <2>2
<1>6. PlannedNotes(new) = PlannedNotes(tree)
  <2>1. \A n : n \in PlannedNotes(new) <=> n \in PlannedNotes(tree)
    BY <1>5 DEF PlannedNotes
  <2> QED BY <2>1
<1>7. Plan(new, tagged).notes = new.notes
  <2>1. Plan(new, tagged).notes = [n \in Notes |-> IF n \in PlannedNotes(new)
          THEN PlanNote(new.notes[n], Answer(n, tagged)) ELSE new.notes[n]]
    BY PlanParts
  <2>2. \A n \in Notes : Plan(new, tagged).notes[n] = new.notes[n]
    BY <1>5, <1>6, <2>1
  <2> QED BY <1>2, <1>4, <2>1, <2>2
<1>8. Plan(new, tagged).allowed = new.taxonomy.allowed
  <2>1. Plan(new, tagged).allowed = new.taxonomy.allowed \cup Recovered(new, tagged)
    BY PlanParts
  <2>2. Recovered(new, tagged) = Recovered(tree, tagged)
    BY <1>6 DEF Recovered
  <2> QED BY <1>3, <1>4, <2>1, <2>2
<1> QED BY <1>7, <1>8 DEF Changed, new, plan

\* What may differ between two trees: the mirror and the tags of curator notes,
\* tags with their declaration, and a taxonomy only as its policy allows.
MayDiffer(old, new) ==
    /\ \A n \in Notes : new.notes[n] # old.notes[n] =>
         /\ old.notes[n].stamped /\ old.notes[n].at = "wiki"
         /\ old.notes[n].kind = "concept"
         /\ new.notes[n] = [old.notes[n] EXCEPT !.mirror = old.notes[n].sources,
                                                !.tags = new.notes[n].tags]
         /\ \/ new.notes[n].tags = old.notes[n].tags
            \/ new.notes[n].tags \subseteq new.taxonomy.allowed
    /\ old.taxonomy.allowed \subseteq new.taxonomy.allowed
    /\ new.taxonomy # old.taxonomy =>
         \/ old.taxonomy.policy = "open"
         \/ /\ old.taxonomy.policy = "capped:1"
            /\ Cardinality(new.taxonomy.allowed \ old.taxonomy.allowed) = 1

\* A restamp that is not refused changes a tree no further.
LEMMA RestampChanges ==
    ASSUME NEW k \in Nat, NEW old \in Shape(k), NEW tagged \in BOOLEAN, NEW new,
           Restamped(old, new, tagged)
    PROVE  MayDiffer(old, new)
<1> DEFINE plan == Plan(old, tagged)
           added == plan.allowed \ old.taxonomy.allowed
<1>1. old.notes \in [Notes -> NoteOf(k)] /\ old.taxonomy \in TaxonomyType
  BY DEF Shape
<1>2. plan.notes \in [Notes -> NoteOf(k)] /\ plan.allowed \in SUBSET Tags
  BY PlanShape
<1>3. plan.notes = [n \in Notes |-> IF n \in PlannedNotes(old)
                      THEN PlanNote(old.notes[n], Answer(n, tagged)) ELSE old.notes[n]]
      /\ plan.allowed = old.taxonomy.allowed \cup Recovered(old, tagged)
      /\ (plan.reasons = {} => added = {} \/ PolicyAllows(old.taxonomy.policy, added))
  BY PlanParts
<1>4. plan.reasons = {} /\ new = Result(old, plan)
  BY DEF Restamped
<1> HIDE DEF plan
<1>5. /\ new.notes = plan.notes /\ new.taxonomy.allowed = plan.allowed
      /\ new.taxonomy = [old.taxonomy EXCEPT !.allowed = plan.allowed]
  BY <1>2, <1>4, ResultIs
<1>6. ASSUME NEW n \in Notes, new.notes[n] # old.notes[n]
      PROVE  /\ old.notes[n].stamped /\ old.notes[n].at = "wiki"
             /\ old.notes[n].kind = "concept"
             /\ new.notes[n] = [old.notes[n] EXCEPT !.mirror = old.notes[n].sources,
                                                    !.tags = new.notes[n].tags]
             /\ \/ new.notes[n].tags = old.notes[n].tags
                \/ new.notes[n].tags \subseteq new.taxonomy.allowed
  <2> DEFINE match == Answer(n, tagged)
             note == old.notes[n]
             tags == IF Usable(match) THEN match.tags ELSE note.tags
  <2>1. n \in PlannedNotes(old) /\ new.notes[n] = PlanNote(note, match)
    BY <1>3, <1>5, <1>6
  <2>2. Planned(note) /\ note \in NoteOf(k)
    BY <1>1, <2>1 DEF PlannedNotes
  <2>3. Usable(match) => /\ match.tags \subseteq Tags /\ tagged
                         /\ match = Lookup(n) /\ Usable(Lookup(n))
    BY AnswerTags
  <2>4. new.notes[n] = [note EXCEPT !.mirror = note.sources, !.tags = tags]
    <3> HIDE DEF match, note
    <3> QED BY <2>1, <2>2, <2>3, PlanNoteIs
  <2> HIDE DEF tags
  <2>5. new.notes[n].tags = tags
    BY <2>2, <2>4 DEF NoteOf
  <2>6. Usable(match) => tags \subseteq Recovered(old, tagged)
    BY <2>1, <2>3 DEF Recovered, tags
  <2>7. tags = note.tags \/ tags \subseteq new.taxonomy.allowed
    BY <1>3, <1>5, <2>6 DEF tags
  <2>8. note.stamped /\ note.at = "wiki" /\ note.kind = "concept"
    BY <2>2 DEF Planned, Scanned
  <2> QED BY <2>4, <2>5, <2>7, <2>8
<1>7. old.taxonomy.allowed \subseteq new.taxonomy.allowed
  BY <1>3, <1>5
<1>8. ASSUME new.taxonomy # old.taxonomy
      PROVE  \/ old.taxonomy.policy = "open"
             \/ /\ old.taxonomy.policy = "capped:1"
                /\ Cardinality(new.taxonomy.allowed \ old.taxonomy.allowed) = 1
  <2>1. plan.allowed # old.taxonomy.allowed
    BY <1>1, <1>5, <1>8 DEF TaxonomyType
  <2>2. added # {}
    BY <1>3, <2>1
  <2>3. PolicyAllows(old.taxonomy.policy, added)
    BY <1>3, <1>4, <2>2
  <2>4. CASE old.taxonomy.policy = "capped:1" /\ Cardinality(added) <= 1
    <3>1. IsFiniteSet(added)
      <4>1. added \subseteq Tags
        BY <1>2
      <4> QED BY <4>1, FS_Subset, TreeAssumption
    <3>2. Cardinality(added) \in Nat /\ Cardinality(added) # 0
      BY <2>2, <3>1, FS_CardinalityType, FS_EmptySet
    <3>3. Cardinality(added) = 1
      <4> HIDE DEF added
      <4> QED BY <2>4, <3>2
    <3> QED BY <1>5, <2>4, <3>3
  <2> QED BY <2>2, <2>3, <2>4 DEF PolicyAllows
<1> QED BY <1>6, <1>7, <1>8 DEF MayDiffer
-----------------------------------------------------------------------------
(* The steps.                                                              *)

\* A vault that is not touched is answered from in the same way.
LEMMA PlanStays ==
    ASSUME UNCHANGED vault
    PROVE  \A t, u, g : /\ Plan(t, g)' = Plan(t, g)
                        /\ Restamped(t, u, g)' <=> Restamped(t, u, g)
<1>1. \A n : Hits(n)' = Hits(n)
  BY DEF Hits
<1>2. \A n : Lookup(n)' = Lookup(n)
  BY <1>1 DEF Lookup
<1>3. \A n, g : Answer(n, g)' = Answer(n, g)
  BY <1>2 DEF Answer
<1>4. ASSUME NEW t, NEW g
      PROVE  Plan(t, g)' = Plan(t, g)
  <2> DEFINE used == {m \in {n \in Notes : Planned(t.notes[n])} : g /\ Usable(Lookup(m))}
  <2>1. used' = used
    BY <1>2 DEF Usable
  <2>2. (UNION {Lookup(n).tags : n \in used})' = UNION {Lookup(n).tags : n \in used}
    <3> HIDE DEF used
    <3> QED BY <1>2, <2>1
  <2>3. \A n : PlanNote(t.notes[n], Answer(n, g))' = PlanNote(t.notes[n], Answer(n, g))
    BY <1>3 DEF PlanNote, Usable
  <2> QED BY <2>2, <2>3 DEF Plan
<1>5. \A t, u, g : Restamped(t, u, g)' <=> Restamped(t, u, g)
  BY <1>4 DEF Restamped
<1> QED BY <1>4, <1>5

\* A tree a run may start from has one version of everything.
LEMMA InitInv == Init => IInv
<1> SUFFICES ASSUME Init PROVE IInv
  OBVIOUS
<1> PICK t \in Trees : commits = <<[parent |-> 0, tree |-> t, by |-> "init",
                                    tagged |-> FALSE]>>
  BY DEF Init
<1>1. MaxCommits \in Nat /\ MaxCommits >= 1 /\ t \in Shape(1)
  BY TreeAssumption DEF Shape
<1>2. t \in Shape(MaxCommits + 1) /\ t \in Shape(2)
  BY <1>1, ShapeGrows
<1>3. Len(commits) = 1 /\ TreeOf(1) = t /\ commits[1].by = "init"
  BY DEF TreeOf
<1>4. CommitsType
  <2>1. [parent |-> 0, tree |-> t, by |-> "init", tagged |-> FALSE] \in CommitType
    BY <1>1, <1>2 DEF CommitType
  <2> QED BY <1>1, <1>3, <2>1 DEF CommitsType
<1>5. HistoryOK
  BY <1>1, <1>3 DEF HistoryOK, Restamps, Init
<1>6. ProcType
  BY DEF Init, ProcType, Idle
<1>7. PreparedOK
  BY DEF Init, PreparedOK, Idle
<1>8. LiveOK
  BY <1>2, <1>3 DEF LiveOK, Init
<1>9. PreviewIsPlan
  BY DEF Init, Nothing, PreviewIsPlan
<1> QED BY <1>4, <1>5, <1>6, <1>7, <1>8, <1>9 DEF IInv

\* A step that commits nothing keeps the history.
LEMMA HistoryStays ==
    ASSUME IInv, UNCHANGED <<commits, tip, vault>>
    PROVE  /\ CommitsType' /\ HistoryOK'
           /\ Len(commits') = Len(commits)
           /\ \A c \in 1 .. Len(commits) : commits'[c] = commits[c]
<1>1. CommitsType'
  BY DEF IInv, CommitsType
<1>2. HistoryOK'
  BY PlanStays DEF IInv, HistoryOK, RestampedFrom, Restamps, Old, TreeOf
<1> QED BY <1>1, <1>2

\* A commit on top of another, which keeps the ones there are.
LEMMA HistoryGrows ==
    ASSUME IInv, MayCommit, NEW tree \in Shape(Len(commits) + 1),
           NEW by \in {"owner", "restamp", "curate"}, NEW tagged \in BOOLEAN,
           NEW base \in 1 .. Len(commits),
           by = "restamp" => Restamped(TreeOf(base), tree, tagged),
           commits' = Committed(base, tree, by, tagged), tip' = Len(commits'),
           UNCHANGED vault
    PROVE  /\ CommitsType' /\ HistoryOK'
           /\ Len(commits') = Len(commits) + 1
           /\ \A c \in 1 .. Len(commits) : commits'[c] = commits[c]
<1> DEFINE new == [parent |-> base, tree |-> tree, by |-> by, tagged |-> tagged]
<1>1. /\ commits \in Seq(CommitType) /\ Len(commits) \in 1 .. MaxCommits
      /\ MaxCommits \in Nat /\ Len(commits) < MaxCommits
  BY TreeAssumption DEF IInv, CommitsType, MayCommit
<1>2. tree \in Shape(MaxCommits + 1)
  BY <1>1, ShapeGrows
<1>3. new \in CommitType
  BY <1>1, <1>2 DEF CommitType
<1>4. commits' = Append(commits, new)
  BY DEF Committed
<1> HIDE DEF new
<1>5. /\ commits' \in Seq(CommitType) /\ Len(commits') = Len(commits) + 1
      /\ \A c \in 1 .. Len(commits) : commits'[c] = commits[c]
      /\ commits'[Len(commits) + 1] = new
  BY <1>1, <1>3, <1>4
<1>6. CommitsType'
  BY <1>1, <1>5 DEF CommitsType
<1>7. HistoryOK'
  <2>1. tip' \in 1 .. Len(commits')
    BY <1>1, <1>5
  <2>2. ASSUME NEW c \in 1 .. Len(commits')
        PROVE  /\ TreeOf(c)' \in Shape(c)
               /\ Restamps(c)' =>
                    /\ commits'[c].parent \in 1 .. Len(commits')
                    /\ RestampedFrom(Old(c), TreeOf(c), commits[c].tagged)'
    <3>1. CASE c \in 1 .. Len(commits)
      <4>1. commits'[c] = commits[c] /\ TreeOf(c)' = TreeOf(c)
        BY <1>5, <3>1 DEF TreeOf
      <4>2. ASSUME Restamps(c)'
            PROVE  /\ commits'[c].parent \in 1 .. Len(commits')
                   /\ RestampedFrom(Old(c), TreeOf(c), commits[c].tagged)'
        <5>1. /\ commits[c].parent \in 1 .. Len(commits)
              /\ RestampedFrom(Old(c), TreeOf(c), commits[c].tagged)
          BY <3>1, <4>1, <4>2 DEF IInv, HistoryOK, Restamps
        <5>2. Old(c)' = Old(c)
          BY <1>5, <4>1, <5>1 DEF Old, TreeOf
        <5> QED BY <1>1, <1>5, <4>1, <5>1, <5>2, PlanStays DEF RestampedFrom
      <4> QED BY <3>1, <4>1, <4>2 DEF IInv, HistoryOK
    <3>2. CASE c = Len(commits) + 1
      <4>1. /\ commits'[c] = new /\ TreeOf(c)' = tree /\ Old(c)' = TreeOf(base)
            /\ commits'[c].parent = base /\ commits'[c].by = by
            /\ commits'[c].tagged = tagged
        BY <1>5, <3>2 DEF TreeOf, Old, new
      <4>2. Restamps(c)' => RestampedFrom(Old(c), TreeOf(c), commits[c].tagged)'
        BY <4>1, PlanStays DEF Restamps, RestampedFrom
      <4> QED BY <1>1, <1>5, <3>2, <4>1, <4>2
    <3> QED BY <1>1, <1>5, <3>1, <3>2
  <2> QED BY <2>1, <2>2 DEF HistoryOK
<1> QED BY <1>5, <1>6, <1>7

\* What there is of the history, and of the vault, is there after the step.
HistoryKept ==
    /\ Len(commits) \in Nat /\ Len(commits') \in Nat /\ Len(commits) <= Len(commits')
    /\ \A c \in 1 .. Len(commits) : commits'[c] = commits[c]
    /\ UNCHANGED vault

\* A process that becomes idle: what the others prepared is as they left it.
LEMMA BecomesIdle ==
    ASSUME IInv, NEW p \in Procs, proc' = [proc EXCEPT ![p] = Idle],
           HistoryKept
    PROVE  ProcType' /\ PreparedOK'
<1>1. /\ \A q \in Procs \ {p} : proc'[q] = proc[q]
      /\ proc'[p] = Idle /\ proc' = [q \in Procs |-> proc'[q]]
  BY DEF IInv, ProcType
<1>2. ProcType'
  BY <1>1 DEF IInv, ProcType, Idle
<1>3. ASSUME NEW q \in Procs, proc'[q].stage = "locked"
      PROVE  /\ proc'[q].base \in 1 .. Len(commits')
             /\ proc'[q].tree \in Shape(proc'[q].base + 1)
             /\ JobOf[q] = "restamp" =>
                  RestampedFrom(TreeOf(proc[q].base), proc[q].tree, proc[q].tagged)'
  <2>1. q # p /\ proc'[q] = proc[q]
    BY <1>1, <1>3 DEF Idle
  <2>2. /\ proc[q].base \in 1 .. Len(commits)
        /\ proc[q].tree \in Shape(proc[q].base + 1)
        /\ JobOf[q] = "restamp" =>
             RestampedFrom(TreeOf(proc[q].base), proc[q].tree, proc[q].tagged)
    BY <1>3, <2>1 DEF IInv, PreparedOK
  <2>3. Len(commits) \in Nat
    BY DEF HistoryKept
  <2>4. TreeOf(proc[q].base)' = TreeOf(proc[q].base)
    BY <2>1, <2>2 DEF TreeOf, HistoryKept
  <2>5. JobOf[q] = "restamp" =>
          RestampedFrom(TreeOf(proc[q].base), proc[q].tree, proc[q].tagged)'
    BY <2>1, <2>2, <2>4, PlanStays DEF RestampedFrom, HistoryKept
  <2> QED BY <2>1, <2>2, <2>3, <2>5 DEF HistoryKept
<1>4. PreparedOK'
  BY <1>3 DEF PreparedOK
<1> QED BY <1>2, <1>4

\* A step that leaves the history, the checkout and every prepared commit alone.
LEMMA OnlyIdles ==
    ASSUME IInv, NEW p \in Procs, proc' = [proc EXCEPT ![p] = Idle],
           UNCHANGED <<commits, tip, live, vault>>, PreviewIsPlan'
    PROVE  IInv'
<1>1. /\ CommitsType' /\ HistoryOK' /\ Len(commits') = Len(commits)
      /\ \A c \in 1 .. Len(commits) : commits'[c] = commits[c]
  BY HistoryStays
<1>2. HistoryKept
  BY <1>1 DEF HistoryKept, IInv, CommitsType
<1>3. ProcType' /\ PreparedOK'
  BY <1>2, BecomesIdle
<1>4. LiveOK'
  BY DEF IInv, LiveOK
<1> QED BY <1>1, <1>3, <1>4 DEF IInv

\* A process that has not locked before, and what it prepares when it does.
LEMMA Begins ==
    ASSUME IInv, UNCHANGED <<commits, tip, live, vault>>, report' = Nothing,
           NEW p \in Procs, proc' = [q \in Procs |-> proc'[q]],
           \A q \in Procs \ {p} : proc'[q] = proc[q],
           proc'[p] = [stage |-> proc'[p].stage, base |-> proc'[p].base,
                       allowed |-> proc'[p].allowed, tagged |-> proc'[p].tagged,
                       tree |-> proc'[p].tree],
           proc'[p].stage \in {"called", "locked"}, proc'[p].tagged \in BOOLEAN,
           proc'[p].stage = "locked" =>
             /\ proc'[p].base = tip /\ proc'[p].tree \in Shape(tip + 1)
             /\ JobOf[p] = "restamp" =>
                  RestampedFrom(TreeOf(tip), proc'[p].tree, proc'[p].tagged)
    PROVE  IInv'
<1>1. /\ CommitsType' /\ HistoryOK' /\ Len(commits') = Len(commits)
  BY HistoryStays
<1>2. LiveOK' /\ PreviewIsPlan'
  BY DEF IInv, LiveOK, PreviewIsPlan, Nothing
<1>3. ProcType'
  BY DEF IInv, ProcType
<1>4. ASSUME NEW q \in Procs, proc'[q].stage = "locked"
      PROVE  /\ proc'[q].base \in 1 .. Len(commits')
             /\ proc'[q].tree \in Shape(proc'[q].base + 1)
             /\ JobOf[q] = "restamp" =>
                  RestampedFrom(TreeOf(proc[q].base), proc[q].tree, proc[q].tagged)'
  <2>1. CASE q = p
    <3>1. TreeOf(proc[q].base)' = TreeOf(tip)
      BY <1>4, <2>1 DEF TreeOf
    <3> QED BY <1>4, <2>1, <3>1, PlanStays DEF IInv, HistoryOK, RestampedFrom
  <2>2. CASE q # p
    <3>1. proc'[q] = proc[q] /\ TreeOf(proc[q].base)' = TreeOf(proc[q].base)
      BY <2>2 DEF TreeOf
    <3> QED BY <1>4, <3>1, PlanStays DEF IInv, PreparedOK, RestampedFrom
  <2> QED BY <2>1, <2>2
<1>5. PreparedOK'
  BY <1>4 DEF PreparedOK
<1> QED BY <1>1, <1>2, <1>3, <1>5 DEF IInv

\* Only a preview reports a plan.
LEMMA ShortReport ==
    ASSUME \/ report' = <<>>
           \/ \E status : report' = <<status>>
    PROVE  PreviewIsPlan'
  BY DEF PreviewIsPlan

LEMMA InvokeInv == ASSUME IInv, NEW p \in Procs, Invoke(p) PROVE IInv'
<1>1. PICK tagged \in BOOLEAN :
        proc' = [proc EXCEPT ![p] = [Idle EXCEPT !.stage = "called", !.tagged = tagged,
                                                 !.allowed = live.taxonomy.allowed]]
  BY DEF Invoke
<1>2. UNCHANGED <<commits, tip, live, vault>> /\ report' = Nothing
  BY DEF Invoke
<1>3. /\ proc' = [q \in Procs |-> proc'[q]]
      /\ \A q \in Procs \ {p} : proc'[q] = proc[q]
      /\ proc'[p] = [stage |-> "called", base |-> 0, allowed |-> live.taxonomy.allowed,
                     tagged |-> tagged, tree |-> 0]
  BY <1>1 DEF IInv, ProcType, Idle
<1> QED BY <1>2, <1>3, Begins

LEMMA PreviewInv == ASSUME IInv, NEW p \in Procs, Preview(p) PROVE IInv'
<1>1. /\ UNCHANGED <<commits, tip, live, vault>> /\ proc' = [proc EXCEPT ![p] = Idle]
      /\ report' = <<IF live # TreeOf(tip) THEN "preview, may differ" ELSE "preview",
                     proc[p].tagged, Plan(live, proc[p].tagged)>>
  BY DEF Preview
<1>2. PICK g : g = proc[p].tagged
  OBVIOUS
<1>3. report'[1] = "preview" => live = TreeOf(tip)
  BY <1>1
<1>4. report'[2] = g /\ report'[3] = Plan(live, g)
  BY <1>1, <1>2
<1>5. PICK t : t = TreeOf(tip)
  OBVIOUS
<1>6. TreeOf(tip)' = t
  BY <1>1, <1>5 DEF TreeOf
<1>7. Plan(t, g)' = Plan(t, g)
  BY <1>1, PlanStays
<1>8. PreviewIsPlan'
  <2>1. ASSUME report'[1] = "preview"
        PROVE  report'[3] = Plan(t, g)'
    <3>1. live = t
      BY <1>3, <1>5, <2>1
    <3> QED BY <1>4, <1>7, <3>1
  <2> QED BY <1>4, <1>6, <2>1 DEF PreviewIsPlan
<1> QED BY <1>1, <1>8, OnlyIdles

LEMMA LockHeldInv == ASSUME IInv, NEW p \in Procs, LockHeld(p) PROVE IInv'
<1>1. PreviewIsPlan'
  BY ShortReport DEF LockHeld, Say
<1> QED BY <1>1, OnlyIdles DEF LockHeld

LEMMA ConflictInv == ASSUME IInv, NEW p \in Procs, Conflict(p) PROVE IInv'
<1>1. PreviewIsPlan'
  BY ShortReport DEF Conflict, Say
<1> QED BY <1>1, OnlyIdles DEF Conflict

LEMMA CrashInv == ASSUME IInv, NEW p \in Procs, Crash(p) PROVE IInv'
<1>1. PreviewIsPlan'
  BY ShortReport DEF Crash, Nothing
<1> QED BY <1>1, OnlyIdles DEF Crash

LEMMA PrepareInv == ASSUME IInv, NEW p \in Procs, Prepare(p) PROVE IInv'
<1> DEFINE base == TreeOf(tip)
           plan == Plan(base, proc[p].tagged)
<1>1. UNCHANGED <<commits, tip, live, vault>>
  BY DEF Prepare
<1>2. \/ \E status : Say(status) /\ proc' = [proc EXCEPT ![p] = Idle]
      \/ /\ plan.reasons = {}
         /\ proc' = [proc EXCEPT ![p].stage = "locked", ![p].base = tip, ![p].tree =
              [base EXCEPT !.notes = plan.notes, !.taxonomy.allowed = plan.allowed]]
         /\ report' = Nothing
  BY DEF Prepare, Refused
<1>3. CASE \E status : Say(status) /\ proc' = [proc EXCEPT ![p] = Idle]
  <2>1. PreviewIsPlan'
    BY <1>3, ShortReport DEF Say
  <2> QED BY <1>1, <1>3, <2>1, OnlyIdles
<1>4. ASSUME plan.reasons = {},
             proc' = [proc EXCEPT ![p].stage = "locked", ![p].base = tip, ![p].tree =
               [base EXCEPT !.notes = plan.notes, !.taxonomy.allowed = plan.allowed]],
             report' = Nothing
      PROVE  IInv'
  <2>1. tip \in 1 .. Len(commits) /\ base \in Shape(tip) /\ Len(commits) \in Nat
    BY DEF IInv, HistoryOK, CommitsType
  <2>2. proc[p].tagged \in BOOLEAN
    BY DEF IInv, ProcType
  <2>3. Result(base, plan) \in Shape(tip)
    BY <2>1, <2>2, PlanShape
  <2>4. Result(base, plan) \in Shape(tip + 1)
    <3>1. tip \in Nat /\ tip + 1 \in Nat /\ tip <= tip + 1
      BY <2>1
    <3> QED BY <2>3, <3>1, ShapeGrows
  <2>5. RestampedFrom(base, Result(base, plan), proc[p].tagged)
    BY <1>4 DEF RestampedFrom, Restamped
  <2>6. proc' = [proc EXCEPT ![p].stage = "locked", ![p].base = tip,
                             ![p].tree = Result(base, plan)]
    BY <1>4 DEF Result
  <2>7. PICK tree : tree = Result(base, plan)
    OBVIOUS
  <2>8. tree \in Shape(tip + 1) /\ RestampedFrom(TreeOf(tip), tree, proc[p].tagged)
    <3> HIDE DEF plan
    <3> QED BY <2>4, <2>5, <2>7
  <2>9. proc' = [proc EXCEPT ![p] = [stage |-> "locked", base |-> tip,
                   allowed |-> proc[p].allowed, tagged |-> proc[p].tagged, tree |-> tree]]
    <3>1. proc' = [proc EXCEPT ![p].stage = "locked", ![p].base = tip, ![p].tree = tree]
      <4> HIDE DEF base, plan
      <4> QED BY <2>6, <2>7
    <3>2. /\ proc = [q \in Procs |-> proc[q]]
          /\ proc[p] = [stage |-> proc[p].stage, base |-> proc[p].base,
                        allowed |-> proc[p].allowed, tagged |-> proc[p].tagged,
                        tree |-> proc[p].tree]
      BY DEF IInv, ProcType
    <3>3. PICK r : r = proc[p]
      OBVIOUS
    <3>4. [proc EXCEPT ![p].stage = "locked"] = [proc EXCEPT ![p] = [r EXCEPT !.stage = "locked"]]
      BY <3>2, <3>3
    <3> DEFINE r1 == [r EXCEPT !.stage = "locked"]
               r2 == [r1 EXCEPT !.base = tip]
               r3 == [r2 EXCEPT !.tree = tree]
               f1 == [proc EXCEPT ![p] = r1]
               f2 == [f1 EXCEPT ![p].base = tip]
               f3 == [f2 EXCEPT ![p].tree = tree]
    <3>5. proc' = f3
      BY <3>1, <3>4
    <3>6. r3 = [stage |-> "locked", base |-> tip, allowed |-> proc[p].allowed,
                tagged |-> proc[p].tagged, tree |-> tree]
      <4>1. r = [stage |-> r.stage, base |-> r.base, allowed |-> r.allowed,
                 tagged |-> r.tagged, tree |-> r.tree]
        BY <3>2, <3>3
      <4>2. r1 = [stage |-> "locked", base |-> r.base, allowed |-> r.allowed,
                  tagged |-> r.tagged, tree |-> r.tree]
        BY <4>1
      <4>3. r2 = [stage |-> "locked", base |-> tip, allowed |-> r.allowed,
                  tagged |-> r.tagged, tree |-> r.tree]
        <5> HIDE DEF r1
        <5> QED BY <4>2
      <4> HIDE DEF r2
      <4> QED BY <3>3, <4>3
    <3>7. f2 = [proc EXCEPT ![p] = r2]
      <4> HIDE DEF r1
      <4> QED BY <3>2
    <3>8. f3 = [proc EXCEPT ![p] = r3]
      <4> HIDE DEF f2, r2
      <4>1. f2 = [proc EXCEPT ![p] = r2]
        BY <3>7
      <4> QED BY <3>2, <4>1
    <3> HIDE DEF f3, r3
    <3> QED BY <3>5, <3>6, <3>8
  <2>10. /\ proc' = [q \in Procs |-> proc'[q]]
         /\ \A q \in Procs \ {p} : proc'[q] = proc[q]
         /\ proc'[p] = [stage |-> "locked", base |-> tip, allowed |-> proc[p].allowed,
                        tagged |-> proc[p].tagged, tree |-> tree]
    BY <2>9 DEF IInv, ProcType
  <2>11. /\ proc'[p].stage = "locked" /\ proc'[p].base = tip
         /\ proc'[p].tree = tree /\ proc'[p].tagged = proc[p].tagged
         /\ proc'[p].allowed = proc[p].allowed
    BY <2>10
  <2> HIDE DEF base, plan
  <2> QED BY <1>1, <1>4, <2>2, <2>8, <2>10, <2>11, Begins
<1> QED BY <1>2, <1>3, <1>4

LEMMA CurateBeginInv ==
    ASSUME IInv, NEW p \in Procs, NEW n \in Notes, CurateBegin(p, n) PROVE IInv'
<1> DEFINE base == TreeOf(tip)
           old == base.notes[n]
           note == StampSourceLinks([old EXCEPT !.body = 1 + @, !.sources = 1 + @])
           tree == [base EXCEPT !.notes[n] = note]
<1>1. /\ UNCHANGED <<commits, tip, live, vault>> /\ report' = Nothing
      /\ JobOf[p] = "curate"
      /\ proc' = [proc EXCEPT ![p] = [Idle EXCEPT !.stage = "locked", !.base = tip,
                                                  !.tree = tree]]
  BY DEF CurateBegin
<1>2. tip \in 1 .. Len(commits) /\ base \in Shape(tip) /\ Len(commits) \in Nat
  BY DEF IInv, HistoryOK, CommitsType
<1>3. old \in NoteOf(tip) /\ base.notes \in [Notes -> NoteOf(tip)]
  BY <1>2 DEF Shape
<1>4. \A v \in 0 .. tip : 1 + v \in 0 .. (tip + 1)
  BY <1>2
<1>5. note \in NoteOf(tip + 1)
  <2> HIDE DEF old
  <2> QED BY <1>3, <1>4 DEF NoteOf, StampSourceLinks
<1>6. NoteOf(tip) \subseteq NoteOf(tip + 1)
  BY <1>2, ShapeGrows
<1> HIDE DEF note
<1>7. tree \in Shape(tip + 1)
  <2>1. [base.notes EXCEPT ![n] = note] \in [Notes -> NoteOf(tip + 1)]
    BY <1>3, <1>5, <1>6
  <2>2. tree = [base EXCEPT !.notes = [base.notes EXCEPT ![n] = note]]
    BY <1>2 DEF Shape
  <2> HIDE DEF tree
  <2> QED BY <1>2, <2>1, <2>2 DEF Shape
<1> HIDE DEF tree
<1>8. /\ proc' = [q \in Procs |-> proc'[q]]
      /\ \A q \in Procs \ {p} : proc'[q] = proc[q]
      /\ proc'[p] = [stage |-> "locked", base |-> tip, allowed |-> {},
                     tagged |-> FALSE, tree |-> tree]
  BY <1>1 DEF IInv, ProcType, Idle
<1>9. /\ proc'[p].stage = "locked" /\ proc'[p].base = tip /\ proc'[p].tree = tree
      /\ proc'[p].tagged = FALSE /\ proc'[p].allowed = {}
  BY <1>8
<1> QED BY <1>1, <1>7, <1>8, <1>9, Begins

LEMMA PublishInv == ASSUME IInv, NEW p \in Procs, Publish(p) PROVE IInv'
<1>1. /\ MayCommit /\ tip = proc[p].base
      /\ commits' = Committed(proc[p].base, proc[p].tree, JobOf[p], proc[p].tagged)
      /\ tip' = Len(commits') /\ UNCHANGED vault
      /\ live' = SyncFrom(TreeOf(tip), proc[p].tree)
      /\ proc' = [proc EXCEPT ![p] = Idle]
  BY DEF Publish
<1>2. /\ proc[p].base \in 1 .. Len(commits) /\ proc[p].tree \in Shape(proc[p].base + 1)
      /\ (JobOf[p] = "restamp" => Restamped(TreeOf(proc[p].base), proc[p].tree, proc[p].tagged))
      /\ proc[p].tagged \in BOOLEAN
  BY DEF IInv, PreparedOK, ProcType, RestampedFrom, Publish
<1>3. JobOf[p] \in {"owner", "restamp", "curate"}
  BY TreeAssumption
<1>4. Len(commits) \in Nat
  BY DEF IInv, CommitsType
<1>5. proc[p].tree \in Shape(Len(commits) + 1)
  BY <1>2, <1>4, ShapeGrows
<1>6. /\ CommitsType' /\ HistoryOK' /\ Len(commits') = Len(commits) + 1
      /\ \A c \in 1 .. Len(commits) : commits'[c] = commits[c]
  BY <1>1, <1>2, <1>3, <1>5, HistoryGrows
<1>7. ProcType' /\ PreparedOK'
  <2>1. HistoryKept
    BY <1>1, <1>4, <1>6 DEF HistoryKept
  <2> QED BY <1>1, <2>1, BecomesIdle
<1>8. LiveOK'
  <2>1. live \in Shape(Len(commits) + 2) /\ proc[p].tree \in Shape(Len(commits) + 2)
    BY <1>4, <1>5, ShapeGrows DEF IInv, LiveOK
  <2>2. Len(commits') + 1 = Len(commits) + 2
    BY <1>4, <1>6
  <2> QED BY <1>1, <2>1, <2>2 DEF LiveOK, SyncFrom
<1>9. PreviewIsPlan'
  BY ShortReport DEF Publish, Say
<1> QED BY <1>6, <1>7, <1>8, <1>9 DEF IInv

\* The owner's checkout is a tree of at most one version more than the branch.
LEMMA OwnerTree ==
    ASSUME IInv, NEW tree \in Shape(Len(commits) + 1), live' = tree,
           UNCHANGED <<commits, tip, vault, proc>>, report' = Nothing
    PROVE  IInv'
<1>1. CommitsType' /\ HistoryOK' /\ Len(commits') = Len(commits)
  BY HistoryStays
<1>2. ProcType'
  BY DEF IInv, ProcType
<1>3. PreparedOK'
  BY PlanStays DEF IInv, PreparedOK, RestampedFrom, TreeOf
<1>4. LiveOK' /\ PreviewIsPlan'
  BY <1>1 DEF LiveOK, PreviewIsPlan, Nothing
<1> QED BY <1>1, <1>2, <1>3, <1>4 DEF IInv

LEMMA OwnerDeclaresInv == ASSUME IInv, OwnerDeclares PROVE IInv'
<1>1. /\ UNCHANGED <<commits, tip, vault, proc>> /\ report' = Nothing
      /\ \E t \in Tags : live' = [live EXCEPT !.taxonomy.allowed = @ \cup {t}]
  BY DEF OwnerDeclares
<1>2. live \in Shape(Len(commits) + 1)
  BY DEF IInv, LiveOK
<1>3. \A t \in Tags : [live EXCEPT !.taxonomy.allowed = @ \cup {t}] \in Shape(Len(commits) + 1)
  BY <1>2 DEF Shape, TaxonomyType
<1> QED BY <1>1, <1>3, OwnerTree

LEMMA OwnerEditsInv == ASSUME IInv, NEW n \in Notes, OwnerEdits(n) PROVE IInv'
<1> DEFINE old == live.notes[n]
           note == [old EXCEPT !.body = 1 + @, !.sources = 1 + @]
           tree == [live EXCEPT !.notes = [live.notes EXCEPT ![n] = note]]
<1>1. /\ live = TreeOf(tip) /\ UNCHANGED <<commits, tip, vault, proc>> /\ report' = Nothing
      /\ live' = [live EXCEPT !.notes[n].body = 1 + @, !.notes[n].sources = 1 + @]
  BY DEF OwnerEdits
<1>2. tip \in 1 .. Len(commits) /\ live \in Shape(tip) /\ Len(commits) \in Nat
  BY <1>1 DEF IInv, HistoryOK, CommitsType
<1>3. old \in NoteOf(tip) /\ live.notes \in [Notes -> NoteOf(tip)]
  BY <1>2 DEF Shape
<1>4. \A v \in 0 .. tip : 1 + v \in 0 .. (tip + 1)
  BY <1>2
<1>5. note \in NoteOf(tip + 1)
  <2>1. old.mirror \in 0 .. (tip + 1)
    BY <1>2, <1>3 DEF NoteOf
  <2> HIDE DEF old
  <2> QED BY <1>3, <1>4, <2>1 DEF NoteOf
<1>6. NoteOf(tip) \subseteq NoteOf(tip + 1)
  BY <1>2, ShapeGrows
<1>7. live' = tree
  <2> DEFINE first == [old EXCEPT !.body = 1 + @]
             notes == [live.notes EXCEPT ![n] = first]
  <2>1. [live EXCEPT !.notes[n].body = 1 + @] = [live EXCEPT !.notes = notes]
    BY <1>2, <1>3 DEF Shape
  <2>2. first.sources = old.sources
    BY <1>3 DEF NoteOf
  <2>3. [notes EXCEPT ![n].sources = 1 + @] = [live.notes EXCEPT ![n] = note]
    <3>1. [first EXCEPT !.sources = 1 + @] = note
      BY <1>3 DEF NoteOf
    <3> HIDE DEF first, note
    <3> QED BY <1>3, <3>1
  <2>4. live' = [[live EXCEPT !.notes = notes] EXCEPT !.notes[n].sources = 1 + @]
    BY <1>1, <2>1
  <2> HIDE DEF notes, note, old
  <2> QED BY <1>2, <2>3, <2>4 DEF Shape
<1> HIDE DEF note
<1>8. tree \in Shape(tip + 1)
  <2>1. [live.notes EXCEPT ![n] = note] \in [Notes -> NoteOf(tip + 1)]
    BY <1>3, <1>5, <1>6
  <2> QED BY <1>2, <2>1 DEF Shape
<1>9. tree \in Shape(Len(commits) + 1)
  BY <1>2, <1>8, ShapeGrows
<1> HIDE DEF tree
<1>10. PICK t \in Shape(Len(commits) + 1) : t = tree
  BY <1>9
<1> QED BY <1>1, <1>7, <1>10, OwnerTree

LEMMA OwnerCommitsInv == ASSUME IInv, OwnerCommits PROVE IInv'
<1>1. /\ MayCommit /\ commits' = Committed(tip, live, "owner", FALSE)
      /\ tip' = Len(commits') /\ report' = Nothing /\ UNCHANGED <<live, vault, proc>>
  BY DEF OwnerCommits
<1>2. /\ live \in Shape(Len(commits) + 1) /\ tip \in 1 .. Len(commits)
      /\ Len(commits) \in Nat
  BY DEF IInv, LiveOK, HistoryOK, CommitsType
<1>3. /\ CommitsType' /\ HistoryOK' /\ Len(commits') = Len(commits) + 1
      /\ \A c \in 1 .. Len(commits) : commits'[c] = commits[c]
  BY <1>1, <1>2, HistoryGrows
<1>4. ProcType'
  BY <1>1 DEF IInv, ProcType
<1>5. PreparedOK'
  <2>1. ASSUME NEW p \in Procs, proc[p].stage = "locked"
        PROVE  /\ proc[p].base \in 1 .. Len(commits')
               /\ TreeOf(proc[p].base)' = TreeOf(proc[p].base)
    <3>1. proc[p].base \in 1 .. Len(commits) /\ proc'[p].base = proc[p].base
      BY <1>1, <2>1 DEF IInv, PreparedOK
    <3>2. commits'[proc[p].base] = commits[proc[p].base]
      BY <1>3, <3>1
    <3> QED BY <1>2, <1>3, <3>1, <3>2 DEF TreeOf
  <2> QED BY <1>1, <2>1, PlanStays DEF IInv, PreparedOK, RestampedFrom
<1>6. LiveOK'
  <2>1. live \in Shape(Len(commits) + 2) /\ Len(commits') + 1 = Len(commits) + 2
    BY <1>2, <1>3, ShapeGrows
  <2> QED BY <1>1, <2>1 DEF LiveOK
<1>7. PreviewIsPlan'
  BY <1>1, ShortReport DEF Nothing
<1> QED BY <1>3, <1>4, <1>5, <1>6, <1>7 DEF IInv

LEMMA StutterInv == ASSUME IInv, UNCHANGED vars PROVE IInv'
<1>1. UNCHANGED <<commits, tip, live, vault, proc, report>>
  BY DEF vars
<1>2. CommitsType' /\ HistoryOK' /\ Len(commits') = Len(commits)
  BY <1>1, HistoryStays
<1>3. ProcType' /\ LiveOK'
  BY <1>1 DEF IInv, ProcType, LiveOK
<1>4. PreparedOK'
  BY <1>1, PlanStays DEF IInv, PreparedOK, RestampedFrom, TreeOf
<1>5. PreviewIsPlan'
  <2>1. PICK t, g : t = TreeOf(tip) /\ g = report[2]
    OBVIOUS
  <2>2. TreeOf(tip)' = t /\ report'[2] = g
    BY <1>1, <2>1 DEF TreeOf
  <2>3. Plan(t, g)' = Plan(t, g)
    BY <1>1, PlanStays
  <2>4. Len(report) = 3 /\ report[1] = "preview" => report[3] = Plan(t, g)
    BY <2>1 DEF IInv, PreviewIsPlan
  <2> QED BY <1>1, <2>2, <2>3, <2>4 DEF PreviewIsPlan
<1> QED BY <1>2, <1>3, <1>4, <1>5 DEF IInv

LEMMA StepInv == ASSUME IInv, [Next]_vars PROVE IInv'
<1>1. ASSUME NEW p \in Procs,
             \/ Invoke(p) \/ Preview(p) \/ LockHeld(p) \/ Prepare(p)
             \/ \E n \in Notes : CurateBegin(p, n)
             \/ Publish(p) \/ Conflict(p) \/ Crash(p)
      PROVE  IInv'
  BY <1>1, InvokeInv, PreviewInv, LockHeldInv, PrepareInv, CurateBeginInv, PublishInv,
     ConflictInv, CrashInv
<1>2. ASSUME NEW n \in Notes, OwnerEdits(n) PROVE IInv'
  BY <1>2, OwnerEditsInv
<1> QED BY <1>1, <1>2, OwnerDeclaresInv, OwnerCommitsInv, StutterInv DEF Next
-----------------------------------------------------------------------------
(* What holds of every reachable state.                                    *)

\* The engine run of a restamp, and what it has prepared, in one invariant.
THEOREM Invariant == Spec => []IInv
<1> QED BY InitInv, StepInv, PTL DEF Spec

\* What a restamp commit may change, and what it must change together
\* (restamp.py plan_tree, gates_for_restamp): the mirror and the tags of curator
\* notes, tags with their declaration, and a taxonomy only as its policy allows.
THEOREM Confined == Spec => []RestampConfined
<1>1. ASSUME IInv PROVE RestampConfined
  <2>1. MaxCommits \in Nat /\ Len(commits) \in 1 .. MaxCommits
    BY <1>1, TreeAssumption DEF IInv, CommitsType
  <2>2. TypeOK
    <3>1. live \in Shape(MaxCommits + 1)
      BY <1>1, <2>1, ShapeGrows DEF IInv, LiveOK
    <3>2. \A c \in 1 .. Len(commits) : TreeOf(c) \in Shape(MaxCommits + 1)
      BY <1>1, <2>1, ShapeGrows DEF IInv, HistoryOK
    <3> QED BY <1>1, <3>1, <3>2
            DEF TypeOK, NoteType, Shape, TaxonomyType, IInv, HistoryOK
  <2>3. ASSUME NEW c \in 1 .. Len(commits), Restamps(c)
        PROVE  MayDiffer(Old(c), TreeOf(c))
    <3>1. /\ commits[c].parent \in 1 .. Len(commits)
          /\ Restamped(Old(c), TreeOf(c), commits[c].tagged)
      BY <1>1, <2>3 DEF IInv, HistoryOK, RestampedFrom
    <3>2. commits[c].parent \in Nat /\ Old(c) \in Shape(commits[c].parent)
      BY <1>1, <3>1 DEF IInv, HistoryOK, Old
    <3>3. commits[c].tagged \in BOOLEAN
      <4>1. commits[c] \in CommitType
        BY <1>1 DEF IInv, CommitsType
      <4> QED BY <4>1 DEF CommitType
    <3>4. PICK old, new, g : old = Old(c) /\ new = TreeOf(c) /\ g = commits[c].tagged
      OBVIOUS
    <3>5. PICK k \in Nat : old \in Shape(k)
      BY <3>2, <3>4
    <3>6. g \in BOOLEAN /\ Restamped(old, new, g)
      BY <3>1, <3>3, <3>4
    <3>7. MayDiffer(old, new)
      BY <3>5, <3>6, RestampChanges
    <3> QED BY <3>4, <3>7
  <2>4. OnlyFrontmatter
    BY <2>3 DEF OnlyFrontmatter, MayDiffer
  <2>5. TagsDeclared
    BY <2>3 DEF TagsDeclared, MayDiffer
  <2>6. ReviewedTaxonomyKept
    BY <2>3 DEF ReviewedTaxonomyKept, MayDiffer
  <2> QED BY <2>2, <2>4, <2>5, <2>6 DEF RestampConfined
<1> QED BY <1>1, Invariant, PTL

\* A restamp shows before it runs what it will do, and has nothing to do when it
\* runs again on what it published (restamp.py plan_tree, engine.py preview_engine
\* and run_engine).
THEOREM Repeats == Spec => []RestampRepeats
<1>1. ASSUME IInv PROVE RestampRepeats
  <2>1. ASSUME NEW c \in 1 .. Len(commits), Restamps(c)
        PROVE  ~Changed(TreeOf(c), Plan(TreeOf(c), commits[c].tagged))
    <3>1. /\ commits[c].parent \in 1 .. Len(commits)
          /\ Restamped(Old(c), TreeOf(c), commits[c].tagged)
      BY <1>1, <2>1 DEF IInv, HistoryOK, RestampedFrom
    <3>2. commits[c].parent \in Nat /\ Old(c) \in Shape(commits[c].parent)
      BY <1>1, <3>1 DEF IInv, HistoryOK, Old
    <3>3. commits[c].tagged \in BOOLEAN
      <4>1. commits[c] \in CommitType
        BY <1>1 DEF IInv, CommitsType
      <4> QED BY <4>1 DEF CommitType
    <3>4. PICK old, new : old = Old(c) /\ new = TreeOf(c)
      OBVIOUS
    <3>5. new = Result(old, Plan(old, commits[c].tagged))
      BY <3>1, <3>4 DEF Restamped
    <3> QED BY <3>2, <3>3, <3>4, <3>5, PlanIsRepeatable
  <2>2. RestampConverges
    BY <2>1 DEF RestampConverges
  <2> QED BY <1>1, <2>2 DEF RestampRepeats, IInv
<1> QED BY <1>1, Invariant, PTL

\* What another host, or the owner, put on the branch is never published away:
\* every commit of the branch builds on the one before it (the expected value of
\* the CAS of publish_commit is the base the worktree was taken from).
THEOREM CommitsAreKept == Spec => NoCommitLost
<1>1. ASSUME IInv, [Next]_vars PROVE tip' # tip => commits'[tip'].parent = tip
  <2>1. commits \in Seq(CommitType) /\ Len(commits) \in Nat
    BY <1>1 DEF IInv, CommitsType
  <2>2. \A c, tree, by, g : Committed(c, tree, by, g)[Len(Committed(c, tree, by, g))].parent = c
    BY <2>1 DEF Committed
  <2>3. ASSUME NEW p \in Procs, Publish(p) PROVE commits'[tip'].parent = tip
    BY <2>2, <2>3 DEF Publish
  <2>4. ASSUME OwnerCommits PROVE commits'[tip'].parent = tip
    <3>1. commits' = Committed(tip, live, "owner", FALSE) /\ tip' = Len(commits')
      BY <2>4 DEF OwnerCommits
    <3> QED BY <2>1, <3>1 DEF Committed
  <2>5. \/ \E p \in Procs : Publish(p)
        \/ OwnerCommits
        \/ tip' = tip
    BY <1>1 DEF Next, vars, Invoke, Preview, LockHeld, Prepare, CurateBegin, Conflict,
                Crash, OwnerDeclares, OwnerEdits
  <2> QED BY <2>3, <2>4, <2>5
<1> QED BY <1>1, Invariant, PTL DEF Spec, NoCommitLost
=============================================================================
