------------------------ MODULE ConsolidationProofs ------------------------
(***************************************************************************)
(* What a curator run keeps of the wiki, proved for any batches, any plan  *)
(* an untrusted brain may print, any edit of an untrusted author pass, and *)
(* persons who save notes while a run is in flight.                        *)
(***************************************************************************)
EXTENDS Consolidation, TLAPS

\* (The provers do not know that a literal is in STRING.)
Path == PathSet \X (STRING \cup {"index"})
EngineDirs == ConceptDirs \cup {"maps", "notes", "index"}
Content(plan) == {d \in plan : d.op \in ContentOps}
Asking(ds) == {d \in ds : Asks(d)}
NoteRecord(x) ==
    [stamped : BOOLEAN, subjects : {x.subjects}, sources : {x.sources},
     related : {x.related}, contested : BOOLEAN, by : {x.by}, at : {x.at},
     kids : {x.kids}, runId : {x.runId}, regions : {x.regions},
     twice : BOOLEAN, pending : BOOLEAN, text : {x.text}]
\* The note is a record of the fields the engine knows, with regions of n runs.
NoteOK(x, n) ==
    /\ x \in NoteRecord(x)
    /\ x.sources \in SUBSET Events /\ x.subjects \in SUBSET Domains
    /\ \A r \in DOMAIN x.regions : r[1] \in 1 .. n /\ x.regions[r] \in BOOLEAN
Dispositions ==
    [op : ContentOps \cup {"DROP"}, name : STRING, domain : Domains,
     links : SUBSET STRING, prose : BOOLEAN, label : SUBSET Events,
     events : SUBSET Events]
-----------------------------------------------------------------------------
(* Plans.                                                                  *)

\* The labels of a plan are candidates of its batch, or none; what it says is
\* of the types the gate asks for.
LEMMA PlanTypes ==
    ASSUME NEW batch \in SUBSET Events, NEW plan \in Plans(batch), TaxonomyOk(plan),
           NEW d \in plan
    PROVE  /\ d \in Dispositions
           /\ d.label = {} \/ d.label \in Candidates(batch)
<1>1. PICK f \in [Candidates(batch) -> Wishes \X (Candidates(batch) \cup {{}})] :
        plan = {[f[c][1] EXCEPT !.label = f[c][2], !.events = c] : c \in Candidates(batch)}
  BY DEF Plans
<1>2. PICK c \in Candidates(batch) : d = [f[c][1] EXCEPT !.label = f[c][2], !.events = c]
  BY <1>1
<1>3. f[c] \in Wishes \X (Candidates(batch) \cup {{}})
  BY <1>1
<1>4. PICK w \in Wishes, label \in Candidates(batch) \cup {{}} :
        d = [w EXCEPT !.label = label, !.events = c]
  BY <1>2, <1>3
<1>5. \A x \in Candidates(batch) : x \in SUBSET Events
  BY DEF Candidates
<1>6. w \in [op : {"CREATE_THEME", "APPEND_DAILY", "MERGE_INTO_THEME", "MARK_CONTESTED",
                   "DROP"},
             name : STRING, domain : STRING, links : SUBSET STRING, prose : BOOLEAN,
             label : {{}}, events : {{}}]
  BY PlanAssumption
<1>7. d.domain \in Domains
  BY DEF TaxonomyOk
<1>8. /\ d.op = w.op /\ d.name = w.name /\ d.domain = w.domain /\ d.links = w.links
      /\ d.prose = w.prose /\ d.label = label /\ d.events = c
      /\ d = [op |-> w.op, name |-> w.name, domain |-> w.domain, links |-> w.links,
              prose |-> w.prose, label |-> label, events |-> c]
  BY <1>4, <1>6
<1>9. w.op \in ContentOps \cup {"DROP"}
  BY <1>6 DEF ContentOps, BasenameOps, TargetOps
<1>10. label \in SUBSET Events /\ c \in SUBSET Events
  BY <1>5
<1> QED BY <1>6, <1>7, <1>8, <1>9, <1>10 DEF Dispositions

\* What the captures of a disposition are.
LEMMA ProvenanceIs ==
    ASSUME NEW batch \in SUBSET Events, NEW plan \in Plans(batch), TaxonomyOk(plan),
           NEW d \in plan
    PROVE  /\ Provenance(d, batch) = d.label
           /\ Provenance(d, batch) \in SUBSET Events
<1>1. d.label \in SUBSET Events /\ (d.label = {} \/ d.label \in Candidates(batch))
  BY PlanTypes DEF Dispositions
<1> QED BY <1>1 DEF Provenance
-----------------------------------------------------------------------------
(* What dispositions do to one note.                                       *)

LEMMA BlankOK ==
    ASSUME NEW n \in Nat
    PROVE  /\ NoteOK(Blank, n) /\ DOMAIN Blank.regions = {}
           /\ Blank.sources = {} /\ Blank.kids = {} /\ Blank.subjects = {}
           /\ ~Blank.stamped /\ ~Blank.twice /\ ~Blank.pending /\ ~Blank.contested
           /\ Blank.related = {} /\ Blank.by = {}
<1>1. DOMAIN Blank.regions = {}
  BY DEF Blank
<1> QED BY <1>1 DEF Blank, NoteOK, NoteRecord

\* The note new is x with the regions that ds ask for in run m.
Asked(new, x, ds, m) ==
    /\ NoteOK(new, m)
    /\ new.stamped = x.stamped /\ new.subjects = x.subjects
    /\ new.sources = x.sources /\ new.kids = x.kids
    /\ new.regions = [r \in DOMAIN new.regions |-> new.regions[r]]
    /\ DOMAIN x.regions \subseteq DOMAIN new.regions
    /\ \A r \in DOMAIN x.regions : new.regions[r] = x.regions[r]
    /\ \A d \in Asking(ds) : /\ Region(m, d) \in DOMAIN new.regions
                             /\ new.regions[Region(m, d)] = FALSE
    /\ Asking(ds) # {} => new.pending
    /\ Asking(ds) = {} => /\ new.pending = x.pending /\ new.twice = x.twice
                          /\ DOMAIN new.regions = DOMAIN x.regions

\* The regions of a run that starts are in no note yet, so all of them owe prose.
LEMMA RegionsAreAsked ==
    ASSUME NEW n \in Nat, NEW x, NoteOK(x, n), NEW ds, \A d \in ds : d.label \in SUBSET Events
    PROVE  Asked(WithRegions(x, ds, n + 1), x, ds, n + 1)
<1> DEFINE ids == {Region(n + 1, d) : d \in Asking(ds)}
           regs == [r \in DOMAIN x.regions \cup ids |->
                      IF r \in DOMAIN x.regions THEN x.regions[r] ELSE FALSE]
           pend == x.pending \/ Asking(ds) # {}
           two == x.twice \/ ids \cap DOMAIN x.regions # {}
                   \/ \E c, d \in Asking(ds) : c # d /\ c.label = d.label
           new == WithRegions(x, ds, n + 1)
<1>1. new = [x EXCEPT !.pending = pend, !.twice = two, !.regions = regs]
  BY DEF WithRegions, Asking
<1>2. \A d : Region(n + 1, d)[1] = n + 1
  BY DEF Region
<1>3. \A d \in Asking(ds) : Region(n + 1, d) \notin DOMAIN x.regions
  BY <1>2 DEF NoteOK
<1>4. /\ DOMAIN regs = DOMAIN x.regions \cup ids
      /\ \A r \in DOMAIN x.regions : regs[r] = x.regions[r]
      /\ \A d \in Asking(ds) : Region(n + 1, d) \in DOMAIN regs
                                /\ regs[Region(n + 1, d)] = FALSE
      /\ regs = [r \in DOMAIN regs |-> regs[r]]
      /\ Asking(ds) = {} => DOMAIN regs = DOMAIN x.regions
  BY <1>3
<1>5. \A r \in DOMAIN regs : r[1] \in 1 .. (n + 1) /\ regs[r] \in BOOLEAN
  <2> TAKE r \in DOMAIN regs
  <2>1. CASE r \in DOMAIN x.regions
    <3>1. r[1] \in 1 .. n /\ x.regions[r] \in BOOLEAN
      BY <2>1 DEF NoteOK
    <3>2. r[1] \in 1 .. (n + 1)
      BY <3>1
    <3> HIDE DEF regs
    <3> QED BY <1>4, <2>1, <3>1, <3>2
  <2>2. CASE r \notin DOMAIN x.regions
    <3>1. PICK d \in Asking(ds) : r = Region(n + 1, d)
      BY <1>4, <2>2
    <3>2. regs[r] = FALSE
      BY <1>4, <3>1
    <3>3. r[1] = n + 1 /\ n + 1 \in 1 .. (n + 1)
      BY <1>2, <3>1
    <3> HIDE DEF regs
    <3> QED BY <3>2, <3>3
  <2> QED BY <2>1, <2>2
<1>6. pend \in BOOLEAN /\ two \in BOOLEAN /\ x.pending \in BOOLEAN /\ x.twice \in BOOLEAN
  BY DEF NoteOK, NoteRecord
<1>7. /\ Asking(ds) # {} => pend = TRUE
      /\ Asking(ds) = {} => pend = x.pending /\ two = x.twice
  <2>1. Asking(ds) = {} => ~\E c, d \in Asking(ds) : c # d /\ c.label = d.label
    OBVIOUS
  <2>2. Asking(ds) = {} => ids = {}
    OBVIOUS
  <2>3. Asking(ds) = {} => (two <=> x.twice) /\ (pend <=> x.pending)
    BY <2>1, <2>2
  <2>4. Asking(ds) # {} => pend
    OBVIOUS
  <2> HIDE DEF pend, two
  <2> QED BY <1>6, <2>3, <2>4
<1> HIDE DEF regs, pend, two, new
<1>8. /\ new.stamped = x.stamped /\ new.subjects = x.subjects
      /\ new.sources = x.sources /\ new.kids = x.kids /\ new.pending = pend
      /\ new.twice = two /\ new.regions = regs /\ new \in NoteRecord(new)
  BY <1>1, <1>6 DEF NoteOK, NoteRecord
<1>9. NoteOK(new, n + 1)
  BY <1>5, <1>8 DEF NoteOK
<1>10. Asked(new, x, ds, n + 1)
  BY <1>4, <1>7, <1>8, <1>9 DEF Asked
<1> QED BY <1>10 DEF new

\* What dispositions make of a note: it is the engine's, it cites what it did and
\* their captures, and it owes prose where they ask for it.
Grown(new, old, ds, src, m) ==
    /\ NoteOK(new, m) /\ new.stamped /\ new.kids = old.kids
    /\ new.sources = old.sources \cup src
    /\ new.subjects # {}
    /\ new.regions = [r \in DOMAIN new.regions |-> new.regions[r]]
    /\ DOMAIN old.regions \subseteq DOMAIN new.regions
    /\ \A d \in Asking(ds) : /\ Region(m, d) \in DOMAIN new.regions
                             /\ new.regions[Region(m, d)] = FALSE
    /\ Asking(ds) # {} => new.pending
    /\ Asking(ds) = {} => /\ new.pending = old.pending /\ new.twice = old.twice
                          /\ DOMAIN new.regions = DOMAIN old.regions
    /\ \A r \in DOMAIN old.regions : new.regions[r] = old.regions[r]
\* The dispositions of one path: a new concept, a journal, or a target.
Creates(ds) == \A d \in ds : d.op = "CREATE_THEME"
Appends(ds) == \A d \in ds : d.op = "APPEND_DAILY"
Targets(ds) == \A d \in ds : d.op \in TargetOps

LEMMA WithRegionsGrown ==
    ASSUME NEW n \in Nat, NEW x, NoteOK(x, n), NEW old, NEW ds, NEW src,
           \A d \in ds : d.label \in SUBSET Events,
           x.stamped, x.kids = old.kids, x.sources = old.sources \cup src,
           x.subjects # {}, x.regions = old.regions, x.pending = old.pending,
           x.twice = old.twice
    PROVE  Grown(WithRegions(x, ds, n + 1), old, ds, src, n + 1)
<1> DEFINE new == WithRegions(x, ds, n + 1)
<1>1. Asked(new, x, ds, n + 1)
  BY RegionsAreAsked
<1> HIDE DEF new
<1>2. Grown(new, old, ds, src, n + 1)
  BY <1>1 DEF Grown, Asked
<1> QED BY <1>2 DEF new

LEMMA CreatedIs ==
    ASSUME NEW n \in Nat, NEW ds, ds # {}, NEW batch,
           \A d \in ds : d \in Dispositions, Sources(ds, batch) \in SUBSET Events
    PROVE  /\ Grown(CreatedNote(ds, n + 1, batch), Blank, ds, Sources(ds, batch), n + 1)
           /\ CreatedNote(ds, n + 1, batch).subjects = {d.domain : d \in ds}
<1> DEFINE src == Sources(ds, batch)
           subs == {d.domain : d \in ds}
           x == [Blank EXCEPT !.stamped = TRUE, !.subjects = subs, !.sources = src]
<1>1. subs # {} /\ subs \in SUBSET Domains /\ \A d \in ds : d.label \in SUBSET Events
  BY DEF Dispositions
<1> HIDE DEF subs, src
<1>2. src \in SUBSET Events
  BY DEF src
<1>3. /\ x.stamped = TRUE /\ x.subjects = subs /\ x.sources = src
      /\ x.kids = Blank.kids /\ x.regions = Blank.regions
      /\ x.pending = Blank.pending /\ x.twice = Blank.twice
  BY DEF Blank
<1>4. x \in NoteRecord(x)
  BY DEF Blank, NoteRecord
<1>5. NoteOK(x, n)
  <2>1. \A r \in DOMAIN x.regions : r[1] \in 1 .. n /\ x.regions[r] \in BOOLEAN
    BY <1>3, BlankOK
  <2> HIDE DEF x
  <2> QED BY <1>1, <1>2, <1>3, <1>4, <2>1 DEF NoteOK
<1>6. x.sources = Blank.sources \cup src
  BY <1>3, BlankOK
<1>7. CreatedNote(ds, n + 1, batch) = WithRegions(x, ds, n + 1)
  BY DEF CreatedNote, src, subs
<1> HIDE DEF x
<1>8. Grown(WithRegions(x, ds, n + 1), Blank, ds, src, n + 1)
  BY <1>1, <1>3, <1>5, <1>6, WithRegionsGrown
<1>9. Asked(WithRegions(x, ds, n + 1), x, ds, n + 1)
  BY <1>1, <1>5, RegionsAreAsked
<1>10. WithRegions(x, ds, n + 1).subjects = subs
  BY <1>3, <1>9 DEF Asked
<1> QED BY <1>7, <1>8, <1>10 DEF src, subs

LEMMA JournalIs ==
    ASSUME NEW n \in Nat, NEW old, NoteOK(old, n), NEW ds, ds # {}, NEW batch,
           \A d \in ds : d \in Dispositions, Sources(ds, batch) \in SUBSET Events
    PROVE  Grown(JournalNote(old, ds, n + 1, batch), old, ds, Sources(ds, batch), n + 1)
<1> DEFINE src == Sources(ds, batch)
           subs == {d.domain : d \in ds}
           x == [old EXCEPT !.stamped = TRUE, !.subjects = @ \cup subs,
                            !.runId = n + 1, !.sources = @ \cup src]
<1>1. subs # {} /\ subs \in SUBSET Domains /\ \A d \in ds : d.label \in SUBSET Events
  BY DEF Dispositions
<1> HIDE DEF subs, src
<1>2. src \in SUBSET Events
  BY DEF src
<1>3. /\ x.stamped = TRUE /\ x.kids = old.kids /\ x.sources = old.sources \cup src
      /\ x.subjects = old.subjects \cup subs /\ x.regions = old.regions
      /\ x.pending = old.pending /\ x.twice = old.twice /\ x \in NoteRecord(x)
  BY DEF NoteOK, NoteRecord
<1>4. JournalNote(old, ds, n + 1, batch) = WithRegions(x, ds, n + 1)
  BY DEF JournalNote, src, subs
<1> HIDE DEF x
<1>5. NoteOK(x, n)
  BY <1>1, <1>2, <1>3 DEF NoteOK
<1>6. /\ x.stamped /\ x.kids = old.kids /\ x.sources = old.sources \cup src
      /\ x.subjects # {} /\ x.regions = old.regions /\ x.pending = old.pending
      /\ x.twice = old.twice
  BY <1>1, <1>3
<1>7. Grown(WithRegions(x, ds, n + 1), old, ds, src, n + 1)
  BY <1>1, <1>5, <1>6, WithRegionsGrown
<1> QED BY <1>4, <1>7 DEF src

\* Merges and contests leave the subjects of a note that has some.
LEMMA TargetIs ==
    ASSUME NEW n \in Nat, NEW old, NoteOK(old, n), NEW ds, ds # {}, NEW batch, NEW date,
           \A d \in ds : d \in Dispositions, Sources(ds, batch) \in SUBSET Events,
           Targets(ds)
    PROVE  LET new == Rewritten(ds, old, n + 1, batch, date)
           IN  /\ Grown(new, old, ds, Sources(ds, batch), n + 1)
               /\ old.subjects # {} => new.subjects = old.subjects
<1> DEFINE src == Sources(ds, batch)
           subs == IF old.subjects = {} THEN {(CHOOSE d \in ds : TRUE).domain}
                                        ELSE old.subjects
           merges == {d \in ds : d.op = "MERGE_INTO_THEME"}
           links == UNION {d.links : d \in merges}
           c == Cite(old, ds, batch)
           x == [c EXCEPT !.related = @ \cup links]
           target == MergedNote(c, merges, n + 1)
           contests == {d \in ds : d.op = "MARK_CONTESTED"}
           new == Rewritten(ds, old, n + 1, batch, date)
<1>1. subs # {} /\ subs \in SUBSET Domains /\ \A d \in ds : d.label \in SUBSET Events
  BY DEF Dispositions, NoteOK
<1>2. Asking(ds) = Asking(merges)
  <2>1. \A d \in ds : Asks(d) => d.op = "MERGE_INTO_THEME"
    BY DEF Asks, RegionOps, ContentOps, BasenameOps, TargetOps, Targets
  <2> QED BY <2>1 DEF Asking
<1>3. new = IF contests = {} THEN target ELSE ContestedNote(target, contests, date)
  <2>1. /\ {d \in ds : d.op = "CREATE_THEME"} = {}
        /\ {d \in ds : d.op = "APPEND_DAILY"} = {}
    BY DEF Targets, TargetOps
  <2> QED BY <2>1 DEF Rewritten
<1>4. c = [old EXCEPT !.stamped = TRUE, !.sources = @ \cup src, !.subjects = subs]
  BY DEF Cite, NoteOK
<1>5. target = WithRegions(x, merges, n + 1)
  BY DEF MergedNote
<1>6. \A d \in merges : d.label \in SUBSET Events
  BY <1>1
<1> HIDE DEF subs, src, links, merges, contests, c, target, new
<1>7. src \in SUBSET Events
  BY DEF src
<1>8. /\ x.stamped = TRUE /\ x.kids = old.kids /\ x.sources = old.sources \cup src
      /\ x.subjects = subs /\ x.regions = old.regions
      /\ x.pending = old.pending /\ x.twice = old.twice /\ x \in NoteRecord(x)
  BY <1>4 DEF NoteOK, NoteRecord
<1> HIDE DEF x
<1>9. NoteOK(x, n)
  BY <1>1, <1>7, <1>8 DEF NoteOK
<1>10. /\ x.stamped /\ x.kids = old.kids /\ x.sources = old.sources \cup src
       /\ x.subjects # {} /\ x.regions = old.regions /\ x.pending = old.pending
       /\ x.twice = old.twice
  BY <1>1, <1>8
<1>11. Grown(target, old, merges, src, n + 1)
  BY <1>5, <1>6, <1>9, <1>10, WithRegionsGrown
<1>12. Grown(target, old, ds, src, n + 1)
  BY <1>2, <1>11 DEF Grown
<1>13. target.subjects = subs
  <2>1. Asked(target, x, merges, n + 1)
    BY <1>5, <1>6, <1>9, RegionsAreAsked
  <2> QED BY <1>8, <2>1 DEF Asked
<1>14. old.subjects # {} => subs = old.subjects
  BY DEF subs
<1>15. Grown(ContestedNote(target, contests, date), old, ds, src, n + 1)
       /\ ContestedNote(target, contests, date).subjects = target.subjects
  <2> DEFINE by == UNION {d.links : d \in contests}
             y == ContestedNote(target, contests, date)
  <2>1. y = [target EXCEPT !.contested = TRUE, !.by = @ \cup by, !.at = date]
    BY DEF ContestedNote
  <2> HIDE DEF by, y
  <2>2. NoteOK(target, n + 1)
    BY <1>12 DEF Grown
  <2>3. /\ y.stamped = target.stamped /\ y.subjects = target.subjects
        /\ y.sources = target.sources /\ y.kids = target.kids /\ y.twice = target.twice
        /\ y.pending = target.pending /\ y.regions = target.regions
        /\ y \in NoteRecord(y)
    BY <2>1, <2>2 DEF NoteOK, NoteRecord
  <2>4. NoteOK(y, n + 1)
    BY <2>2, <2>3 DEF NoteOK
  <2>6. Grown(y, old, ds, src, n + 1)
    BY <1>12, <2>3, <2>4 DEF Grown
  <2> QED BY <2>3, <2>6 DEF y
<1>16. Grown(new, old, ds, src, n + 1) /\ new.subjects = subs
  BY <1>3, <1>12, <1>13, <1>15
<1> QED BY <1>14, <1>16 DEF src, new
-----------------------------------------------------------------------------
(* Trees.                                                                  *)

PathsOf(plan, t, date) == {NotePath(d, t, date) : d \in Content(plan)}
At(plan, t, date, p) == {d \in Content(plan) : NotePath(d, t, date) = p}
OldAt(t, p) == IF p \in DOMAIN t THEN t[p] ELSE Blank
Fn(f) == f = [x \in DOMAIN f |-> f[x]]
TypedTree(t, n) == Fn(t) /\ \A p \in DOMAIN t : p \in Path /\ NoteOK(t[p], n)
\* A note of a person, with the name of a concept the engine wrote elsewhere.
Usurped(t, p) ==
    p \in DOMAIN t /\ ~t[p].stamped /\ \E q \in CuratorPaths(t) : q # p /\ q[2] = p[2]

\* Where the dispositions of a valid plan write.
LEMMA PathKinds ==
    ASSUME NEW batch \in SUBSET Events, NEW plan \in Plans(batch), NEW t, NEW date \in STRING,
           NEW n, TypedTree(t, n), ValidPlan(plan, batch, t, date), NEW d \in Content(plan),
           NEW p, p = NotePath(d, t, date)
    PROVE  /\ d.op = "CREATE_THEME" => p = <<"concepts", d.name>> /\ p \notin DOMAIN t
           /\ d.op = "APPEND_DAILY" => p = <<"notes", date>>
           /\ d.op \in TargetOps => /\ p \in DOMAIN t /\ p[1] \in ConceptDirs
                                    /\ t[p].stamped \/ Usurped(t, p)
           /\ d.op \in {"CREATE_THEME", "APPEND_DAILY"} \cup TargetOps
           /\ p \in Path
<1>1. d \in Dispositions
  BY PlanTypes DEF ValidPlan, Content
<1>2. d.op \in {"CREATE_THEME", "APPEND_DAILY"} \cup TargetOps /\ d.name \in STRING
  BY <1>1 DEF Content, ContentOps, BasenameOps, Dispositions
<1>3. CASE d.op = "CREATE_THEME"
  <2>1. p = <<"concepts", d.name>> /\ p[1] = "concepts" /\ p[2] = d.name
    BY <1>3 DEF NotePath
  <2>2. d.name \notin Names(t)
    BY <1>3 DEF ValidPlan, BasenameOk, Content
  <2>3. p \notin DOMAIN t
    BY <2>1, <2>2 DEF Names, IsPeople
  <2> QED BY <1>2, <1>3, <2>1, <2>3 DEF Path, PathSet, TargetOps
<1>4. CASE d.op = "APPEND_DAILY"
  BY <1>2, <1>4 DEF NotePath, Path, PathSet, TargetOps
<1>5. CASE d.op \in TargetOps
  <2>1. p = TargetPath(d.name, t)
    BY <1>5 DEF NotePath, TargetOps
  <2>2. d.name \in ThemeNames(t)
    BY <1>5 DEF ValidPlan, BasenameOk, Content
  <2>3. PICK q \in CuratorPaths(t) : q[1] \in ConceptDirs /\ q[2] = d.name
    BY <2>2 DEF ThemeNames
  <2>4. q \in DOMAIN t /\ t[q].stamped /\ q = <<q[1], q[2]>>
    BY <2>3 DEF CuratorPaths, TypedTree, Path
  <2>5. p \in DOMAIN t /\ p[1] \in ConceptDirs /\ p[2] = d.name
    BY <2>1, <2>3, <2>4 DEF TargetPath, ConceptDirs
  <2>6. t[p].stamped \/ Usurped(t, p)
    BY <2>3, <2>4, <2>5 DEF Usurped
  <2> QED BY <1>2, <1>5, <2>5, <2>6 DEF TypedTree, TargetOps
<1> QED BY <1>2, <1>3, <1>4, <1>5

\* The dispositions for one path are of one kind.
LEMMA OneKind ==
    ASSUME NEW batch \in SUBSET Events, NEW plan \in Plans(batch), NEW t, NEW date \in STRING,
           NEW n, TypedTree(t, n), ValidPlan(plan, batch, t, date), NEW p,
           NEW ds, ds = At(plan, t, date, p), ds # {}
    PROVE  /\ p \in Path /\ \A d \in ds : d \in Dispositions
           /\ \/ Creates(ds) /\ p[1] = "concepts" /\ p \notin DOMAIN t
              \/ Appends(ds) /\ p[1] = "notes"
              \/ Targets(ds) /\ p \in DOMAIN t /\ p[1] \in ConceptDirs
                 /\ (t[p].stamped \/ Usurped(t, p))
<1>1. \A d \in ds :
        /\ d.op = "CREATE_THEME" => p[1] = "concepts" /\ p \notin DOMAIN t
        /\ d.op = "APPEND_DAILY" => p[1] = "notes"
        /\ d.op \in TargetOps => /\ p \in DOMAIN t /\ p[1] \in ConceptDirs
                                 /\ t[p].stamped \/ Usurped(t, p)
        /\ d.op \in {"CREATE_THEME", "APPEND_DAILY"} \cup TargetOps
        /\ p \in Path
  <2> TAKE d \in ds
  <2>1. d \in Content(plan) /\ p = NotePath(d, t, date)
    BY DEF At
  <2>2. /\ d.op = "CREATE_THEME" => p = <<"concepts", d.name>> /\ p \notin DOMAIN t
        /\ d.op = "APPEND_DAILY" => p = <<"notes", date>>
        /\ d.op \in TargetOps => /\ p \in DOMAIN t /\ p[1] \in ConceptDirs
                                 /\ t[p].stamped \/ Usurped(t, p)
        /\ d.op \in {"CREATE_THEME", "APPEND_DAILY"} \cup TargetOps
        /\ p \in Path
    BY <2>1, PathKinds
  <2> QED BY <2>2
<1>2. \A d \in ds : d \in Dispositions
  BY PlanTypes DEF ValidPlan, Content, At
<1>3. "notes" \notin ConceptDirs /\ "concepts" # "notes"
  BY DEF ConceptDirs
<1>4. CASE \E d \in ds : d.op = "CREATE_THEME"
  BY <1>1, <1>2, <1>3, <1>4 DEF Creates
<1>5. CASE \E d \in ds : d.op = "APPEND_DAILY"
  BY <1>1, <1>2, <1>3, <1>5 DEF Appends
<1>6. CASE \A d \in ds : d.op \in TargetOps
  BY <1>1, <1>2, <1>6 DEF Targets
<1> QED BY <1>1, <1>4, <1>5, <1>6

\* What APPLY has made of the note at p, before the maps: m is the run's number.
Wrote(new, t, p, plan, ds, src, m) ==
    /\ p \in Path /\ Grown(new, OldAt(t, p), ds, src, m)
    /\ \/ /\ p[1] = "concepts" /\ p \notin DOMAIN t
          /\ new.subjects \subseteq NewSubjects(plan) /\ src \cap Gated = {}
       \/ p[1] = "notes" /\ src \cap Gated = {}
       \/ /\ p \in DOMAIN t /\ p[1] \in ConceptDirs
          /\ t[p].stamped \/ Usurped(t, p)
          /\ t[p].subjects # {} => new.subjects = t[p].subjects

\* The captures that a plan files for a new concept or in a journal are not gated.
LEMMA NewIsNotGated ==
    ASSUME NEW batch \in SUBSET Events, NEW plan \in Plans(batch), NEW t, NEW date,
           ValidPlan(plan, batch, t, date), NEW ds \in SUBSET plan,
           \A d \in ds : d.op \in {"CREATE_THEME", "APPEND_DAILY"}
    PROVE  Sources(ds, batch) \cap Gated = {}
<1>1. \A d \in ds : Provenance(d, batch) \cap Gated = {}
  <2> TAKE d \in ds
  <2>1. d.op \notin GateAllowedOps
    BY DEF GateAllowedOps, TargetOps
  <2>2. d.label \in Candidates(batch) => d.label \cap Gated = {}
    BY <2>1 DEF ValidPlan, CandidateGateOk, IsGated
  <2> QED BY <2>2 DEF Provenance
<1> QED BY <1>1 DEF Sources

LEMMA SourcesType ==
    ASSUME NEW batch \in SUBSET Events, NEW plan \in Plans(batch), TaxonomyOk(plan),
           NEW ds \in SUBSET plan
    PROVE  Sources(ds, batch) \in SUBSET Events
<1>1. \A d \in ds : Provenance(d, batch) \in SUBSET Events
  BY ProvenanceIs
<1> QED BY <1>1 DEF Sources

LEMMA NoteWritten ==
    ASSUME NEW batch \in SUBSET Events, NEW plan \in Plans(batch), NEW t, NEW date \in STRING,
           NEW n \in Nat, TypedTree(t, n), ValidPlan(plan, batch, t, date), NEW p,
           NEW ds, ds = At(plan, t, date, p), ds # {}
    PROVE  Wrote(Rewritten(ds, OldAt(t, p), n + 1, batch, date), t, p, plan, ds,
                 Sources(ds, batch), n + 1)
<1> DEFINE old == OldAt(t, p)
           src == Sources(ds, batch)
           new == Rewritten(ds, old, n + 1, batch, date)
<1>1. /\ p \in Path /\ \A d \in ds : d \in Dispositions
      /\ \/ Creates(ds) /\ p[1] = "concepts" /\ p \notin DOMAIN t
         \/ Appends(ds) /\ p[1] = "notes"
         \/ Targets(ds) /\ p \in DOMAIN t /\ p[1] \in ConceptDirs
            /\ (t[p].stamped \/ Usurped(t, p))
  BY OneKind
<1>2. ds \in SUBSET plan
  BY DEF At, Content
<1>3. src \in SUBSET Events
  BY <1>2, SourcesType DEF ValidPlan
<1>4. NoteOK(old, n)
  BY BlankOK DEF TypedTree, OldAt
<1>5. CASE Creates(ds) /\ p[1] = "concepts" /\ p \notin DOMAIN t
  <2>1. new = CreatedNote(ds, n + 1, batch)
    BY <1>5 DEF Rewritten, Creates
  <2>2. old = Blank
    BY <1>5 DEF OldAt
  <2>3. Grown(new, old, ds, src, n + 1) /\ new.subjects = {d.domain : d \in ds}
    BY <1>1, <1>3, <2>1, <2>2, CreatedIs
  <2>4. src \cap Gated = {}
    BY <1>2, <1>5, NewIsNotGated DEF Creates
  <2>5. {d.domain : d \in ds} \subseteq NewSubjects(plan)
    BY <1>2, <1>5 DEF Creates, NewSubjects
  <2> HIDE DEF new, old, src
  <2> QED BY <1>1, <1>5, <2>3, <2>4, <2>5 DEF Wrote, new, old, src
<1>6. CASE Appends(ds) /\ p[1] = "notes"
  <2>1. new = JournalNote(old, ds, n + 1, batch)
    BY <1>6 DEF Rewritten, Appends
  <2>2. Grown(new, old, ds, src, n + 1)
    BY <1>1, <1>3, <1>4, <2>1, JournalIs
  <2>3. src \cap Gated = {}
    BY <1>2, <1>6, NewIsNotGated DEF Appends
  <2> QED BY <1>1, <1>6, <2>2, <2>3 DEF Wrote
<1>7. CASE Targets(ds) /\ p \in DOMAIN t /\ p[1] \in ConceptDirs
           /\ (t[p].stamped \/ Usurped(t, p))
  <2>1. /\ Grown(new, old, ds, src, n + 1)
        /\ old.subjects # {} => new.subjects = old.subjects
    BY <1>1, <1>3, <1>4, <1>7, TargetIs
  <2>2. old = t[p]
    BY <1>7 DEF OldAt
  <2> QED BY <1>1, <1>7, <2>1, <2>2 DEF Wrote
<1> QED BY <1>1, <1>5, <1>6, <1>7

\* What Written writes, path by path.
WroteTree(w, plan, t, batch, date, m) ==
    /\ Fn(w) /\ DOMAIN w = DOMAIN t \cup PathsOf(plan, t, date)
    /\ \A p \in DOMAIN t \ PathsOf(plan, t, date) : w[p] = t[p]
    /\ \A p \in PathsOf(plan, t, date) :
         LET ds == At(plan, t, date, p)
         IN  ds # {} /\ Wrote(w[p], t, p, plan, ds, Sources(ds, batch), m)

LEMMA WrittenIs ==
    ASSUME NEW batch \in SUBSET Events, NEW plan \in Plans(batch), NEW t, NEW date \in STRING,
           NEW n \in Nat, TypedTree(t, n), ValidPlan(plan, batch, t, date)
    PROVE  WroteTree(Written(plan, t, n + 1, batch, date), plan, t, batch, date, n + 1)
<1> DEFINE w == Written(plan, t, n + 1, batch, date)
           paths == PathsOf(plan, t, date)
<1>1. w = [p \in DOMAIN t \cup paths |->
             IF p \in paths
             THEN Rewritten(At(plan, t, date, p), OldAt(t, p), n + 1, batch, date)
             ELSE t[p]]
  BY DEF Written, PathsOf, At, OldAt, Content
<1> HIDE DEF w
<1>2. Fn(w) /\ DOMAIN w = DOMAIN t \cup paths /\ \A p \in DOMAIN t \ paths : w[p] = t[p]
  BY <1>1 DEF Fn
<1>3. ASSUME NEW p \in paths
      PROVE  /\ At(plan, t, date, p) # {}
             /\ Wrote(w[p], t, p, plan, At(plan, t, date, p),
                      Sources(At(plan, t, date, p), batch), n + 1)
  <2>1. w[p] = Rewritten(At(plan, t, date, p), OldAt(t, p), n + 1, batch, date)
    BY <1>1
  <2>2. At(plan, t, date, p) # {}
    BY DEF At, PathsOf
  <2> QED BY <2>1, <2>2, NoteWritten
<1>4. WroteTree(w, plan, t, batch, date, n + 1)
  BY <1>2, <1>3 DEF WroteTree
<1> QED BY <1>4 DEF w

Listed(t, s) == {p[2] : p \in {q \in DOMAIN t : q[1] \in ConceptDirs /\ s \in t[q].subjects}}
MapNames(t) == {p[2] : p \in {q \in DOMAIN t : q[1] = "maps"}}
\* A map or the index, rewritten: only its stamp, subjects and list are new.
Remade(new, old, m) ==
    /\ NoteOK(new, m) /\ new.stamped /\ new.sources = old.sources
    /\ new.pending = old.pending /\ new.twice = old.twice /\ new.regions = old.regions

\* What Mapped writes, path by path.
MappedAt(a, p, w, subs, m) ==
    \/ /\ p \in DOMAIN w /\ a[p] = w[p]
       /\ p[1] = "maps" => p[2] \notin subs
       /\ p = Index => subs = {}
    \/ /\ p[1] = "maps" /\ p[2] \in subs /\ p \in Path
       /\ Remade(a[p], OldAt(w, p), m) /\ a[p].kids = Listed(w, p[2])
    \/ /\ p = Index /\ subs # {} /\ p \in Path
       /\ Remade(a[p], OldAt(w, p), m) /\ a[p].kids = MapNames(w) \cup subs
MappedTree(a, w, subs, m) ==
    /\ Fn(a) /\ DOMAIN w \subseteq DOMAIN a
    /\ \A p \in DOMAIN a : MappedAt(a, p, w, subs, m)
    /\ \A s \in subs : <<"maps", s>> \in DOMAIN a
    /\ subs # {} => Index \in DOMAIN a

LEMMA MapIs ==
    ASSUME NEW m \in Nat, NEW w, TypedTree(w, m), NEW s \in Domains
    PROVE  /\ Remade(MapOf(w, s), OldAt(w, <<"maps", s>>), m)
           /\ MapOf(w, s).kids = Listed(w, s)
<1> DEFINE old == OldAt(w, <<"maps", s>>)
           kids == Listed(w, s)
           new == MapOf(w, s)
<1>1. NoteOK(old, m)
  BY BlankOK DEF TypedTree, OldAt
<1>2. new = [old EXCEPT !.stamped = TRUE, !.subjects = @ \cup {s}, !.text = "own", !.kids = kids]
  BY DEF MapOf, OldAt, Listed
<1> HIDE DEF old, kids, new
<1>3. /\ new.stamped = TRUE /\ new.sources = old.sources /\ new.pending = old.pending
      /\ new.twice = old.twice /\ new.regions = old.regions /\ new.kids = kids
      /\ new.subjects = old.subjects \cup {s} /\ new \in NoteRecord(new)
  BY <1>1, <1>2 DEF NoteOK, NoteRecord
<1>4. NoteOK(new, m)
  BY <1>1, <1>3 DEF NoteOK
<1> QED BY <1>3, <1>4 DEF Remade, old, kids, new

IndexOf(w, kids) == [OldAt(w, Index) EXCEPT !.stamped = TRUE, !.kids = kids]
LEMMA IndexIs ==
    ASSUME NEW m \in Nat, NEW w, TypedTree(w, m), NEW kids
    PROVE  Remade(IndexOf(w, kids), OldAt(w, Index), m) /\ IndexOf(w, kids).kids = kids
<1> DEFINE old == OldAt(w, Index)
           new == IndexOf(w, kids)
<1>1. NoteOK(old, m)
  BY BlankOK DEF TypedTree, OldAt
<1>4. new = [old EXCEPT !.stamped = TRUE, !.kids = kids]
  BY DEF IndexOf
<1> HIDE DEF old, new
<1>2. /\ new.stamped = TRUE /\ new.sources = old.sources /\ new.pending = old.pending
      /\ new.twice = old.twice /\ new.regions = old.regions /\ new.kids = kids
      /\ new.subjects = old.subjects /\ new \in NoteRecord(new)
  BY <1>1, <1>4 DEF NoteOK, NoteRecord
<1>3. NoteOK(new, m)
  BY <1>1, <1>2 DEF NoteOK
<1> QED BY <1>2, <1>3 DEF Remade, old, new

LEMMA MappedIs ==
    ASSUME NEW m \in Nat, NEW w, TypedTree(w, m), NEW subs \in SUBSET Domains
    PROVE  MappedTree(Mapped(w, subs), w, subs, m)
<1> DEFINE a == Mapped(w, subs)
           maps == {<<"maps", s>> : s \in subs}
           all == MapNames(w) \cup subs
<1>1. CASE subs = {}
  <2>1. a = w
    BY <1>1 DEF Mapped
  <2> HIDE DEF a
  <2>2. MappedTree(a, w, subs, m)
    BY <1>1, <2>1 DEF MappedTree, MappedAt, TypedTree
  <2> QED BY <2>2 DEF a
<1>2. CASE subs # {}
  <2>1. a = [p \in DOMAIN w \cup maps \cup {Index} |->
               IF p \in maps THEN MapOf(w, p[2])
               ELSE IF p = Index THEN IndexOf(w, all)
               ELSE w[p]]
    BY <1>2 DEF Mapped, MapNames, IndexOf, OldAt
  <2> HIDE DEF a, all
  <2>2. /\ Fn(a) /\ DOMAIN a = DOMAIN w \cup maps \cup {Index}
    BY <2>1 DEF Fn
  <2>3. \A s \in subs : s \in STRING /\ s \in Domains
    BY PlanAssumption
  <2>4. Index \in Path /\ Index[1] = "index" /\ Index \notin maps
    <3>1. \A x \in maps : x[1] = "maps"
      OBVIOUS
    <3>2. Index[1] = "index" /\ Index[2] = "index"
      BY DEF Index
    <3>3. Index \in Path
      BY DEF Index, Path, PathSet
    <3> QED BY <3>1, <3>2, <3>3
  <2>5. ASSUME NEW p \in DOMAIN a
        PROVE  MappedAt(a, p, w, subs, m)
    <3>1. CASE p \in maps
      <4>1. PICK s \in subs : p = <<"maps", s>>
        BY <3>1
      <4>2. p[1] = "maps" /\ p[2] = s /\ p \in Path
        BY <4>1, <2>3 DEF Path, PathSet
      <4>3. a[p] = MapOf(w, s)
        BY <2>1, <2>2, <3>1, <4>2
      <4>4. Remade(a[p], OldAt(w, p), m) /\ a[p].kids = Listed(w, s)
        BY <2>3, <4>1, <4>3, MapIs
      <4> QED BY <4>2, <4>4 DEF MappedAt
    <3>2. CASE p = Index
      <4>1. a[p] = IndexOf(w, all)
        BY <2>1, <2>2, <2>4, <3>2
      <4>2. Remade(a[p], OldAt(w, Index), m) /\ a[p].kids = all
        BY <4>1, IndexIs
      <4> QED BY <1>2, <2>4, <3>2, <4>2 DEF MappedAt, all
    <3>3. CASE p \notin maps /\ p # Index
      <4>1. p \in DOMAIN w /\ a[p] = w[p]
        BY <2>1, <2>2, <3>3
      <4>2. p = <<p[1], p[2]>>
        BY <4>1 DEF TypedTree, Path
      <4>3. p[1] = "maps" => p[2] \notin subs
        BY <3>3, <4>2
      <4> QED BY <3>3, <4>1, <4>3 DEF MappedAt
    <3> QED BY <3>1, <3>2, <3>3
  <2>6. MappedTree(a, w, subs, m)
    BY <2>2, <2>5 DEF MappedTree
  <2> QED BY <2>6 DEF a
<1> QED BY <1>1, <1>2
-----------------------------------------------------------------------------
(* APPLY.                                                                  *)

FlagOK(x) == x.pending <=> Unauthored(x)
UngatedOK(x) == x.sources # {} => ~(x.sources \subseteq Gated)
\* What holds of every published tree.
OwnOK(t) ==
    \A p \in CuratorPaths(t) : /\ p[1] \in EngineDirs
                               /\ p[1] \in ConceptDirs => t[p].subjects # {}
Unique(t) == \A p, q \in CuratorPaths(t) : p[2] = q[2] => p = q
Linted(t, rw) ==
    \A p \in CuratorPaths(t) :
        /\ t[p].related \subseteq Names(t) /\ t[p].sources \subseteq DOMAIN rw /\ ~t[p].twice
        /\ t[p].contested => t[p].by # {} /\ Cardinality(t[p].sources) >= 2
        /\ p[1] \in ConceptDirs => t[p].sources # {}
NotesOK(t) == \A p \in DOMAIN t : FlagOK(t[p]) /\ UngatedOK(t[p])
MapsOK(t) ==
    \A p \in DOMAIN t : p[1] = "maps" /\ t[p].stamped => t[p].kids = Listed(t, p[2])
IndexOK(t) ==
    \A p \in CuratorPaths(t) : p[1] = "maps" => Index \in DOMAIN t /\ p[2] \in t[Index].kids
TreeInv(t, rw, n) ==
    /\ TypedTree(t, n) /\ OwnOK(t) /\ Unique(t) /\ Linted(t, rw) /\ NotesOK(t)
    /\ MapsOK(t) /\ IndexOK(t)

\* The note at p that APPLY leaves in tree a: as it was, written by dispositions,
\* or a map or the index.
AppliedAt(a, p, t, plan, batch, date, m) ==
    \/ p \in DOMAIN t /\ a[p] = t[p] /\ p \notin PathsOf(plan, t, date)
    \/ p \in PathsOf(plan, t, date)
       /\ Wrote(a[p], t, p, plan, At(plan, t, date, p), Sources(At(plan, t, date, p), batch), m)
    \/ p \notin PathsOf(plan, t, date) /\ p[1] \in {"maps", "index"} /\ p \in Path
       /\ Remade(a[p], OldAt(t, p), m)

LEMMA NoteGrows ==
    ASSUME NEW n \in Nat, NEW x, NoteOK(x, n)
    PROVE  NoteOK(x, n + 1)
<1>1. \A i \in 1 .. n : i \in 1 .. (n + 1)
  OBVIOUS
<1> QED BY <1>1 DEF NoteOK

LEMMA WroteTyped ==
    ASSUME NEW n \in Nat, NEW t, TypedTree(t, n), NEW w, NEW plan, NEW batch, NEW date,
           WroteTree(w, plan, t, batch, date, n + 1)
    PROVE  TypedTree(w, n + 1)
<1>1. ASSUME NEW p \in DOMAIN w PROVE p \in Path /\ NoteOK(w[p], n + 1)
  <2>1. CASE p \in PathsOf(plan, t, date)
    BY <2>1 DEF WroteTree, Wrote, Grown
  <2>2. CASE p \notin PathsOf(plan, t, date)
    <3>1. p \in DOMAIN t /\ w[p] = t[p]
      BY <2>2 DEF WroteTree
    <3>2. p \in Path /\ NoteOK(t[p], n)
      BY <3>1 DEF TypedTree
    <3> QED BY <3>1, <3>2, NoteGrows
  <2> QED BY <2>1, <2>2
<1> QED BY <1>1 DEF TypedTree, WroteTree

LEMMA ApplyIs ==
    ASSUME NEW n \in Nat, NEW t, TypedTree(t, n), NEW w, NEW plan, NEW batch, NEW date,
           WroteTree(w, plan, t, batch, date, n + 1), NEW a,
           MappedTree(a, w, NewSubjects(plan), n + 1), NEW p \in DOMAIN a
    PROVE  AppliedAt(a, p, t, plan, batch, date, n + 1)
<1>1. \A q \in PathsOf(plan, t, date) : q[1] \notin {"maps", "index"}
  BY DEF WroteTree, Wrote, ConceptDirs
<1>2. MappedAt(a, p, w, NewSubjects(plan), n + 1)
  BY DEF MappedTree
<1>3. CASE p \in DOMAIN w /\ a[p] = w[p]
  BY <1>3 DEF WroteTree, AppliedAt
<1>4. CASE p \in Path /\ p[1] \in {"maps", "index"} /\ Remade(a[p], OldAt(w, p), n + 1)
  <2>1. p \notin PathsOf(plan, t, date)
    BY <1>1, <1>4
  <2>2. OldAt(w, p) = OldAt(t, p)
    BY <2>1 DEF WroteTree, OldAt
  <2> QED BY <1>4, <2>1, <2>2 DEF AppliedAt
<1>5. Index[1] = "index"
  BY DEF Index
<1> QED BY <1>2, <1>3, <1>4, <1>5 DEF MappedAt

\* What the run keeps of APPLY: a is the tree it leaves, from t, for run number m.
Kept(a, t) ==
    /\ DOMAIN t \subseteq DOMAIN a /\ \A p \in DOMAIN t : t[p].sources \subseteq a[p].sources
    /\ \A p \in DOMAIN a :
         \/ p \in DOMAIN t /\ a[p] = t[p]
         \/ /\ a[p].stamped /\ p[1] \in EngineDirs
            /\ p \in DOMAIN t => \/ t[p].stamped \/ Usurped(t, p)
                                 \/ p[1] \in {"maps", "notes", "index"}
Filed(a, writes) == \A e \in writes : \E p \in DOMAIN a : e \in a[p].sources
\* No note that a person wrote under the name of a concept was written to.
Unusurped(a, t) == \A p \in DOMAIN t : Usurped(t, p) => ~a[p].stamped
Owing(a, asked) ==
    \A p \in DOMAIN asked :
        /\ p \in DOMAIN a /\ a[p].stamped /\ p[1] \in EngineDirs /\ a[p].pending
        /\ asked[p] # {} /\ Fn(a[p].regions)
        /\ \A r \in asked[p] : r \in DOMAIN a[p].regions /\ a[p].regions[r] = FALSE
AppliedOK(a, t, asked, writes, m) ==
    /\ TypedTree(a, m) /\ Kept(a, t) /\ Filed(a, writes) /\ Owing(a, asked)
    /\ OwnOK(a) /\ IndexOK(a) /\ (Unusurped(a, t) => NotesOK(a) /\ MapsOK(a))

\* A run n + 1 on tree t: w is what Written leaves, a what APPLY does.
Applying(a, w, t, rw, plan, batch, date, n) ==
    /\ n \in Nat /\ batch \in SUBSET Events /\ plan \in Plans(batch) /\ date \in STRING
    /\ TreeInv(t, rw, n) /\ ValidPlan(plan, batch, t, date)
    /\ WroteTree(w, plan, t, batch, date, n + 1)
    /\ MappedTree(a, w, NewSubjects(plan), n + 1)
    /\ \A p \in DOMAIN a : AppliedAt(a, p, t, plan, batch, date, n + 1)

LEMMA AppliedTyped ==
    ASSUME NEW a, NEW w, NEW t, NEW rw, NEW plan, NEW batch, NEW date, NEW n,
           Applying(a, w, t, rw, plan, batch, date, n)
    PROVE  TypedTree(a, n + 1) /\ DOMAIN t \subseteq DOMAIN a
<1>1. ASSUME NEW p \in DOMAIN a PROVE p \in Path /\ NoteOK(a[p], n + 1)
  <2>1. AppliedAt(a, p, t, plan, batch, date, n + 1)
    BY DEF Applying
  <2>2. CASE p \in DOMAIN t /\ a[p] = t[p]
    <3>1. n \in Nat /\ p \in Path /\ NoteOK(t[p], n)
      BY <2>2 DEF Applying, TreeInv, TypedTree
    <3> QED BY <2>2, <3>1, NoteGrows
  <2> QED BY <2>1, <2>2 DEF AppliedAt, Wrote, Grown, Remade
<1>2. DOMAIN t \subseteq DOMAIN a
  BY DEF Applying, WroteTree, MappedTree
<1> QED BY <1>1, <1>2 DEF TypedTree, Applying, MappedTree

LEMMA AppliedKept ==
    ASSUME NEW a, NEW w, NEW t, NEW rw, NEW plan, NEW batch, NEW date, NEW n,
           Applying(a, w, t, rw, plan, batch, date, n)
    PROVE  Kept(a, t)
<1>1. \A p \in DOMAIN a : AppliedAt(a, p, t, plan, batch, date, n + 1)
  BY DEF Applying
<1>2. DOMAIN t \subseteq DOMAIN a
  BY AppliedTyped
<1>3. ASSUME NEW p \in DOMAIN t PROVE t[p].sources \subseteq a[p].sources
  <2>1. AppliedAt(a, p, t, plan, batch, date, n + 1)
    BY <1>1, <1>2
  <2>2. OldAt(t, p) = t[p]
    BY DEF OldAt
  <2> QED BY <2>1, <2>2 DEF AppliedAt, Wrote, Grown, Remade
<1>4. ASSUME NEW p \in DOMAIN a
      PROVE  \/ p \in DOMAIN t /\ a[p] = t[p]
             \/ /\ a[p].stamped /\ p[1] \in EngineDirs
                /\ p \in DOMAIN t => \/ t[p].stamped \/ Usurped(t, p)
                                     \/ p[1] \in {"maps", "notes", "index"}
  <2>1. AppliedAt(a, p, t, plan, batch, date, n + 1)
    BY <1>1
  <2> QED BY <2>1 DEF AppliedAt, Wrote, Grown, Remade, EngineDirs, ConceptDirs
<1> QED BY <1>2, <1>3, <1>4 DEF Kept

LEMMA AppliedFiled ==
    ASSUME NEW a, NEW w, NEW t, NEW rw, NEW plan, NEW batch, NEW date, NEW n,
           Applying(a, w, t, rw, plan, batch, date, n)
    PROVE  Filed(a, RawWrites(plan, batch))
<1>1. SUFFICES ASSUME NEW d \in Content(plan), NEW e \in Provenance(d, batch)
               PROVE  \E p \in DOMAIN a : e \in a[p].sources
  BY DEF Filed, RawWrites, Content
<1> DEFINE p == NotePath(d, t, date)
<1>2. p \in PathsOf(plan, t, date) /\ d \in At(plan, t, date, p)
  BY DEF PathsOf, At
<1>3. e \in Sources(At(plan, t, date, p), batch)
  BY <1>2 DEF Sources
<1>4. p \in DOMAIN a
  BY <1>2 DEF Applying, WroteTree, MappedTree
<1>5. AppliedAt(a, p, t, plan, batch, date, n + 1)
  BY <1>4 DEF Applying
<1>6. e \in a[p].sources
  BY <1>2, <1>3, <1>5 DEF AppliedAt, Wrote, Grown
<1> QED BY <1>4, <1>6

LEMMA AppliedOwing ==
    ASSUME NEW a, NEW w, NEW t, NEW rw, NEW plan, NEW batch, NEW date, NEW n,
           Applying(a, w, t, rw, plan, batch, date, n)
    PROVE  Owing(a, AskedRegions(plan, t, n + 1, date))
<1> DEFINE asked == AskedRegions(plan, t, n + 1, date)
<1>1. \A d \in plan : Asks(d) => d \in Content(plan)
  BY DEF Asks, RegionOps, Content
<1>2. asked = [p \in {NotePath(d, t, date) : d \in {c \in plan : Asks(c)}} |->
                 {Region(n + 1, d) : d \in {c \in plan : Asks(c) /\ NotePath(c, t, date) = p}}]
  BY DEF AskedRegions
<1> HIDE DEF asked
<1>3. ASSUME NEW p \in DOMAIN asked
      PROVE  /\ p \in DOMAIN a /\ a[p].stamped /\ p[1] \in EngineDirs /\ a[p].pending
             /\ asked[p] # {} /\ Fn(a[p].regions)
             /\ \A r \in asked[p] : r \in DOMAIN a[p].regions /\ a[p].regions[r] = FALSE
  <2>1. PICK c \in plan : Asks(c) /\ p = NotePath(c, t, date)
    BY <1>2
  <2>2. p \in PathsOf(plan, t, date) /\ c \in Asking(At(plan, t, date, p))
    BY <1>1, <2>1 DEF PathsOf, At, Asking
  <2>3. asked[p] = {Region(n + 1, d) : d \in Asking(At(plan, t, date, p))}
    BY <1>1, <1>2 DEF At, Asking, Content
  <2>4. p \in DOMAIN a
    BY <2>2 DEF Applying, WroteTree, MappedTree
  <2>5. AppliedAt(a, p, t, plan, batch, date, n + 1)
    BY <2>4 DEF Applying
  <2>6. Wrote(a[p], t, p, plan, At(plan, t, date, p), Sources(At(plan, t, date, p), batch), n + 1)
    BY <2>2, <2>5 DEF AppliedAt
  <2>7. a[p].stamped /\ p[1] \in EngineDirs
    BY <2>6 DEF Wrote, Grown, EngineDirs, ConceptDirs
  <2>8. /\ a[p].pending /\ Fn(a[p].regions)
        /\ \A d \in Asking(At(plan, t, date, p)) :
             Region(n + 1, d) \in DOMAIN a[p].regions /\ a[p].regions[Region(n + 1, d)] = FALSE
    BY <2>2, <2>6 DEF Wrote, Grown, Fn
  <2> QED BY <2>2, <2>3, <2>4, <2>7, <2>8
<1> QED BY <1>3 DEF Owing, asked

LEMMA AppliedOwn ==
    ASSUME NEW a, NEW w, NEW t, NEW rw, NEW plan, NEW batch, NEW date, NEW n,
           Applying(a, w, t, rw, plan, batch, date, n)
    PROVE  OwnOK(a)
<1> SUFFICES ASSUME NEW p \in CuratorPaths(a)
             PROVE  p[1] \in EngineDirs /\ (p[1] \in ConceptDirs => a[p].subjects # {})
  BY DEF OwnOK
<1>1. p \in DOMAIN a /\ a[p].stamped
  BY DEF CuratorPaths
<1>2. AppliedAt(a, p, t, plan, batch, date, n + 1)
  BY <1>1 DEF Applying
<1>3. CASE p \in DOMAIN t /\ a[p] = t[p]
  BY <1>1, <1>3 DEF Applying, TreeInv, OwnOK, CuratorPaths
<1> QED BY <1>2, <1>3 DEF AppliedAt, Wrote, Grown, EngineDirs, ConceptDirs

\* A note that dispositions rewrote owes prose exactly if its flag says so.
LEMMA FlagGrows ==
    ASSUME NEW n \in Nat, NEW new, NEW old, NEW ds, NEW src,
           Grown(new, old, ds, src, n), FlagOK(old)
    PROVE  FlagOK(new)
<1>1. CASE Asking(ds) # {}
  <2>1. PICK d \in Asking(ds) : TRUE
    BY <1>1
  <2>2. Region(n, d) \in DOMAIN new.regions /\ new.regions[Region(n, d)] = FALSE /\ new.pending
    BY <1>1, <2>1 DEF Grown
  <2>3. Unauthored(new)
    BY <2>2 DEF Unauthored
  <2> QED BY <2>2, <2>3 DEF FlagOK
<1>2. CASE Asking(ds) = {}
  <2>1. /\ new.pending = old.pending /\ new.twice = old.twice
        /\ DOMAIN new.regions = DOMAIN old.regions
        /\ \A r \in DOMAIN old.regions : new.regions[r] = old.regions[r]
    BY <1>2 DEF Grown
  <2>2. Unauthored(new) <=> Unauthored(old)
    BY <2>1 DEF Unauthored
  <2> QED BY <2>1, <2>2 DEF FlagOK
<1> QED BY <1>1, <1>2

LEMMA AppliedNotes ==
    ASSUME NEW a, NEW w, NEW t, NEW rw, NEW plan, NEW batch, NEW date, NEW n,
           Applying(a, w, t, rw, plan, batch, date, n), Unusurped(a, t)
    PROVE  NotesOK(a)
<1> SUFFICES ASSUME NEW p \in DOMAIN a PROVE FlagOK(a[p]) /\ UngatedOK(a[p])
  BY DEF NotesOK
<1>1. AppliedAt(a, p, t, plan, batch, date, n + 1)
  BY DEF Applying
<1>2. FlagOK(OldAt(t, p)) /\ UngatedOK(OldAt(t, p))
  <2>1. CASE p \in DOMAIN t
    BY <2>1 DEF Applying, TreeInv, NotesOK, OldAt
  <2>2. CASE p \notin DOMAIN t
    <3>1. ~Unauthored(Blank)
      BY BlankOK DEF Unauthored
    <3> QED BY <2>2, <3>1, BlankOK DEF FlagOK, UngatedOK, OldAt
  <2> QED BY <2>1, <2>2
<1>3. CASE p \in DOMAIN t /\ a[p] = t[p]
  BY <1>2, <1>3 DEF OldAt
<1>4. CASE p[1] \in {"maps", "index"} /\ Remade(a[p], OldAt(t, p), n + 1)
  BY <1>2, <1>4 DEF Remade, FlagOK, UngatedOK, Unauthored
<1>5. CASE /\ p \in PathsOf(plan, t, date)
           /\ Wrote(a[p], t, p, plan, At(plan, t, date, p),
                    Sources(At(plan, t, date, p), batch), n + 1)
  <2> DEFINE ds == At(plan, t, date, p)
             src == Sources(ds, batch)
  <2>1. Grown(a[p], OldAt(t, p), ds, src, n + 1) /\ n + 1 \in Nat
    BY <1>5 DEF Wrote, Applying
  <2>2. FlagOK(a[p])
    BY <1>2, <2>1, FlagGrows
  <2>3. a[p].sources = OldAt(t, p).sources \cup src /\ a[p].stamped
    BY <2>1 DEF Grown
  <2>4. CASE src \cap Gated = {}
    BY <1>2, <2>2, <2>3, <2>4 DEF UngatedOK
  <2>5. CASE p \in DOMAIN t /\ p[1] \in ConceptDirs /\ (t[p].stamped \/ Usurped(t, p))
    <3>1. t[p].stamped
      BY <2>3, <2>5 DEF Unusurped
    <3>2. t[p].sources # {}
      BY <2>5, <3>1 DEF Applying, TreeInv, Linted, CuratorPaths
    <3> QED BY <1>2, <2>2, <2>3, <2>5, <3>2 DEF UngatedOK, OldAt
  <2> QED BY <1>5, <2>4, <2>5 DEF Wrote
<1> QED BY <1>1, <1>3, <1>4, <1>5 DEF AppliedAt

\* The concepts of a subject that a run does not open stay the same.
LEMMA SameListed ==
    ASSUME NEW a, NEW w, NEW t, NEW rw, NEW plan, NEW batch, NEW date, NEW n,
           Applying(a, w, t, rw, plan, batch, date, n), Unusurped(a, t), NEW s
    PROVE  /\ Listed(a, s) = Listed(w, s)
           /\ s \notin NewSubjects(plan) => Listed(w, s) = Listed(t, s)
<1>1. ASSUME NEW p, p[1] \in ConceptDirs
      PROVE  /\ p \in DOMAIN a <=> p \in DOMAIN w
             /\ p \in DOMAIN w => a[p] = w[p]
  <2>1. p[1] # "maps" /\ p # Index
    BY <1>1 DEF ConceptDirs, Index
  <2>2. p \in DOMAIN a => p \in DOMAIN w /\ a[p] = w[p]
    BY <2>1 DEF Applying, MappedTree, MappedAt
  <2>3. p \in DOMAIN w => p \in DOMAIN a
    BY DEF Applying, MappedTree
  <2> QED BY <2>2, <2>3
<1>2. Listed(a, s) = Listed(w, s)
  BY <1>1 DEF Listed
<1>3. ASSUME NEW p, p[1] \in ConceptDirs, s \notin NewSubjects(plan)
      PROVE  (p \in DOMAIN w /\ s \in w[p].subjects) <=> (p \in DOMAIN t /\ s \in t[p].subjects)
  <2>1. CASE p \notin PathsOf(plan, t, date)
    BY <2>1 DEF Applying, WroteTree
  <2>2. CASE p \in PathsOf(plan, t, date)
    <3>1. Wrote(w[p], t, p, plan, At(plan, t, date, p), Sources(At(plan, t, date, p), batch), n + 1)
      BY <2>2 DEF Applying, WroteTree
    <3>2. p \in DOMAIN w /\ w[p].stamped
      BY <2>2, <3>1 DEF Applying, WroteTree, Wrote, Grown
    <3>3. CASE p \notin DOMAIN t /\ w[p].subjects \subseteq NewSubjects(plan)
      BY <1>3, <3>3
    <3>4. CASE /\ p \in DOMAIN t /\ (t[p].stamped \/ Usurped(t, p))
               /\ t[p].subjects # {} => w[p].subjects = t[p].subjects
      <4>1. t[p].stamped
        BY <1>1, <1>3, <3>2, <3>4 DEF Unusurped
      <4>2. t[p].subjects # {}
        BY <1>3, <3>4, <4>1 DEF Applying, TreeInv, OwnOK, CuratorPaths
      <4> QED BY <3>2, <3>4, <4>2
    <3>5. p[1] # "notes"
      BY <1>3 DEF ConceptDirs
    <3> QED BY <3>1, <3>3, <3>4, <3>5 DEF Wrote
  <2> QED BY <2>1, <2>2
<1>4. s \notin NewSubjects(plan) => Listed(w, s) = Listed(t, s)
  BY <1>3 DEF Listed
<1> QED BY <1>2, <1>4

\* A map that was there before the run, or that it has opened.
LEMMA AppliedMap ==
    ASSUME NEW a, NEW w, NEW t, NEW rw, NEW plan, NEW batch, NEW date, NEW n,
           Applying(a, w, t, rw, plan, batch, date, n),
           NEW p \in DOMAIN a, p[1] \in {"maps", "index"}
    PROVE  \/ /\ p \in DOMAIN w /\ p \in DOMAIN t /\ a[p] = t[p]
              /\ p[1] = "maps" => p[2] \notin NewSubjects(plan)
              /\ p = Index => NewSubjects(plan) = {}
           \/ p[1] = "maps" /\ p[2] \in NewSubjects(plan) /\ a[p].kids = Listed(w, p[2])
           \/ p = Index /\ p[1] = "index" /\ a[p].kids = MapNames(w) \cup NewSubjects(plan)
<1>1. MappedAt(a, p, w, NewSubjects(plan), n + 1)
  BY DEF Applying, MappedTree
<1>2. p \notin PathsOf(plan, t, date)
  BY DEF Applying, WroteTree, Wrote, ConceptDirs
<1>3. p \in DOMAIN w => p \in DOMAIN t /\ w[p] = t[p]
  BY <1>2 DEF Applying, WroteTree
<1>4. Index[1] = "index"
  BY DEF Index
<1> QED BY <1>1, <1>3, <1>4 DEF MappedAt

LEMMA AppliedMaps ==
    ASSUME NEW a, NEW w, NEW t, NEW rw, NEW plan, NEW batch, NEW date, NEW n,
           Applying(a, w, t, rw, plan, batch, date, n), Unusurped(a, t)
    PROVE  MapsOK(a)
<1> SUFFICES ASSUME NEW p \in DOMAIN a, p[1] = "maps", a[p].stamped
             PROVE  a[p].kids = Listed(a, p[2])
  BY DEF MapsOK
<1>1. /\ Listed(a, p[2]) = Listed(w, p[2])
      /\ p[2] \notin NewSubjects(plan) => Listed(w, p[2]) = Listed(t, p[2])
  BY SameListed
<1>2. CASE p \in DOMAIN t /\ a[p] = t[p] /\ p[2] \notin NewSubjects(plan)
  <2>1. t[p].kids = Listed(t, p[2])
    BY <1>2 DEF Applying, TreeInv, MapsOK
  <2> QED BY <1>1, <1>2, <2>1
<1> QED BY <1>1, <1>2, AppliedMap

LEMMA AppliedIndex ==
    ASSUME NEW a, NEW w, NEW t, NEW rw, NEW plan, NEW batch, NEW date, NEW n,
           Applying(a, w, t, rw, plan, batch, date, n)
    PROVE  IndexOK(a)
<1> SUFFICES ASSUME NEW p \in CuratorPaths(a), p[1] = "maps"
             PROVE  Index \in DOMAIN a /\ p[2] \in a[Index].kids
  BY DEF IndexOK
<1>1. p \in DOMAIN a /\ a[p].stamped
  BY DEF CuratorPaths
<1>2. Index[1] = "index"
  BY DEF Index
<1>3. CASE p \in DOMAIN w /\ p \in DOMAIN t /\ a[p] = t[p]
  <2>1. Index \in DOMAIN t /\ p[2] \in t[Index].kids
    BY <1>1, <1>3 DEF Applying, TreeInv, IndexOK, CuratorPaths
  <2>2. Index \in DOMAIN a
    BY <2>1, AppliedTyped
  <2>3. p[2] \in MapNames(w)
    BY <1>3 DEF MapNames
  <2>4. a[Index] = t[Index] \/ a[Index].kids = MapNames(w) \cup NewSubjects(plan)
    BY <1>2, <2>2, AppliedMap
  <2> QED BY <2>1, <2>2, <2>3, <2>4
<1>4. CASE p[2] \in NewSubjects(plan)
  <2>1. Index \in DOMAIN a
    BY <1>4 DEF Applying, MappedTree
  <2>2. a[Index].kids = MapNames(w) \cup NewSubjects(plan)
    BY <1>2, <1>4, <2>1, AppliedMap
  <2> QED BY <1>4, <2>1, <2>2
<1> QED BY <1>1, <1>2, <1>3, <1>4, AppliedMap

LEMMA ApplyPlanIs ==
    ASSUME NEW n \in Nat, NEW batch \in SUBSET Events, NEW plan \in Plans(batch), NEW t, NEW rw,
           NEW date \in STRING, TreeInv(t, rw, n), ValidPlan(plan, batch, t, date)
    PROVE  AppliedOK(ApplyPlan(plan, t, n + 1, batch, date), t,
                     AskedRegions(plan, t, n + 1, date), RawWrites(plan, batch), n + 1)
<1> DEFINE w == Written(plan, t, n + 1, batch, date)
           a == Mapped(w, NewSubjects(plan))
<1>1. TypedTree(t, n) /\ TaxonomyOk(plan)
  BY DEF TreeInv, ValidPlan
<1>2. WroteTree(w, plan, t, batch, date, n + 1)
  BY <1>1, WrittenIs
<1> HIDE DEF w
<1>3. TypedTree(w, n + 1)
  BY <1>1, <1>2, WroteTyped
<1>4. NewSubjects(plan) \in SUBSET Domains
  BY <1>1 DEF NewSubjects, TaxonomyOk
<1>5. MappedTree(a, w, NewSubjects(plan), n + 1)
  <2>1. n + 1 \in Nat
    OBVIOUS
  <2> QED BY <1>3, <1>4, <2>1, MappedIs
<1> HIDE DEF a
<1>6. \A p \in DOMAIN a : AppliedAt(a, p, t, plan, batch, date, n + 1)
  BY <1>1, <1>2, <1>5, ApplyIs
<1>7. Applying(a, w, t, rw, plan, batch, date, n)
  BY <1>2, <1>5, <1>6 DEF Applying
<1>8. /\ TypedTree(a, n + 1) /\ Kept(a, t) /\ Filed(a, RawWrites(plan, batch))
      /\ Owing(a, AskedRegions(plan, t, n + 1, date)) /\ OwnOK(a) /\ IndexOK(a)
  BY <1>7, AppliedTyped, AppliedKept, AppliedFiled, AppliedOwing, AppliedOwn, AppliedIndex
<1>9. Unusurped(a, t) => NotesOK(a) /\ MapsOK(a)
  BY <1>7, AppliedNotes, AppliedMaps
<1>10. AppliedOK(a, t, AskedRegions(plan, t, n + 1, date), RawWrites(plan, batch), n + 1)
  BY <1>8, <1>9 DEF AppliedOK
<1>11. a = ApplyPlan(plan, t, n + 1, batch, date)
  BY DEF a, w, ApplyPlan
<1> QED BY <1>10, <1>11
-----------------------------------------------------------------------------
(* The AUTHOR pass.                                                        *)

LEMMA UnchangedNote ==
    ASSUME NEW n, NEW x, NoteOK(x, n)
    PROVE  [x EXCEPT !.regions = x.regions] = x /\ [x EXCEPT !.pending = x.pending] = x
  BY DEF NoteOK, NoteRecord

LEMMA SwapFields ==
    ASSUME NEW n, NEW x, NoteOK(x, n), NEW b \in BOOLEAN, NEW s
    PROVE  [[x EXCEPT !.pending = b] EXCEPT !.regions = s]
             = [[x EXCEPT !.regions = s] EXCEPT !.pending = b]
  BY DEF NoteOK, NoteRecord

LEMMA SameFields ==
    ASSUME NEW n, NEW x, NoteOK(x, n), NEW y, SameOutsideRegions(x, y)
    PROVE  /\ y.stamped = x.stamped /\ y.subjects = x.subjects /\ y.sources = x.sources
           /\ y.kids = x.kids /\ y.twice = x.twice /\ y.pending = x.pending
           /\ y \in NoteRecord(y)
  BY DEF NoteOK, NoteRecord, SameOutsideRegions

\* To reset prose that was not written changes nothing.
LEMMA ResetIsNothing ==
    ASSUME NEW n, NEW x, NoteOK(x, n), Fn(x.regions), x.pending, NEW own,
           \A r \in own : r \in DOMAIN x.regions /\ x.regions[r] = FALSE
    PROVE  ResetProse(x, own) = x
<1> DEFINE left == [r \in DOMAIN x.regions |-> x.regions[r] /\ r \notin own]
<1>1. ResetProse(x, own) = [x EXCEPT !.regions = left, !.pending = TRUE]
  BY DEF ResetProse
<1>2. \A r \in DOMAIN x.regions : (x.regions[r] /\ r \notin own) = x.regions[r]
  BY DEF NoteOK
<1>3. left = x.regions
  BY <1>2 DEF Fn
<1> HIDE DEF left
<1>4. x.pending = TRUE
  BY DEF NoteOK, NoteRecord
<1> QED BY <1>1, <1>3, <1>4 DEF NoteOK, NoteRecord

\* The note y is x but for prose and its flag, and the flag is right.
ProseOnly(x, y, m) ==
    /\ SameOutsideRegions([x EXCEPT !.pending = y.pending], y)
    /\ NoteOK(y, m) /\ FlagOK(y)
    /\ y.stamped = x.stamped /\ y.subjects = x.subjects /\ y.sources = x.sources
    /\ y.kids = x.kids
\* The worktree that the author pass has left of a tree a, graded.
AuthoredOK(wt, a, asked, degraded, m) ==
    /\ Fn(wt) /\ DOMAIN a \subseteq DOMAIN wt
    /\ \A p \in DOMAIN wt : AllowlistedPath(p) =>
         /\ p \in DOMAIN a
         /\ p \notin DOMAIN asked => wt[p] = a[p]
         /\ p \in DOMAIN asked => ProseOnly(a[p], wt[p], m)
         /\ degraded => wt[p] = a[p]
Booleans(t) == \A p \in DOMAIN t : \A r \in DOMAIN t[p].regions : t[p].regions[r] \in BOOLEAN

LEMMA SameIsProse ==
    ASSUME NEW m, NEW x, NoteOK(x, m), FlagOK(x)
    PROVE  ProseOnly(x, x, m)
<1>1. SameOutsideRegions(x, x) /\ [x EXCEPT !.pending = x.pending] = x
  BY UnchangedNote DEF SameOutsideRegions
<1> QED BY <1>1 DEF ProseOnly

\* A note whose regions were filled, its flag cleared if none is left.
LEMMA FilledIsProse ==
    ASSUME NEW m, NEW x, NoteOK(x, m), x.pending, NEW z, SameOutsideRegions(x, z),
           \A r \in DOMAIN z.regions : z.regions[r] \in BOOLEAN,
           NEW y, y = IF ~Unauthored(z) THEN [z EXCEPT !.pending = FALSE] ELSE z
    PROVE  ProseOnly(x, y, m)
<1>1. /\ z.stamped = x.stamped /\ z.subjects = x.subjects /\ z.sources = x.sources
      /\ z.kids = x.kids /\ z.twice = x.twice /\ z.pending = x.pending
      /\ z \in NoteRecord(z) /\ [x EXCEPT !.regions = z.regions] = z
      /\ DOMAIN z.regions = DOMAIN x.regions
  <2>1. [x EXCEPT !.regions = z.regions] = z /\ DOMAIN z.regions = DOMAIN x.regions
    BY DEF SameOutsideRegions
  <2>2. /\ z.stamped = x.stamped /\ z.subjects = x.subjects /\ z.sources = x.sources
        /\ z.kids = x.kids /\ z.twice = x.twice /\ z.pending = x.pending
        /\ z \in NoteRecord(z)
    BY SameFields
  <2> QED BY <2>1, <2>2
<1>2. NoteOK(z, m)
  BY <1>1 DEF NoteOK
<1>3. z.pending = TRUE
  BY <1>1, <1>2 DEF NoteOK, NoteRecord
<1>4. CASE Unauthored(z)
  <2>1. y = z /\ [x EXCEPT !.pending = z.pending] = x
    BY <1>1, <1>4, UnchangedNote
  <2> QED BY <1>1, <1>2, <1>3, <1>4, <2>1 DEF ProseOnly, FlagOK
<1>5. CASE ~Unauthored(z)
  <2>1. y = [z EXCEPT !.pending = FALSE]
    BY <1>5
  <2>2. /\ y.stamped = z.stamped /\ y.subjects = z.subjects /\ y.sources = z.sources
        /\ y.kids = z.kids /\ y.twice = z.twice /\ y.regions = z.regions
        /\ y.pending = FALSE /\ y \in NoteRecord(y)
    BY <1>2, <2>1 DEF NoteOK, NoteRecord
  <2>3. NoteOK(y, m)
    BY <1>2, <2>2 DEF NoteOK
  <2>4. ~Unauthored(y)
    BY <1>5, <2>2 DEF Unauthored
  <2>5. [[x EXCEPT !.pending = FALSE] EXCEPT !.regions = y.regions] = y
    BY <1>1, <2>1, <2>2, SwapFields
  <2>6. [x EXCEPT !.pending = FALSE].regions = x.regions
    BY DEF NoteOK, NoteRecord
  <2>7. SameOutsideRegions([x EXCEPT !.pending = y.pending], y)
    BY <1>1, <2>2, <2>5, <2>6 DEF SameOutsideRegions
  <2> QED BY <1>1, <2>2, <2>3, <2>4, <2>7 DEF ProseOnly, FlagOK
<1> QED BY <1>4, <1>5

LEMMA OwesProse ==
    ASSUME NEW a, NEW asked, Owing(a, asked), NEW p \in DOMAIN asked
    PROVE  Unauthored(a[p]) /\ FlagOK(a[p]) /\ AllowlistedPath(p)
<1>1. /\ a[p].pending /\ asked[p] # {} /\ p[1] \in EngineDirs
      /\ \A r \in asked[p] : r \in DOMAIN a[p].regions /\ a[p].regions[r] = FALSE
  BY DEF Owing
<1>2. PICK r \in asked[p] : TRUE
  BY <1>1
<1>3. Unauthored(a[p])
  BY <1>1, <1>2 DEF Unauthored
<1> QED BY <1>1, <1>3 DEF FlagOK, AllowlistedPath, EngineDirs, ConceptDirs

\* A pass that the author check lets through has written prose only.
LEMMA AcceptedPass ==
    ASSUME NEW m, NEW r, TypedTree(r.applied, m), Owing(r.applied, r.asked), Booleans(r.wt),
           ~AuthorRejected(r)
    PROVE  AuthoredOK(ClearBodyStatus(r.wt, r.asked), r.applied, r.asked, FALSE, m)
<1> DEFINE a == r.applied
           wt == r.wt
           asked == r.asked
           out == ClearBodyStatus(wt, asked)
<1>1. \A p \in DOMAIN a \cup DOMAIN wt :
        \/ p \in DOMAIN a /\ p \in DOMAIN wt /\ a[p] = wt[p]
        \/ p \in DOMAIN asked /\ p \in DOMAIN wt /\ SameOutsideRegions(a[p], wt[p])
  BY DEF AuthorRejected, Changed
<1>2. /\ \A p \in DOMAIN asked : p \in DOMAIN a /\ a[p].pending
      /\ \A p \in DOMAIN a : NoteOK(a[p], m)
  BY DEF Owing, TypedTree
<1>3. out = [p \in DOMAIN wt |-> IF p \in DOMAIN asked /\ ~Unauthored(wt[p])
                                 THEN [wt[p] EXCEPT !.pending = FALSE] ELSE wt[p]]
  BY DEF ClearBodyStatus
<1>4. \A p \in DOMAIN wt : \A x \in DOMAIN wt[p].regions : wt[p].regions[x] \in BOOLEAN
  BY DEF Booleans
<1>5. Owing(a, asked)
  OBVIOUS
<1> HIDE DEF a, wt, asked, out
<1>6. Fn(out) /\ DOMAIN out = DOMAIN wt /\ DOMAIN a \subseteq DOMAIN out
  BY <1>1, <1>3 DEF Fn
<1>7. ASSUME NEW p \in DOMAIN out
      PROVE  /\ p \in DOMAIN a
             /\ p \notin DOMAIN asked => out[p] = a[p]
             /\ p \in DOMAIN asked => ProseOnly(a[p], out[p], m)
  <2>1. p \in DOMAIN wt
    BY <1>6
  <2>2. CASE p \notin DOMAIN asked
    <3>1. p \in DOMAIN a /\ a[p] = wt[p]
      BY <1>1, <2>1, <2>2
    <3>2. out[p] = wt[p]
      BY <1>3, <2>1, <2>2
    <3> QED BY <2>2, <3>1, <3>2
  <2>3. CASE p \in DOMAIN asked
    <3>1. p \in DOMAIN a /\ a[p].pending /\ NoteOK(a[p], m)
      BY <1>2, <2>3
    <3>2. SameOutsideRegions(a[p], wt[p])
      <4>1. CASE a[p] = wt[p]
        BY <3>1, <4>1, UnchangedNote DEF SameOutsideRegions
      <4> QED BY <1>1, <2>1, <4>1
    <3>3. out[p] = IF ~Unauthored(wt[p]) THEN [wt[p] EXCEPT !.pending = FALSE] ELSE wt[p]
      BY <1>3, <2>1, <2>3
    <3>4. \A x \in DOMAIN wt[p].regions : wt[p].regions[x] \in BOOLEAN
      BY <1>4, <2>1
    <3>5. ProseOnly(a[p], out[p], m)
      BY <3>1, <3>2, <3>3, <3>4, FilledIsProse
    <3> QED BY <2>3, <3>1, <3>5
  <2> QED BY <2>2, <2>3
<1>8. AuthoredOK(out, a, asked, FALSE, m)
  BY <1>6, <1>7 DEF AuthoredOK
<1> QED BY <1>8 DEF out, a, asked, wt

\* A pass that is rejected leaves what APPLY wrote.
LEMMA RejectedPass ==
    ASSUME NEW m, NEW r, TypedTree(r.applied, m), Owing(r.applied, r.asked)
    PROVE  AuthoredOK(ClearBodyStatus(Degraded(r), r.asked), r.applied, r.asked, TRUE, m)
<1> DEFINE a == r.applied
           asked == r.asked
           kept == {p \in DOMAIN r.wt : ~AllowlistedPath(p)}
           d == Degraded(r)
           out == ClearBodyStatus(d, asked)
<1>1. \A p \in DOMAIN asked :
        /\ p \in DOMAIN a /\ a[p].pending /\ Fn(a[p].regions) /\ NoteOK(a[p], m)
        /\ \A x \in asked[p] : x \in DOMAIN a[p].regions /\ a[p].regions[x] = FALSE
  BY DEF Owing, TypedTree
<1>2. ASSUME NEW p \in DOMAIN asked PROVE ResetProse(a[p], asked[p]) = a[p]
  <2>1. /\ a[p].pending /\ Fn(a[p].regions) /\ NoteOK(a[p], m)
        /\ \A x \in asked[p] : x \in DOMAIN a[p].regions /\ a[p].regions[x] = FALSE
    BY <1>1
  <2> HIDE DEF a, asked
  <2> QED BY <2>1, ResetIsNothing
<1>3. /\ DOMAIN d = DOMAIN a \cup kept \cup DOMAIN asked
      /\ \A p \in DOMAIN d :
           d[p] = IF p \in DOMAIN asked THEN ResetProse(a[p], asked[p])
                  ELSE IF p \in kept THEN r.wt[p] ELSE a[p]
  BY DEF Degraded, Restored
<1>4. \A p \in DOMAIN asked : Unauthored(a[p]) /\ FlagOK(a[p])
  BY OwesProse
<1>5. out = [p \in DOMAIN d |-> IF p \in DOMAIN asked /\ ~Unauthored(d[p])
                                THEN [d[p] EXCEPT !.pending = FALSE] ELSE d[p]]
  BY DEF ClearBodyStatus
<1>6. \A p \in kept : ~AllowlistedPath(p)
  OBVIOUS
<1> HIDE DEF a, asked, d, out, kept
<1>7. Fn(out) /\ DOMAIN out = DOMAIN d /\ DOMAIN a \subseteq DOMAIN out
  BY <1>3, <1>5 DEF Fn
<1>8. ASSUME NEW p \in DOMAIN out, AllowlistedPath(p)
      PROVE  /\ p \in DOMAIN a /\ out[p] = a[p]
             /\ p \in DOMAIN asked => ProseOnly(a[p], out[p], m)
  <2>1. p \in DOMAIN a /\ d[p] = a[p]
    BY <1>1, <1>2, <1>3, <1>6, <1>7, <1>8
  <2>2. out[p] = a[p]
    BY <1>4, <1>5, <1>7, <2>1
  <2>3. p \in DOMAIN asked => ProseOnly(a[p], a[p], m)
    BY <1>1, <1>4, SameIsProse
  <2> QED BY <2>1, <2>2, <2>3
<1>9. AuthoredOK(out, a, asked, TRUE, m)
  BY <1>7, <1>8 DEF AuthoredOK
<1> QED BY <1>9 DEF out, a, asked, d

\* Whatever the pass does, regions are authored or not.
LEMMA RogueBooleans ==
    ASSUME NEW m, NEW a, TypedTree(a, m), NEW filled, NEW p \in DOMAIN a, NEW k
    PROVE  Booleans(RogueTree(Fill(a, filled), p, k))
<1> DEFINE t == Fill(a, filled)
           regs(q) == [r \in DOMAIN a[q].regions |-> a[q].regions[r] \/ <<q, r>> \in filled]
<1>1. /\ t = [q \in DOMAIN a |-> [a[q] EXCEPT !.regions = regs(q)]]
      /\ DOMAIN t = DOMAIN a
  BY DEF Fill
<1>2. ASSUME NEW q \in DOMAIN t
      PROVE  /\ t[q] \in NoteRecord(t[q])
             /\ \A r \in DOMAIN t[q].regions : t[q].regions[r] \in BOOLEAN
  <2>1. t[q] = [a[q] EXCEPT !.regions = regs(q)] /\ NoteOK(a[q], m)
    BY <1>1 DEF TypedTree
  <2>2. \A r \in DOMAIN regs(q) : regs(q)[r] \in BOOLEAN
    OBVIOUS
  <2> HIDE DEF regs, t
  <2>3. t[q] \in NoteRecord(t[q]) /\ t[q].regions = regs(q)
    BY <2>1 DEF NoteOK, NoteRecord
  <2> QED BY <2>2, <2>3
<1> HIDE DEF t
<1>3. Booleans(t)
  BY <1>2 DEF Booleans
<1>4. CASE k = "frontmatter"
  <2> DEFINE new == [t EXCEPT ![p].subjects = {}]
  <2>1. new = [t EXCEPT ![p] = [t[p] EXCEPT !.subjects = {}]]
    OBVIOUS
  <2>2. /\ DOMAIN new = DOMAIN t /\ \A q \in DOMAIN t \ {p} : new[q] = t[q]
        /\ new[p] = [t[p] EXCEPT !.subjects = {}]
    BY <1>1, <2>1
  <2> HIDE DEF new
  <2>3. new[p].regions = t[p].regions
    BY <1>1, <1>2, <2>2 DEF NoteRecord
  <2>4. \A r \in DOMAIN t[p].regions : t[p].regions[r] \in BOOLEAN
    BY <1>1, <1>2
  <2>5. \A r \in DOMAIN new[p].regions : new[p].regions[r] \in BOOLEAN
    BY <2>3, <2>4
  <2>6. Booleans(new)
    BY <1>1, <1>3, <2>2, <2>5 DEF Booleans
  <2> QED BY <1>4, <2>6 DEF RogueTree, t, new
<1>5. CASE k = "outside"
  <2> DEFINE new == [t EXCEPT ![p].text = "brain"]
  <2>1. new = [t EXCEPT ![p] = [t[p] EXCEPT !.text = "brain"]]
    OBVIOUS
  <2>2. /\ DOMAIN new = DOMAIN t /\ \A q \in DOMAIN t \ {p} : new[q] = t[q]
        /\ new[p] = [t[p] EXCEPT !.text = "brain"]
    BY <1>1, <2>1
  <2> HIDE DEF new
  <2>3. new[p].regions = t[p].regions
    BY <1>1, <1>2, <2>2 DEF NoteRecord
  <2>4. \A r \in DOMAIN t[p].regions : t[p].regions[r] \in BOOLEAN
    BY <1>1, <1>2
  <2>5. \A r \in DOMAIN new[p].regions : new[p].regions[r] \in BOOLEAN
    BY <2>3, <2>4
  <2>6. Booleans(new)
    BY <1>1, <1>3, <2>2, <2>5 DEF Booleans
  <2> QED BY <1>5, <2>6 DEF RogueTree, t, new
<1>6. CASE k = "delete"
  <2> DEFINE new == [q \in DOMAIN t \ {p} |-> t[q]]
  <2>1. Booleans(new)
    BY <1>3 DEF Booleans
  <2> QED BY <1>6, <2>1 DEF RogueTree, t
<1>7. CASE k = "heal"
  <2> DEFINE healed == [r \in DOMAIN t[p].regions |-> TRUE]
             new == [t EXCEPT ![p].regions = healed]
  <2>1. new = [t EXCEPT ![p] = [t[p] EXCEPT !.regions = healed]]
    OBVIOUS
  <2>2. /\ DOMAIN new = DOMAIN t /\ \A q \in DOMAIN t \ {p} : new[q] = t[q]
        /\ new[p] = [t[p] EXCEPT !.regions = healed]
    BY <1>1, <2>1
  <2>3. \A r \in DOMAIN healed : healed[r] \in BOOLEAN
    OBVIOUS
  <2>4. RogueTree(t, p, k) = new
    BY <1>7 DEF RogueTree
  <2> HIDE DEF new, healed
  <2>5. new[p].regions = healed
    BY <1>1, <1>2, <2>2 DEF NoteRecord
  <2>6. Booleans(new)
    BY <1>1, <1>3, <2>2, <2>3, <2>5 DEF Booleans
  <2> QED BY <2>4, <2>6 DEF t
<1>8. ASSUME NEW q, NEW s PROVE Booleans(Put(t, q, [Blank EXCEPT !.text = s]))
  <2> DEFINE x == [Blank EXCEPT !.text = s]
             new == Put(t, q, x)
  <2>1. DOMAIN x.regions = {}
    BY DEF Blank
  <2>2. DOMAIN new = DOMAIN t \cup {q} /\ \A y \in DOMAIN new : new[y] = IF y = q THEN x ELSE t[y]
    BY DEF Put
  <2> HIDE DEF x, new
  <2>3. Booleans(new)
    BY <1>3, <2>1, <2>2 DEF Booleans
  <2> QED BY <2>3 DEF new, x
<1>9. CASE k \notin {"frontmatter", "outside", "delete", "heal"}
  BY <1>3, <1>8, <1>9 DEF RogueTree, t
<1> QED BY <1>4, <1>5, <1>6, <1>7, <1>9
-----------------------------------------------------------------------------
(* The inductive invariant.                                                *)

VarsOK ==
    /\ DOMAIN raw \subseteq Events /\ day \in 1 .. Len(Dates) /\ ran \in 0 .. Len(Batches)
    /\ head \in Nat /\ last.status \in {"none", "failed", "published"}
RunRecord(r) ==
    [stage : {"applied", "authored"}, base : {r.base}, baseTree : {r.baseTree},
     plan : {r.plan}, batch : {r.batch}, applied : {r.applied}, wt : {r.wt},
     appliedRaw : {r.appliedRaw}, raw : {r.raw}, rawWrites : {r.rawWrites},
     asked : {r.asked}, log : {r.log}, degraded : BOOLEAN]
\* The tree a run started from is the branch's, but for notes saved since.
BaseOK(r) ==
    /\ r.base \in Nat /\ r.base <= head /\ (r.base = head => r.baseTree = tree)
    /\ TreeInv(r.baseTree, raw, ran)
    /\ \A p \in DOMAIN r.baseTree : p \in DOMAIN tree /\ tree[p] = r.baseTree[p]
RunOK(r) ==
    /\ r \in RunRecord(r) /\ r.log = log
    /\ r.rawWrites = RawWrites(r.plan, r.batch) /\ r.rawWrites \subseteq Events
    /\ DOMAIN r.raw = DOMAIN raw \cup r.rawWrites
    /\ AppliedOK(r.applied, r.baseTree, r.asked, r.rawWrites, ran)
    /\ r.stage = "applied" => r.wt = r.applied /\ ~r.degraded
    /\ r.stage = "authored" => AuthoredOK(r.wt, r.applied, r.asked, r.degraded, ran)
\* What a run that failed blamed and did not touch was there before.
LastOK ==
    last.blamed \cap last.touched = {} =>
        \A p \in last.blamed :
            \/ p = <<"notes", last.date>>
            \/ p \in DOMAIN tree /\ tree[p].contested /\ tree[p].at # last.date
IInv ==
    /\ VarsOK /\ TreeInv(tree, raw, ran) /\ CapturesStayCited /\ LastOK
    /\ run = NoRun \/ (RunOK(run) /\ BaseOK(run))

USE PlanAssumption
-----------------------------------------------------------------------------
(* The gates.                                                              *)

\* What the lint lets through: it looks at every note the engine ever wrote.
LEMMA LintClean ==
    ASSUME NEW t, NEW base, NEW rw, NEW date, NEW n, OwnOK(t),
           Blamed(t, base, rw, date, n) = {}
    PROVE  Unique(t) /\ Linted(t, rw)
<1> DEFINE scope == {p \in CuratorPaths(base) \cup Changed(base, t) :
                       p \in DOMAIN t /\ ~IsPeople(p) /\ p # Outside}
<1>1. ASSUME NEW p \in CuratorPaths(t) PROVE p \in scope
  <2>1. p \in DOMAIN t /\ t[p].stamped /\ p[1] \in EngineDirs
    BY DEF CuratorPaths, OwnOK
  <2>2. p[1] \notin {"people", "src"}
    BY <2>1 DEF EngineDirs, ConceptDirs
  <2>3. ~IsPeople(p) /\ p # Outside
    BY <2>2 DEF IsPeople, Outside
  <2>4. p \in Changed(base, t) \/ (p \in DOMAIN base /\ base[p] = t[p])
    BY <2>1 DEF Changed
  <2> QED BY <2>1, <2>3, <2>4 DEF CuratorPaths
<1>2. Blamed(t, base, rw, date, n) =
        DuplicateBasename(t, scope) \cup BrokenLink(t, scope) \cup Unsourced(t, scope)
          \cup MissingSource(t, scope, rw) \cup ContestedShape(t, scope, date)
          \cup JournalShape(t, scope, date, n) \cup SentinelShape(t, scope)
  BY DEF Blamed
<1> HIDE DEF scope
<1>3. /\ DuplicateBasename(t, scope) = {} /\ BrokenLink(t, scope) = {}
      /\ Unsourced(t, scope) = {} /\ MissingSource(t, scope, rw) = {}
      /\ ContestedShape(t, scope, date) = {} /\ SentinelShape(t, scope) = {}
  BY <1>2
<1>4. Unique(t)
  BY <1>1, <1>3 DEF Unique, DuplicateBasename
<1>5. ASSUME NEW p \in CuratorPaths(t)
      PROVE  /\ t[p].related \subseteq Names(t) /\ t[p].sources \subseteq DOMAIN rw /\ ~t[p].twice
             /\ t[p].contested => t[p].by # {} /\ Cardinality(t[p].sources) >= 2
             /\ p[1] \in ConceptDirs => t[p].sources # {}
  <2>1. p \in scope /\ t[p].stamped
    BY <1>1 DEF CuratorPaths
  <2> QED BY <1>3, <2>1 DEF BrokenLink, Unsourced, MissingSource, ContestedShape, SentinelShape
<1> QED BY <1>4, <1>5 DEF Linted

\* The tree a run would publish, against APPLY's.
FinalOK(wt, a, asked, degraded, m) ==
    /\ Fn(wt) /\ DOMAIN wt = DOMAIN a
    /\ \A p \in DOMAIN wt : /\ p \notin DOMAIN asked => wt[p] = a[p]
                            /\ p \in DOMAIN asked => ProseOnly(a[p], wt[p], m)
                            /\ degraded => wt[p] = a[p]

\* The final-diff gate closes what the allowlist does not know.
LEMMA GateCloses ==
    ASSUME NEW wt, NEW a, NEW t, NEW asked, NEW degraded, NEW m, Kept(a, t), Owing(a, asked),
           AuthoredOK(wt, a, asked, degraded, m),
           \A p \in Changed(t, wt) : AllowlistedPath(p)
    PROVE  FinalOK(wt, a, asked, degraded, m)
<1>1. ASSUME NEW p \in DOMAIN wt
      PROVE  /\ p \in DOMAIN a
             /\ p \notin DOMAIN asked => wt[p] = a[p]
             /\ p \in DOMAIN asked => ProseOnly(a[p], wt[p], m)
             /\ degraded => wt[p] = a[p]
  <2>1. CASE AllowlistedPath(p)
    BY <2>1 DEF AuthoredOK
  <2>2. CASE ~AllowlistedPath(p)
    <3>1. p \in DOMAIN t /\ wt[p] = t[p]
      BY <2>2 DEF Changed
    <3>2. p[1] \notin EngineDirs
      BY <2>2 DEF AllowlistedPath, EngineDirs, ConceptDirs
    <3>3. p \in DOMAIN a /\ a[p] = t[p]
      BY <3>1, <3>2 DEF Kept
    <3>4. p \notin DOMAIN asked
      BY <3>2 DEF Owing
    <3> QED BY <3>1, <3>3, <3>4
  <2> QED BY <2>1, <2>2
<1> QED BY <1>1 DEF FinalOK, AuthoredOK

LEMMA FinalFields ==
    ASSUME NEW wt, NEW a, NEW asked, NEW degraded, NEW m,
           FinalOK(wt, a, asked, degraded, m), NEW p \in DOMAIN wt
    PROVE  /\ p \in DOMAIN a /\ wt[p].stamped = a[p].stamped /\ wt[p].subjects = a[p].subjects
           /\ wt[p].sources = a[p].sources /\ wt[p].kids = a[p].kids
           /\ wt[p] = a[p] \/ (NoteOK(wt[p], m) /\ FlagOK(wt[p]))
  BY DEF FinalOK, ProseOnly

\* What both gates let through is a tree that later runs may start from.
LEMMA PublishedTree ==
    ASSUME NEW wt, NEW a, NEW t, NEW rw, NEW asked, NEW writes, NEW degraded, NEW m, NEW date,
           AppliedOK(a, t, asked, writes, m), FinalOK(wt, a, asked, degraded, m),
           Blamed(wt, t, rw, date, m) = {}
    PROVE  TreeInv(wt, rw, m) /\ Unusurped(a, t)
<1>1. DOMAIN wt = DOMAIN a /\ Fn(wt)
  BY DEF FinalOK
<1>2. \A p \in DOMAIN wt :
        /\ p \in DOMAIN a /\ wt[p].stamped = a[p].stamped /\ wt[p].subjects = a[p].subjects
        /\ wt[p].sources = a[p].sources /\ wt[p].kids = a[p].kids
        /\ wt[p] = a[p] \/ (NoteOK(wt[p], m) /\ FlagOK(wt[p]))
  BY FinalFields
<1>3. TypedTree(wt, m)
  BY <1>1, <1>2 DEF AppliedOK, TypedTree
<1>4. CuratorPaths(wt) = CuratorPaths(a)
  BY <1>1, <1>2 DEF CuratorPaths
<1>5. OwnOK(wt)
  BY <1>2, <1>4 DEF AppliedOK, OwnOK, CuratorPaths
<1>6. Unique(wt) /\ Linted(wt, rw)
  BY <1>5, LintClean
<1>7. Unusurped(a, t)
  <2> SUFFICES ASSUME NEW p \in DOMAIN t, Usurped(t, p), a[p].stamped PROVE FALSE
    BY DEF Unusurped
  <2>1. PICK q \in CuratorPaths(t) : q # p /\ q[2] = p[2]
    BY DEF Usurped
  <2>2. p \in DOMAIN a /\ q \in DOMAIN a
    BY <2>1 DEF AppliedOK, Kept, CuratorPaths
  <2>3. a[q].stamped
    BY <2>1, <2>2 DEF AppliedOK, Kept, CuratorPaths
  <2>4. p \in CuratorPaths(wt) /\ q \in CuratorPaths(wt)
    BY <1>4, <2>2, <2>3 DEF CuratorPaths
  <2> QED BY <1>6, <2>1, <2>4 DEF Unique
<1>8. NotesOK(a) /\ MapsOK(a) /\ IndexOK(a)
  BY <1>7 DEF AppliedOK
<1>9. NotesOK(wt)
  BY <1>1, <1>2, <1>8 DEF NotesOK, UngatedOK
<1>10. \A s : Listed(wt, s) = Listed(a, s)
  BY <1>1, <1>2 DEF Listed
<1>11. MapsOK(wt)
  BY <1>1, <1>2, <1>8, <1>10 DEF MapsOK
<1>12. IndexOK(wt)
  BY <1>1, <1>2, <1>4, <1>8 DEF IndexOK
<1> QED BY <1>3, <1>5, <1>6, <1>7, <1>9, <1>11, <1>12 DEF TreeInv
-----------------------------------------------------------------------------
(* The steps.                                                              *)

LEMMA IInvInit == Init => IInv
<1> SUFFICES ASSUME Init PROVE IInv
  OBVIOUS
<1>1. /\ DOMAIN tree = {} /\ DOMAIN raw = {} /\ named = {} /\ ran = 0 /\ day = 1 /\ head = 0
      /\ run = NoRun /\ last.blamed = {} /\ last.status = "none"
  <2>1. named = {} /\ ran = 0 /\ day = 1 /\ head = 0 /\ run = NoRun
    BY DEF Init
  <2>2. <<>> \in [1 .. 0 -> {}]
    OBVIOUS
  <2>3. DOMAIN tree = {} /\ DOMAIN raw = {}
    BY <2>2 DEF Init
  <2>4. last.blamed = {} /\ last.status = "none"
    BY DEF Init
  <2> QED BY <2>1, <2>2, <2>3, <2>4
<1>2. CuratorPaths(tree) = {}
  BY <1>1 DEF CuratorPaths
<1>3. Fn(tree)
  <2>1. <<>> \in [1 .. 0 -> {}]
    OBVIOUS
  <2>2. \A f \in [1 .. 0 -> {}] : f = [x \in DOMAIN f |-> f[x]]
    OBVIOUS
  <2> QED BY <2>1, <2>2 DEF Init, Fn
<1>4. Len(Dates) \in Nat \ {0} /\ Len(Batches) \in Nat
  OBVIOUS
<1>5. VarsOK
  BY <1>1, <1>4 DEF VarsOK
<1>6. TreeInv(tree, raw, ran)
  BY <1>1, <1>2, <1>3 DEF TreeInv, TypedTree, OwnOK, Unique, Linted, NotesOK, MapsOK, IndexOK
<1>7. CapturesStayCited
  BY <1>1 DEF CapturesStayCited, NamedCapturesStayCited, RawIsTheCapture
<1>8. LastOK
  BY <1>1 DEF LastOK
<1> QED BY <1>1, <1>5, <1>6, <1>7, <1>8 DEF IInv

\* A tree that is published stays well formed when the next run is numbered.
LEMMA TreeLater ==
    ASSUME NEW n \in Nat, NEW t, NEW rw, TreeInv(t, rw, n)
    PROVE  TreeInv(t, rw, n + 1)
<1>1. \A p \in DOMAIN t : NoteOK(t[p], n + 1)
  BY NoteGrows DEF TreeInv, TypedTree
<1> QED BY <1>1 DEF TreeInv, TypedTree

\* The facts about a run that starts.
LEMMA StartedRun ==
    ASSUME IInv, Idle, ran < Len(Batches), ran' = ran + 1,
           UNCHANGED <<tree, raw, log, head, day, named>>,
           NEW plan \in Plans(Batches[ran + 1]),
           ValidPlan(plan, Batches[ran + 1], tree, Dates[day]),
           run' = [stage |-> "applied", base |-> head, baseTree |-> tree,
                   plan |-> plan, batch |-> Batches[ran + 1],
                   applied |-> ApplyPlan(plan, tree, ran + 1, Batches[ran + 1], Dates[day]),
                   wt |-> ApplyPlan(plan, tree, ran + 1, Batches[ran + 1], Dates[day]),
                   appliedRaw |-> Materialized(raw, RawWrites(plan, Batches[ran + 1])),
                   raw |-> Materialized(raw, RawWrites(plan, Batches[ran + 1])),
                   rawWrites |-> RawWrites(plan, Batches[ran + 1]),
                   asked |-> AskedRegions(plan, tree, ran + 1, Dates[day]),
                   log |-> log, degraded |-> FALSE]
    PROVE  RunOK(run)' /\ BaseOK(run)'
<1> DEFINE batch == Batches[ran + 1]
           date == Dates[day]
           applied == ApplyPlan(plan, tree, ran + 1, batch, date)
           writes == RawWrites(plan, batch)
           kept == Materialized(raw, writes)
           asked == AskedRegions(plan, tree, ran + 1, date)
<1>1. ran \in Nat /\ head \in Nat /\ batch \in SUBSET Events /\ date \in STRING
  BY DEF IInv, VarsOK
<1>2. TreeInv(tree, raw, ran) /\ TaxonomyOk(plan)
  BY DEF IInv, ValidPlan
<1>3. AppliedOK(applied, tree, asked, writes, ran + 1)
  BY <1>1, <1>2, ApplyPlanIs
<1>4. writes \subseteq Events
  <2>1. \A d \in plan : Provenance(d, batch) \in SUBSET Events
    BY <1>1, <1>2, ProvenanceIs
  <2> QED BY <2>1 DEF RawWrites
<1>5. DOMAIN kept = DOMAIN raw \cup writes
  BY DEF Materialized
<1>6. TreeInv(tree, raw, ran + 1)
  BY <1>1, <1>2, TreeLater
<1>7. writes = RawWrites(plan, batch)
  OBVIOUS
<1>8. run' = [stage |-> "applied", base |-> head, baseTree |-> tree, plan |-> plan,
              batch |-> batch, applied |-> applied, wt |-> applied, appliedRaw |-> kept,
              raw |-> kept, rawWrites |-> writes, asked |-> asked, log |-> log,
              degraded |-> FALSE]
  OBVIOUS
<1> HIDE DEF batch, date, applied, writes, kept, asked
<1>9. /\ run'.stage = "applied" /\ run'.base = head /\ run'.baseTree = tree
      /\ run'.plan = plan /\ run'.batch = batch /\ run'.applied = applied
      /\ run'.wt = applied /\ run'.raw = kept /\ run'.rawWrites = writes
      /\ run'.asked = asked /\ run'.log = log /\ run'.degraded = FALSE
      /\ run' \in RunRecord(run')
  BY <1>8 DEF RunRecord
<1>10. RunOK(run)'
  BY <1>3, <1>4, <1>5, <1>7, <1>9 DEF RunOK
<1>11. BaseOK(run)'
  BY <1>1, <1>6, <1>9 DEF BaseOK
<1> QED BY <1>10, <1>11

LEMMA RunKinds ==
    ASSUME IInv
    PROVE  /\ run.stage = "none" => run = NoRun
           /\ run.stage # "none" => RunOK(run) /\ BaseOK(run) /\ run # NoRun
           /\ run # NoRun => run.stage \in {"applied", "authored"}
<1>1. NoRun.stage = "none"
  BY DEF NoRun
<1>2. RunOK(run) => run.stage \in {"applied", "authored"}
  BY DEF RunOK, RunRecord
<1> QED BY <1>1, <1>2 DEF IInv

\* The worktree, the raw store and the log, as the pass left them, and graded.
Rogued(r, wt, rw, l) == [r EXCEPT !.wt = wt, !.raw = rw, !.log = l]
GradedAs(r, wt, l, b) ==
    [r EXCEPT !.stage = "authored", !.wt = wt, !.log = l, !.degraded = b]
SameRun(new, r) ==
    /\ new \in RunRecord(new) /\ new.base = r.base /\ new.baseTree = r.baseTree
    /\ new.plan = r.plan /\ new.batch = r.batch /\ new.applied = r.applied
    /\ new.appliedRaw = r.appliedRaw /\ new.rawWrites = r.rawWrites /\ new.asked = r.asked
WithFields(new, stage, wt, rw, l, b) ==
    /\ new.stage = stage /\ new.wt = wt /\ new.raw = rw /\ new.log = l /\ new.degraded = b

LEMMA RogueFields ==
    ASSUME NEW r, r \in RunRecord(r), NEW wt, NEW rw, NEW l
    PROVE  /\ SameRun(Rogued(r, wt, rw, l), r)
           /\ WithFields(Rogued(r, wt, rw, l), r.stage, wt, rw, l, r.degraded)
  BY DEF RunRecord, Rogued, SameRun, WithFields

LEMMA GradedFields ==
    ASSUME NEW r, r \in RunRecord(r), NEW wt, NEW l, NEW b \in BOOLEAN
    PROVE  /\ SameRun(GradedAs(r, wt, l, b), r)
           /\ WithFields(GradedAs(r, wt, l, b), "authored", wt, r.raw, l, b)
  BY DEF RunRecord, GradedAs, SameRun, WithFields

\* What the two outcomes of the author check leave of the run.
LEMMA GradedIs ==
    ASSUME NEW r, r \in RunRecord(r), r.degraded = FALSE, NEW asked, asked = r.asked
    PROVE  /\ [[r EXCEPT !.wt = Degraded(r), !.log = log, !.degraded = TRUE]
                  EXCEPT !.stage = "authored", !.wt = ClearBodyStatus(@, asked)]
                = GradedAs(r, ClearBodyStatus(Degraded(r), asked), log, TRUE)
           /\ [r EXCEPT !.stage = "authored", !.wt = ClearBodyStatus(@, asked)]
                = GradedAs(r, ClearBodyStatus(r.wt, asked), r.log, FALSE)
<1> DEFINE d == Degraded(r)
           c1 == ClearBodyStatus(d, asked)
           c2 == ClearBodyStatus(r.wt, asked)
<1>1. [r EXCEPT !.wt = d, !.log = log, !.degraded = TRUE].wt = d
  BY DEF RunRecord
<1>2. [[r EXCEPT !.wt = d, !.log = log, !.degraded = TRUE]
         EXCEPT !.stage = "authored", !.wt = ClearBodyStatus(@, asked)]
      = [[r EXCEPT !.wt = d, !.log = log, !.degraded = TRUE]
           EXCEPT !.stage = "authored", !.wt = c1]
  BY <1>1
<1>3. [r EXCEPT !.stage = "authored", !.wt = ClearBodyStatus(@, asked)]
      = [r EXCEPT !.stage = "authored", !.wt = c2]
  OBVIOUS
<1> HIDE DEF d, c1, c2
<1>4. [[r EXCEPT !.wt = d, !.log = log, !.degraded = TRUE]
           EXCEPT !.stage = "authored", !.wt = c1] = GradedAs(r, c1, log, TRUE)
  BY DEF RunRecord, GradedAs
<1>5. [r EXCEPT !.stage = "authored", !.wt = c2] = GradedAs(r, c2, r.log, FALSE)
  BY DEF RunRecord, GradedAs
<1> QED BY <1>2, <1>3, <1>4, <1>5 DEF d, c1, c2

LEMMA AuthorStep ==
    ASSUME IInv, Author
    PROVE  RunOK(run)' /\ BaseOK(run)'
<1>1. /\ run.stage = "applied" /\ UNCHANGED <<tree, raw, log, head, day, ran, last, named>>
      /\ RunOK(run) /\ BaseOK(run)
  BY RunKinds DEF Author
<1>2. PICK filled \in SUBSET UNION {{q} \X run.asked[q] : q \in DOMAIN run.asked},
          k \in Rogue, p \in DOMAIN run.wt :
        LET wt == RogueTree(Fill(run.applied, filled), p, k)
            r == [run EXCEPT !.wt = wt, !.raw = RogueRaw(@, k), !.log = RogueLog(@, k)]
            graded == IF AuthorRejected(r)
                      THEN [r EXCEPT !.wt = Degraded(r), !.log = log, !.degraded = TRUE]
                      ELSE r
        IN run' = [graded EXCEPT !.stage = "authored", !.wt = ClearBodyStatus(@, run.asked)]
  BY DEF Author
<1> DEFINE wt == RogueTree(Fill(run.applied, filled), p, k)
           rw == RogueRaw(run.raw, k)
           l == RogueLog(run.log, k)
           r == Rogued(run, wt, rw, l)
<1>3. run' = IF AuthorRejected(r)
             THEN [[r EXCEPT !.wt = Degraded(r), !.log = log, !.degraded = TRUE]
                     EXCEPT !.stage = "authored", !.wt = ClearBodyStatus(@, run.asked)]
             ELSE [r EXCEPT !.stage = "authored", !.wt = ClearBodyStatus(@, run.asked)]
  BY <1>2 DEF Rogued
<1>4. run \in RunRecord(run) /\ run.wt = run.applied /\ run.degraded = FALSE
  BY <1>1 DEF RunOK, RunRecord
<1>5. Booleans(wt)
  <2>1. TypedTree(run.applied, ran) /\ p \in DOMAIN run.applied
    BY <1>1, <1>4 DEF RunOK, AppliedOK
  <2> QED BY <2>1, RogueBooleans
<1>6. DOMAIN rw = DOMAIN run.raw
  BY DEF RogueRaw
<1> HIDE DEF wt, rw, l
<1>7. SameRun(r, run) /\ WithFields(r, run.stage, wt, rw, l, run.degraded)
  BY <1>4, RogueFields
<1> HIDE DEF r
<1>8. /\ r \in RunRecord(r) /\ r.wt = wt /\ r.raw = rw /\ r.degraded = FALSE
      /\ r.applied = run.applied /\ r.asked = run.asked
  BY <1>4, <1>7 DEF SameRun, WithFields
<1>9. TypedTree(r.applied, ran) /\ Owing(r.applied, r.asked) /\ Booleans(r.wt)
  BY <1>1, <1>5, <1>8 DEF RunOK, AppliedOK
<1>10. ASSUME NEW out, NEW b \in BOOLEAN, run' = GradedAs(r, out, log, b),
              AuthoredOK(out, r.applied, r.asked, b, ran)
       PROVE  RunOK(run)' /\ BaseOK(run)'
  <2>1. SameRun(run', r) /\ WithFields(run', "authored", out, r.raw, log, b)
    BY <1>8, <1>10, GradedFields
  <2>2. SameRun(run', run) /\ WithFields(run', "authored", out, rw, log, b)
    BY <1>7, <1>8, <2>1 DEF SameRun
  <2>3. RunOK(run)'
    BY <1>1, <1>6, <1>8, <1>10, <2>2 DEF RunOK, SameRun, WithFields
  <2>4. BaseOK(run)'
    BY <1>1, <2>2 DEF BaseOK, SameRun
  <2> QED BY <2>3, <2>4
<1>11. CASE AuthorRejected(r)
  <2>1. run' = GradedAs(r, ClearBodyStatus(Degraded(r), r.asked), log, TRUE)
    BY <1>3, <1>8, <1>11, GradedIs
  <2>2. AuthoredOK(ClearBodyStatus(Degraded(r), r.asked), r.applied, r.asked, TRUE, ran)
    BY <1>9, RejectedPass
  <2> QED BY <1>10, <2>1, <2>2
<1>12. CASE ~AuthorRejected(r)
  <2>1. run' = GradedAs(r, ClearBodyStatus(r.wt, r.asked), r.log, FALSE)
    BY <1>3, <1>8, <1>12, GradedIs
  <2>2. r.log = log
    BY <1>12 DEF AuthorRejected
  <2>3. AuthoredOK(ClearBodyStatus(r.wt, r.asked), r.applied, r.asked, FALSE, ran)
    BY <1>9, <1>12, AcceptedPass
  <2> QED BY <1>10, <2>1, <2>2, <2>3
<1> QED BY <1>11, <1>12

LEMMA WorktreeGraded ==
    ASSUME IInv, Publish
    PROVE  /\ RunOK(run) /\ BaseOK(run) /\ run # NoRun
           /\ AuthoredOK(run.wt, run.applied, run.asked, run.degraded, ran)
<1>1. RunOK(run) /\ BaseOK(run) /\ run # NoRun
  BY RunKinds DEF Publish
<1>2. CASE run.stage = "authored"
  BY <1>1, <1>2 DEF RunOK
<1>3. CASE run.stage = "applied" /\ DOMAIN run.asked = {}
  <2>1. run.wt = run.applied /\ Fn(run.applied) /\ ~run.degraded
    BY <1>1, <1>3 DEF RunOK, AppliedOK, TypedTree
  <2> QED BY <1>1, <1>3, <2>1 DEF AuthoredOK
<1> QED BY <1>1, <1>2, <1>3 DEF Publish

\* What a run blames without having touched it was clean when it was published,
\* but for the rules that depend on the day.
LEMMA OldBlame ==
    ASSUME NEW wt, NEW base, NEW rw, NEW rw0, NEW date, NEW n, NEW m,
           TreeInv(base, rw0, m), DOMAIN base \subseteq DOMAIN wt,
           DOMAIN rw0 \subseteq DOMAIN rw,
           Blamed(wt, base, rw, date, n) \cap Changed(base, wt) = {},
           NEW p \in Blamed(wt, base, rw, date, n)
    PROVE  \/ p = <<"notes", date>>
           \/ p \in DOMAIN base /\ base[p].contested /\ base[p].at # date
<1> DEFINE blamed == Blamed(wt, base, rw, date, n)
           scope == {q \in CuratorPaths(base) \cup Changed(base, wt) :
                       q \in DOMAIN wt /\ ~IsPeople(q) /\ q # Outside}
<1>1. blamed = DuplicateBasename(wt, scope) \cup BrokenLink(wt, scope) \cup Unsourced(wt, scope)
                 \cup MissingSource(wt, scope, rw) \cup ContestedShape(wt, scope, date)
                 \cup JournalShape(wt, scope, date, n) \cup SentinelShape(wt, scope)
  BY DEF Blamed
<1>2. \A q \in blamed : q \in scope /\ q \notin Changed(base, wt)
  BY <1>1 DEF DuplicateBasename, BrokenLink, Unsourced, MissingSource, ContestedShape,
              JournalShape, SentinelShape
<1>3. ASSUME NEW q \in blamed
      PROVE  q \in CuratorPaths(base) /\ q \in DOMAIN base /\ wt[q] = base[q] /\ q = <<q[1], q[2]>>
  <2>1. q \in CuratorPaths(base) /\ q \in DOMAIN base /\ q \notin Changed(base, wt)
    BY <1>2 DEF CuratorPaths
  <2>2. wt[q] = base[q] /\ q = <<q[1], q[2]>>
    BY <2>1 DEF Changed, TreeInv, TypedTree, Path
  <2> QED BY <2>1, <2>2
<1> HIDE DEF scope, blamed
<1>4. p \in blamed
  BY DEF blamed
<1>5. /\ p \in CuratorPaths(base) /\ p \in DOMAIN base /\ wt[p] = base[p] /\ p = <<p[1], p[2]>>
      /\ base[p].stamped
  BY <1>3, <1>4 DEF CuratorPaths
<1>6. p \notin DuplicateBasename(wt, scope)
  <2> SUFFICES ASSUME p \in DuplicateBasename(wt, scope) PROVE FALSE
    OBVIOUS
  <2>1. PICK q \in scope \ {p} : p \in scope /\ q[2] = p[2]
    BY DEF DuplicateBasename
  <2>2. q \in blamed
    BY <1>1, <2>1 DEF DuplicateBasename
  <2>3. q \in CuratorPaths(base)
    BY <1>3, <2>2
  <2> QED BY <1>5, <2>1, <2>3 DEF TreeInv, Unique
<1>7. /\ base[p].related \subseteq Names(base) /\ base[p].sources \subseteq DOMAIN rw0
      /\ ~base[p].twice
      /\ base[p].contested => base[p].by # {} /\ Cardinality(base[p].sources) >= 2
      /\ p[1] \in ConceptDirs => base[p].sources # {}
  BY <1>5 DEF TreeInv, Linted
<1>8. Names(base) \subseteq Names(wt)
  BY DEF Names
<1>9. /\ p \notin BrokenLink(wt, scope) /\ p \notin Unsourced(wt, scope)
      /\ p \notin MissingSource(wt, scope, rw) /\ p \notin SentinelShape(wt, scope)
  BY <1>5, <1>7, <1>8 DEF BrokenLink, Unsourced, MissingSource, SentinelShape
<1>10. CASE p \in ContestedShape(wt, scope, date)
  BY <1>5, <1>7, <1>10 DEF ContestedShape
<1>11. CASE p \in JournalShape(wt, scope, date, n)
  BY <1>5, <1>11 DEF JournalShape
<1> QED BY <1>1, <1>4, <1>6, <1>9, <1>10, <1>11

LEMMA RefusedStep ==
    ASSUME IInv, Publish,
           LET blamed == Blamed(run.wt, run.baseTree, run.raw, Dates[day], ran)
           IN  /\ Fail(blamed, Changed(run.baseTree, run.wt))
               /\ UNCHANGED <<tree, raw, log, head, named>>
    PROVE  IInv'
<1> DEFINE blamed == Blamed(run.wt, run.baseTree, run.raw, Dates[day], ran)
           touched == Changed(run.baseTree, run.wt)
<1>1. /\ run' = NoRun /\ last'.blamed = blamed /\ last'.touched = touched
      /\ last'.date = Dates[day] /\ last'.status = "failed"
      /\ UNCHANGED <<tree, raw, log, head, named, day, ran>>
  BY DEF Fail, Publish
<1>2. RunOK(run) /\ BaseOK(run) /\ AuthoredOK(run.wt, run.applied, run.asked, run.degraded, ran)
  BY WorktreeGraded
<1> HIDE DEF blamed, touched
<1>3. ASSUME blamed \cap touched = {}, NEW p \in blamed
      PROVE  \/ p = <<"notes", Dates[day]>>
             \/ p \in DOMAIN tree /\ tree[p].contested /\ tree[p].at # Dates[day]
  <2>1. TreeInv(run.baseTree, raw, ran) /\ DOMAIN run.baseTree \subseteq DOMAIN run.wt
    BY <1>2 DEF BaseOK, RunOK, AppliedOK, Kept, AuthoredOK
  <2>2. DOMAIN raw \subseteq DOMAIN run.raw
    BY <1>2 DEF RunOK
  <2>3. \/ p = <<"notes", Dates[day]>>
        \/ /\ p \in DOMAIN run.baseTree /\ run.baseTree[p].contested
           /\ run.baseTree[p].at # Dates[day]
    BY <1>3, <2>1, <2>2, OldBlame DEF blamed, touched
  <2> QED BY <1>2, <2>3 DEF BaseOK
<1>4. LastOK'
  BY <1>1, <1>3 DEF LastOK
<1>5. VarsOK'
  BY <1>1 DEF IInv, VarsOK
<1>6. CapturesStayCited'
  BY <1>1 DEF IInv, CapturesStayCited, NamedCapturesStayCited, RawIsTheCapture, Cited
<1> QED BY <1>1, <1>4, <1>5, <1>6 DEF IInv

\* The step that moves the branch.
Landed ==
    /\ Publish
    /\ Blamed(run.wt, run.baseTree, run.raw, Dates[day], ran) = {} /\ FinalDiffOk(run)
    /\ run.base = head /\ tree' = run.wt /\ raw' = run.raw /\ log' = LogWithEntry(run.log, ran)
    /\ head' = head + 1 /\ run' = NoRun /\ last'.status = "published" /\ last'.blamed = {}
    /\ named' = named \cup UNION {Provenance(d, run.batch) :
                                    d \in {c \in run.plan : c.op \in ContentOps}}
    /\ UNCHANGED <<day, ran>>

LEMMA PublishKinds ==
    ASSUME Publish
    PROVE  \/ Landed
           \/ /\ LET blamed == Blamed(run.wt, run.baseTree, run.raw, Dates[day], ran)
                 IN  /\ Fail(blamed, Changed(run.baseTree, run.wt))
                     /\ UNCHANGED <<tree, raw, log, head, named>>
              /\ last'.status = "failed"
<1> DEFINE blamed == Blamed(run.wt, run.baseTree, run.raw, Dates[day], ran)
           touched == Changed(run.baseTree, run.wt)
<1>1. IF blamed # {} \/ ~FinalDiffOk(run) \/ run.base # head
      THEN Fail(blamed, touched) /\ UNCHANGED <<tree, raw, log, head, named>>
      ELSE /\ tree' = run.wt /\ raw' = run.raw /\ log' = LogWithEntry(run.log, ran)
           /\ head' = head + 1 /\ run' = NoRun
           /\ last' = [status |-> "published", blamed |-> {}, touched |-> touched,
                       date |-> Dates[day]]
           /\ named' = named \cup UNION {Provenance(d, run.batch) :
                                           d \in {c \in run.plan : c.op \in ContentOps}}
  BY DEF Publish
<1>2. UNCHANGED <<day, ran>>
  BY DEF Publish
<1> HIDE DEF blamed, touched
<1>3. CASE blamed # {} \/ ~FinalDiffOk(run) \/ run.base # head
  <2>1. Fail(blamed, touched) /\ UNCHANGED <<tree, raw, log, head, named>>
    BY <1>1, <1>3
  <2>2. last'.status = "failed"
    BY <2>1 DEF Fail
  <2> QED BY <2>1, <2>2 DEF blamed, touched
<1>4. CASE ~(blamed # {} \/ ~FinalDiffOk(run) \/ run.base # head)
  <2>1. /\ tree' = run.wt /\ raw' = run.raw /\ log' = LogWithEntry(run.log, ran)
        /\ head' = head + 1 /\ run' = NoRun
        /\ named' = named \cup UNION {Provenance(d, run.batch) :
                                        d \in {c \in run.plan : c.op \in ContentOps}}
    BY <1>1, <1>4
  <2>2. last'.status = "published" /\ last'.blamed = {}
    BY <1>1, <1>4
  <2> QED BY <1>2, <1>4, <2>1, <2>2 DEF Landed, blamed
<1> QED BY <1>3, <1>4

LEMMA LandedTree ==
    ASSUME IInv, Landed
    PROVE  /\ tree = run.baseTree /\ RunOK(run)
           /\ FinalOK(run.wt, run.applied, run.asked, run.degraded, ran)
           /\ TreeInv(run.wt, run.raw, ran) /\ Unusurped(run.applied, tree)
<1>1. /\ RunOK(run) /\ BaseOK(run)
      /\ AuthoredOK(run.wt, run.applied, run.asked, run.degraded, ran)
  BY WorktreeGraded DEF Landed
<1>2. AppliedOK(run.applied, run.baseTree, run.asked, run.rawWrites, ran)
  BY <1>1 DEF RunOK
<1>3. tree = run.baseTree
  BY <1>1 DEF Landed, BaseOK
<1>4. \A p \in Changed(run.baseTree, run.wt) : AllowlistedPath(p)
  BY DEF Landed, FinalDiffOk
<1>5. FinalOK(run.wt, run.applied, run.asked, run.degraded, ran)
  BY <1>1, <1>2, <1>4, GateCloses DEF AppliedOK
<1>6. Blamed(run.wt, run.baseTree, run.raw, Dates[day], ran) = {}
  BY DEF Landed
<1>7. TreeInv(run.wt, run.raw, ran) /\ Unusurped(run.applied, run.baseTree)
  BY <1>2, <1>5, <1>6, PublishedTree
<1> QED BY <1>1, <1>3, <1>5, <1>7

LEMMA LandedStep ==
    ASSUME IInv, Landed
    PROVE  IInv'
<1>1. /\ tree = run.baseTree /\ RunOK(run) /\ TreeInv(run.wt, run.raw, ran)
      /\ FinalOK(run.wt, run.applied, run.asked, run.degraded, ran)
  BY LandedTree
<1>2. AppliedOK(run.applied, tree, run.asked, run.rawWrites, ran)
  BY <1>1 DEF RunOK
<1>3. TreeInv(tree, raw, ran)'
  BY <1>1 DEF Landed
<1>4. \A p \in DOMAIN run.applied :
        p \in DOMAIN tree' /\ tree'[p].sources = run.applied[p].sources
  <2>1. DOMAIN run.wt = DOMAIN run.applied /\ tree' = run.wt
    BY <1>1 DEF Landed, FinalOK
  <2>2. \A p \in DOMAIN run.wt : run.wt[p].sources = run.applied[p].sources
    BY <1>1, FinalFields
  <2> QED BY <2>1, <2>2
<1>5. DOMAIN raw' = DOMAIN raw \cup run.rawWrites
  BY <1>1 DEF RunOK, Landed
<1>6. named' = named \cup run.rawWrites
  BY <1>1 DEF RunOK, Landed, RawWrites
<1>7. ASSUME NEW e \in named' PROVE Cited(e)'
  <2>1. CASE e \in named
    <3>1. e \in DOMAIN raw
      BY <2>1 DEF IInv, CapturesStayCited, NamedCapturesStayCited, Cited
    <3>2. PICK p \in DOMAIN tree : e \in tree[p].sources
      BY <2>1 DEF IInv, CapturesStayCited, NamedCapturesStayCited, Cited
    <3>3. p \in DOMAIN run.applied /\ e \in run.applied[p].sources
      BY <1>2, <3>2 DEF AppliedOK, Kept
    <3> QED BY <1>4, <1>5, <3>1, <3>3 DEF Cited
  <2>2. CASE e \in run.rawWrites
    <3>1. PICK p \in DOMAIN run.applied : e \in run.applied[p].sources
      BY <1>2, <2>2 DEF AppliedOK, Filed
    <3> QED BY <1>4, <1>5, <2>2, <3>1 DEF Cited
  <2> QED BY <1>6, <2>1, <2>2
<1>8. ASSUME NEW e \in DOMAIN raw' PROVE raw'[e] = "capture"
  <2>1. CASE e \in Changed(raw, run.raw)
    BY <2>1 DEF Landed, FinalDiffOk, EngineWrittenRaw
  <2>2. CASE e \notin Changed(raw, run.raw)
    <3>1. e \in DOMAIN raw /\ raw[e] = raw'[e]
      BY <1>8, <2>2 DEF Landed, Changed
    <3> QED BY <3>1 DEF IInv, CapturesStayCited, RawIsTheCapture
  <2> QED BY <2>1, <2>2
<1>9. CapturesStayCited'
  BY <1>7, <1>8 DEF CapturesStayCited, NamedCapturesStayCited, RawIsTheCapture
<1>10. LastOK'
  BY DEF LastOK, Landed
<1>11. VarsOK'
  <2>1. DOMAIN raw' \subseteq Events
    BY <1>1, <1>5 DEF IInv, VarsOK, RunOK
  <2> QED BY <2>1 DEF IInv, VarsOK, Landed
<1>12. run' = NoRun
  BY DEF Landed
<1> QED BY <1>3, <1>9, <1>10, <1>11, <1>12 DEF IInv

LEMMA StartStep ==
    ASSUME IInv, StartRun
    PROVE  IInv'
<1>1. PICK plan \in Plans(Batches[ran + 1]) :
        LET batch == Batches[ran + 1]
            date == Dates[day]
            ok == /\ ValidPlan(plan, batch, tree, date)
                  /\ ~ApplyRaises(plan, tree, ran', batch, date)
            applied == ApplyPlan(plan, tree, ran', batch, date)
            writes == RawWrites(plan, batch)
        IN IF ~ok THEN Fail({}, {})
           ELSE /\ run' = [stage |-> "applied", base |-> head, baseTree |-> tree,
                           plan |-> plan, batch |-> batch, applied |-> applied,
                           wt |-> applied, appliedRaw |-> Materialized(raw, writes),
                           raw |-> Materialized(raw, writes), rawWrites |-> writes,
                           asked |-> AskedRegions(plan, tree, ran', date),
                           log |-> log, degraded |-> FALSE]
                /\ UNCHANGED last
  BY DEF StartRun
<1>2. /\ Idle /\ ran < Len(Batches) /\ ran' = ran + 1
      /\ UNCHANGED <<tree, raw, log, head, day, named>> /\ ran \in Nat
  BY DEF StartRun, IInv, VarsOK
<1>3. \/ Fail({}, {})
      \/ RunOK(run)' /\ BaseOK(run)' /\ UNCHANGED last
  <2>1. CASE /\ ValidPlan(plan, Batches[ran + 1], tree, Dates[day])
             /\ ~ApplyRaises(plan, tree, ran', Batches[ran + 1], Dates[day])
    BY <1>1, <1>2, <2>1, StartedRun
  <2>2. CASE ~(/\ ValidPlan(plan, Batches[ran + 1], tree, Dates[day])
               /\ ~ApplyRaises(plan, tree, ran', Batches[ran + 1], Dates[day]))
    BY <1>1, <2>2
  <2> QED BY <2>1, <2>2
<1>4. TreeInv(tree, raw, ran)'
  BY <1>2, TreeLater DEF IInv
<1>5. VarsOK'
  BY <1>2, <1>3 DEF IInv, VarsOK, Fail
<1>6. CapturesStayCited'
  BY <1>2 DEF IInv, CapturesStayCited, NamedCapturesStayCited, RawIsTheCapture, Cited
<1>7. LastOK'
  <2>1. CASE Fail({}, {})
    <3>1. last'.blamed = {}
      BY <2>1 DEF Fail
    <3> QED BY <3>1 DEF LastOK
  <2>2. CASE UNCHANGED last
    BY <1>2, <2>2 DEF IInv, LastOK
  <2> QED BY <1>3, <2>1, <2>2
<1> QED BY <1>3, <1>4, <1>5, <1>6, <1>7 DEF IInv, Fail

LEMMA FailsStep ==
    ASSUME IInv, AuthorFails
    PROVE  IInv'
<1>1. run' = NoRun /\ last'.blamed = {} /\ last'.status = "failed"
      /\ UNCHANGED <<tree, raw, log, head, day, ran, named>>
  BY DEF AuthorFails, Fail
<1>2. LastOK'
  BY <1>1 DEF LastOK
<1> QED BY <1>1, <1>2 DEF IInv, VarsOK, CapturesStayCited, NamedCapturesStayCited,
                         RawIsTheCapture, Cited

\* A person's note is nobody's concept: it cites nothing and owes nothing.
Saved(t, p) == Put(t, p, [Blank EXCEPT !.text = "human"])
Extends(u, t) == DOMAIN t \subseteq DOMAIN u /\ \A q \in DOMAIN t : u[q] = t[q]
LEMMA SavedTree ==
    ASSUME NEW n \in Nat, NEW t, NEW rw, TreeInv(t, rw, n), NEW p \in HumanPaths \ DOMAIN t
    PROVE  TreeInv(Saved(t, p), rw, n) /\ Extends(Saved(t, p), t)
<1> DEFINE x == [Blank EXCEPT !.text = "human"]
           u == Saved(t, p)
<1>1. /\ ~x.stamped /\ ~x.pending /\ ~x.twice /\ x.sources = {} /\ x.subjects = {}
      /\ DOMAIN x.regions = {} /\ x \in NoteRecord(x)
  <2>1. DOMAIN x.regions = {}
    BY DEF Blank
  <2>2. /\ ~x.stamped /\ ~x.pending /\ ~x.twice /\ x.sources = {} /\ x.subjects = {}
        /\ x \in NoteRecord(x)
    BY DEF Blank, NoteRecord
  <2> QED BY <2>1, <2>2
<1>2. u = [q \in DOMAIN t \cup {p} |-> IF q = p THEN x ELSE t[q]]
  BY DEF Put, Saved
<1>3. p \in Path
  BY DEF Path
<1> HIDE DEF x, u
<1>4. NoteOK(x, n) /\ FlagOK(x) /\ UngatedOK(x)
  BY <1>1 DEF NoteOK, FlagOK, UngatedOK, Unauthored
<1>5. /\ Fn(u) /\ DOMAIN u = DOMAIN t \cup {p} /\ u[p] = x
      /\ \A q \in DOMAIN t : u[q] = t[q]
  BY <1>2 DEF Fn
<1>6. TypedTree(u, n)
  BY <1>3, <1>4, <1>5 DEF TreeInv, TypedTree
<1>7. CuratorPaths(u) = CuratorPaths(t)
  BY <1>1, <1>5 DEF CuratorPaths
<1>8. \A q \in CuratorPaths(t) : u[q] = t[q] /\ q \in DOMAIN t
  BY <1>5 DEF CuratorPaths
<1>9. Names(t) \subseteq Names(u)
  BY <1>5 DEF Names
<1>10. \A s : Listed(u, s) = Listed(t, s)
  BY <1>1, <1>5 DEF Listed
<1>11. OwnOK(u) /\ Unique(u)
  BY <1>7, <1>8 DEF TreeInv, OwnOK, Unique
<1>12. Linted(u, rw)
  BY <1>7, <1>8, <1>9 DEF TreeInv, Linted
<1>13. NotesOK(u)
  BY <1>4, <1>5 DEF TreeInv, NotesOK
<1>14. MapsOK(u)
  BY <1>1, <1>5, <1>10 DEF TreeInv, MapsOK
<1>15. IndexOK(u)
  BY <1>5, <1>7, <1>8 DEF TreeInv, IndexOK
<1> QED BY <1>5, <1>6, <1>11, <1>12, <1>13, <1>14, <1>15 DEF TreeInv, Extends, u

LEMMA SaveStep ==
    ASSUME IInv, HumanSave
    PROVE  IInv'
<1>1. PICK p \in HumanPaths \ DOMAIN tree :
        /\ tree' = Put(tree, p, [Blank EXCEPT !.text = "human"]) /\ head' = head + 1
        /\ UNCHANGED <<raw, log, day, ran, run, last, named>>
  BY DEF HumanSave
<1>2. ran \in Nat /\ head \in Nat /\ TreeInv(tree, raw, ran)
  BY DEF IInv, VarsOK
<1>3. /\ TreeInv(tree', raw, ran) /\ DOMAIN tree \subseteq DOMAIN tree'
      /\ \A q \in DOMAIN tree : tree'[q] = tree[q]
  <2>1. tree' = Saved(tree, p)
    BY <1>1 DEF Saved
  <2> QED BY <1>2, <2>1, SavedTree DEF Extends
<1>4. VarsOK'
  BY <1>1 DEF IInv, VarsOK
<1>5. CapturesStayCited'
  BY <1>1, <1>3 DEF IInv, CapturesStayCited, NamedCapturesStayCited, RawIsTheCapture, Cited
<1>6. LastOK'
  BY <1>1, <1>3 DEF IInv, LastOK
<1>7. RunOK(run) => RunOK(run)'
  BY <1>1 DEF RunOK
<1>8. BaseOK(run) => BaseOK(run)'
  <2> SUFFICES ASSUME BaseOK(run) PROVE BaseOK(run)'
    OBVIOUS
  <2>1. run.base \in Nat /\ run.base <= head' /\ run.base # head'
    BY <1>1, <1>2 DEF BaseOK
  <2> QED BY <1>1, <1>3, <2>1 DEF BaseOK
<1> QED BY <1>1, <1>3, <1>4, <1>5, <1>6, <1>7, <1>8 DEF IInv

LEMMA DayStep ==
    ASSUME IInv, NextDay
    PROVE  IInv'
<1>1. run = NoRun
  BY RunKinds DEF NextDay, Idle
<1>2. day' \in 1 .. Len(Dates) /\ UNCHANGED <<tree, raw, log, head, ran, run, last, named>>
  BY DEF NextDay, IInv, VarsOK
<1> QED BY <1>1, <1>2 DEF IInv, VarsOK, LastOK, CapturesStayCited, NamedCapturesStayCited,
                         RawIsTheCapture, Cited

LEMMA PassStep ==
    ASSUME IInv, Author
    PROVE  IInv'
<1>1. RunOK(run)' /\ BaseOK(run)'
  BY AuthorStep
<1>2. UNCHANGED <<tree, raw, log, head, day, ran, last, named>>
  BY DEF Author
<1> QED BY <1>1, <1>2 DEF IInv, VarsOK, LastOK, CapturesStayCited, NamedCapturesStayCited,
                         RawIsTheCapture, Cited

LEMMA IInvStep == IInv /\ [Next]_vars => IInv'
<1> SUFFICES ASSUME IInv, [Next]_vars PROVE IInv'
  OBVIOUS
<1>1. CASE Publish
  BY <1>1, PublishKinds, LandedStep, RefusedStep
<1>2. CASE UNCHANGED vars
  BY <1>2 DEF vars, IInv, VarsOK, LastOK, CapturesStayCited, NamedCapturesStayCited,
              RawIsTheCapture, Cited, RunOK, BaseOK
<1> QED BY <1>1, <1>2, StartStep, FailsStep, PassStep, SaveStep, DayStep DEF Next

\* Whatever the brain and the author pass print, a tree that is published is one that
\* later runs may start from, and a run in flight has not left its worktree.
THEOREM Invariant == Spec => []IInv
  BY IInvInit, IInvStep, PTL DEF Spec
-----------------------------------------------------------------------------
(* What follows of the published wiki.                                     *)

\* Every capture that a published plan filed can be traced from a note to the words
\* of the capture, however often the note was appended to, merged into or contested,
\* and whatever an author pass wrote to raw/ on the way.
THEOREM CapturesStayCitedHolds == Spec => []CapturesStayCited
<1>1. IInv => CapturesStayCited
  BY DEF IInv
<1> QED BY <1>1, Invariant, PTL

\* The published tree is well formed: typed notes, one engine-written note per
\* basename (although journals and maps share the namespace of the concepts), each
\* map with exactly the concepts of its subject and the index with every map.
THEOREM TreeWellFormedHolds == Spec => []TreeWellFormed
<1>1. ASSUME IInv PROVE TreeWellFormed
  <2>1. VarsOK /\ TreeInv(tree, raw, ran)
    BY <1>1 DEF IInv
  <2>2. ASSUME NEW p \in DOMAIN tree PROVE p[1] \in PathSet /\ Note(tree[p])
    <3>1. p \in Path /\ NoteOK(tree[p], ran)
      BY <2>1 DEF TreeInv, TypedTree
    <3>2. {tree[p].stamped, tree[p].contested, tree[p].twice, tree[p].pending} \subseteq BOOLEAN
      BY <3>1 DEF NoteOK, NoteRecord
    <3> QED BY <3>1, <3>2 DEF Path, NoteOK, Note
  <2>3. run.stage \in {"none", "applied", "authored"}
    <3>1. CASE run = NoRun
      BY <3>1 DEF NoRun
    <3> QED BY <1>1, <3>1, RunKinds
  <2>4. TypeOK
    BY <2>1, <2>2, <2>3 DEF VarsOK, TypeOK
  <2>5. BasenamesUnique
    BY <2>1 DEF TreeInv, Unique, BasenamesUnique
  <2>6. MapsListTheirConcepts
    BY <2>1 DEF TreeInv, MapsOK, IndexOK, Listed, MapsListTheirConcepts
  <2> QED BY <2>4, <2>5, <2>6 DEF TreeWellFormed
<1> QED BY <1>1, Invariant, PTL

\* body_status is pending exactly while the note has a region without prose, whichever
\* run asked for it, and whether its author pass was accepted, undone or not run.
THEOREM PendingIffUnauthoredHolds == Spec => []PendingIffUnauthored
<1>1. IInv => PendingIffUnauthored
  BY DEF IInv, TreeInv, NotesOK, FlagOK, CuratorPaths, PendingIffUnauthored
<1> QED BY <1>1, Invariant, PTL

\* No note rests on gated captures alone: a plan may relabel its dispositions and merge
\* into what an earlier run wrote, but a gated capture only ever joins a note that cites
\* a capture that is not gated.
THEOREM GatedNeverOriginatesHolds == Spec => []GatedNeverOriginates
<1>1. IInv => GatedNeverOriginates
  BY DEF IInv, TreeInv, NotesOK, UngatedOK, GatedNeverOriginates
<1> QED BY <1>1, Invariant, PTL

\* A run is refused for a note it did not write in two cases only, both of the rules
\* that compare with the run's date: today's journal and a concept contested before.
THEOREM OldNotesBlamedInTwoCasesHolds == Spec => []OldNotesBlamedInTwoCases
<1>1. IInv => OldNotesBlamedInTwoCases
  <2> SUFFICES ASSUME LastOK, ~LintBlamesThisRun, NEW p \in last.blamed
               PROVE  p = <<"notes", last.date>> \/ (tree[p].contested /\ tree[p].at # last.date)
    BY DEF IInv, OldNotesBlamedInTwoCases
  <2> QED BY DEF LastOK, LintBlamesThisRun
<1> QED BY <1>1, Invariant, PTL

\* The only step that reports a published run is the one that moves the branch.
LEMMA PublishesLands ==
    ASSUME IInv, [Next]_vars, Publishes
    PROVE  Landed
<1>1. run # NoRun /\ run' = NoRun /\ last'.status = "published"
  BY DEF Publishes
<1>2. ~StartRun
  <2>1. StartRun => run.stage = "none"
    BY DEF StartRun, Idle
  <2> QED BY <1>1, <2>1, RunKinds
<1>3. ~AuthorFails
  BY <1>1 DEF AuthorFails, Fail
<1>4. ~Author
  <2>1. Author => RunOK(run)'
    BY AuthorStep
  <2>2. NoRun.stage = "none"
    BY DEF NoRun
  <2> QED BY <1>1, <2>1, <2>2 DEF RunOK, RunRecord
<1>5. ~HumanSave /\ ~NextDay /\ ~UNCHANGED vars
  BY <1>1 DEF HumanSave, NextDay, vars
<1>6. Publish
  BY <1>2, <1>3, <1>4, <1>5 DEF Next
<1> QED BY <1>1, <1>6, PublishKinds

LEMMA LandedConfined ==
    ASSUME IInv, Landed
    PROVE  /\ log' = Append(log, ran) /\ DOMAIN tree' = DOMAIN run.applied
           /\ \A p \in DOMAIN tree' :
                IF p \in DOMAIN run.asked
                THEN SameOutsideRegions([run.applied[p] EXCEPT !.pending = tree'[p].pending],
                                        tree'[p])
                ELSE tree'[p] = run.applied[p]
           /\ run.degraded => tree' = run.applied
<1>1. RunOK(run) /\ FinalOK(run.wt, run.applied, run.asked, run.degraded, ran)
  BY LandedTree
<1>2. tree' = run.wt /\ log' = LogWithEntry(run.log, ran)
  BY DEF Landed
<1>3. log' = Append(log, ran)
  BY <1>1, <1>2 DEF RunOK, LogWithEntry
<1>4. DOMAIN tree' = DOMAIN run.applied
  BY <1>1, <1>2 DEF FinalOK
<1>5. ASSUME NEW p \in DOMAIN tree'
      PROVE  IF p \in DOMAIN run.asked
             THEN SameOutsideRegions([run.applied[p] EXCEPT !.pending = tree'[p].pending],
                                     tree'[p])
             ELSE tree'[p] = run.applied[p]
  <2>1. CASE p \in DOMAIN run.asked
    <3>1. ProseOnly(run.applied[p], run.wt[p], ran)
      BY <1>1, <1>2, <2>1 DEF FinalOK
    <3>2. SameOutsideRegions([run.applied[p] EXCEPT !.pending = run.wt[p].pending], run.wt[p])
      BY <3>1 DEF ProseOnly
    <3> QED BY <1>2, <2>1, <3>2
  <2>2. CASE p \notin DOMAIN run.asked
    BY <1>1, <1>2, <2>2 DEF FinalOK
  <2> QED BY <2>1, <2>2
<1>6. ASSUME run.degraded PROVE tree' = run.applied
  <2>1. Fn(run.wt) /\ DOMAIN run.wt = DOMAIN run.applied
    BY <1>1 DEF FinalOK
  <2>2. Fn(run.applied)
    BY <1>1 DEF RunOK, AppliedOK, TypedTree
  <2>3. \A p \in DOMAIN run.wt : run.wt[p] = run.applied[p]
    BY <1>1, <1>6 DEF FinalOK
  <2>4. run.wt = run.applied
    BY <2>1, <2>2, <2>3 DEF Fn
  <2> QED BY <1>2, <2>4
<1> QED BY <1>3, <1>4, <1>5, <1>6

\* A person's note that is not a journal, a map or the index.
Personal(p) == ~tree[p].stamped /\ p[1] \notin {"maps", "notes", "index"}
LEMMA PersonalKept ==
    ASSUME IInv, [Next]_vars, NEW p \in DOMAIN tree, Personal(p)
    PROVE  p \in DOMAIN tree' /\ tree'[p] = tree[p]
<1>1. CASE Landed
  <2>1. /\ tree = run.baseTree /\ RunOK(run) /\ Unusurped(run.applied, tree)
        /\ FinalOK(run.wt, run.applied, run.asked, run.degraded, ran) /\ tree' = run.wt
    BY <1>1, LandedTree DEF Landed
  <2>2. Kept(run.applied, tree) /\ Owing(run.applied, run.asked)
    BY <2>1 DEF RunOK, AppliedOK
  <2>3. p \in DOMAIN run.applied
    BY <2>2 DEF Kept
  <2>4. run.applied[p] = tree[p]
    BY <2>1, <2>2, <2>3 DEF Kept, Unusurped, Personal
  <2>5. p \notin DOMAIN run.asked
    BY <2>2, <2>4 DEF Owing, Personal
  <2> QED BY <2>1, <2>3, <2>4, <2>5 DEF FinalOK
<1>2. CASE Publish /\ ~Landed
  BY <1>2, PublishKinds
<1>3. CASE HumanSave
  <2>1. PICK q \in HumanPaths \ DOMAIN tree :
          tree' = Put(tree, q, [Blank EXCEPT !.text = "human"])
    BY <1>3 DEF HumanSave
  <2>2. TreeInv(tree, raw, ran) /\ ran \in Nat /\ tree' = Saved(tree, q)
    BY <2>1 DEF IInv, VarsOK, Saved
  <2>3. Extends(Saved(tree, q), tree)
    BY <2>2, SavedTree
  <2> QED BY <2>2, <2>3 DEF Extends
<1>4. CASE StartRun \/ AuthorFails \/ Author \/ NextDay \/ UNCHANGED vars
  BY <1>4 DEF StartRun, AuthorFails, Author, NextDay, vars
<1> QED BY <1>1, <1>2, <1>3, <1>4 DEF Next

\* What a run publishes is APPLY's tree with prose in the regions it asked for, nothing
\* of a pass that was rejected, and nothing in a note of a person, although notes may be
\* saved while the run is in flight and share a basename with what it merges into.
THEOREM RunConfinedHolds == Spec => RunConfined
<1>1. IInv /\ [Next]_vars =>
        [Publishes =>
           /\ log' = Append(log, ran)
           /\ DOMAIN tree' = DOMAIN run.applied
           /\ \A p \in DOMAIN tree' :
                IF p \in DOMAIN run.asked
                THEN SameOutsideRegions([run.applied[p] EXCEPT !.pending = tree'[p].pending],
                                        tree'[p])
                ELSE tree'[p] = run.applied[p]]_vars
  BY PublishesLands, LandedConfined
<1>2. IInv /\ [Next]_vars => [Publishes /\ run.degraded => tree' = run.applied]_vars
  BY PublishesLands, LandedConfined
<1>3. IInv /\ [Next]_vars =>
        [\A p \in DOMAIN tree :
           ~tree[p].stamped /\ p[1] \notin {"maps", "notes", "index"} =>
             p \in DOMAIN tree' /\ tree'[p] = tree[p]]_vars
  BY PersonalKept DEF Personal
<1>4. Spec => AuthorConfined
  BY <1>1, Invariant, PTL DEF Spec, AuthorConfined
<1>5. Spec => RejectedPassUndone
  BY <1>2, Invariant, PTL DEF Spec, RejectedPassUndone
<1>6. Spec => HumanNotesUntouched
  BY <1>3, Invariant, PTL DEF Spec, HumanNotesUntouched
<1> QED BY <1>4, <1>5, <1>6, PTL DEF RunConfined
=============================================================================
