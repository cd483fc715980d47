--------------------------- MODULE Consolidation ---------------------------
(***************************************************************************)
(* What one curator run does to the wiki, between the claim of a batch and *)
(* the compare-and-swap that publishes it: the bundle folds equal captures *)
(* into candidates, the PLAN gate grades an untrusted plan, APPLY          *)
(* materializes it in a private worktree, the AUTHOR pass lets an          *)
(* untrusted brain write there, and the author check, the lint and the     *)
(* final-diff gate decide what of it may be published.  CuratorRun models  *)
(* the spool around this; here the notes are the state, over several runs. *)
(*                                                                         *)
(* A note's path is <<directory, basename>>.  A note body is abstracted to *)
(* its prose regions (authored or not) and a flag that says whether the    *)
(* text outside them is still what APPLY wrote.  A raw source is keyed by  *)
(* the event it preserves; its shard directory is abstracted.              *)
(***************************************************************************)
EXTENDS Naturals, Sequences, FiniteSets

CONSTANTS
  Batches,      \* the batches of events the successive runs claim, a sequence
  Text,         \* event -> its text; equal texts are one candidate
  Gated,        \* the events marked candidate or low confidence
  Wishes,       \* what an untrusted plan may ask for one candidate
  Domains,      \* the taxonomy's domains
  Dates,        \* the run dates, a sequence
  HumanPaths,   \* where a person may save a hand-written note
  Rogue         \* the ways an untrusted AUTHOR pass may misbehave

Events == DOMAIN Text
PathSet == {"concepts", "concepts/old", "maps", "notes", "people", "index", "src"}
ASSUME PlanAssumption ==
  /\ Batches \in Seq(SUBSET Events) /\ Domains \subseteq STRING
  /\ Dates \in Seq(STRING) \ {<<>>}
  /\ HumanPaths \subseteq (PathSet \ {"src"}) \X STRING
  /\ Wishes \subseteq
       [op : {"CREATE_THEME", "APPEND_DAILY", "MERGE_INTO_THEME", "MARK_CONTESTED", "DROP"},
        name : STRING, domain : STRING, links : SUBSET STRING, prose : BOOLEAN,
        label : {{}}, events : {{}}]

VARIABLES
  tree,         \* the published notes: path -> note
  raw,          \* the published raw sources: event -> "capture" or "forged"
  log,          \* log.md: the run numbers with an entry
  head,         \* the number of commits on the curated branch
  day,          \* index of today's date in Dates
  ran,          \* the number of runs started
  run,          \* the run in flight, or NoRun
  last,         \* the report of the last run that ended
  named         \* history: events of the candidates a published plan filed

vars == <<tree, raw, log, head, day, ran, run, last, named>>

ConceptDirs == {"concepts", "concepts/old"}
Index == <<"index", "index">>
Stray == <<"concepts", "stray">>
Outside == <<"src", "outside">>
BasenameOps == {"CREATE_THEME", "APPEND_DAILY"}
TargetOps == {"MERGE_INTO_THEME", "MARK_CONTESTED"}
ContentOps == BasenameOps \cup TargetOps
GateAllowedOps == TargetOps \cup {"DROP"}
RegionOps == ContentOps \ {"MARK_CONTESTED"}

NoRun == [stage |-> "none"]
Blank == [stamped |-> FALSE, subjects |-> {}, sources |-> {}, related |-> {},
          contested |-> FALSE, by |-> {}, at |-> "", kids |-> {}, runId |-> 0,
          regions |-> <<>>, twice |-> FALSE, pending |-> FALSE, text |-> "own"]

IsPeople(p) == p[1] = "people"
AllowlistedPath(p) == p[1] \notin {"people", "src"}
Names(t) == {p[2] : p \in {q \in DOMAIN t : ~IsPeople(q)}}
CuratorPaths(t) == {p \in DOMAIN t : t[p].stamped}
\* The sourced notes the engine wrote: the only legal MERGE/CONTEST targets.
ThemeNames(t) == {p[2] : p \in {q \in CuratorPaths(t) : q[1] \in ConceptDirs}}
Unauthored(n) == n.twice \/ \E r \in DOMAIN n.regions : ~n.regions[r]
Changed(old, new) ==
  {p \in DOMAIN old \cup DOMAIN new :
     \/ p \notin DOMAIN old \/ p \notin DOMAIN new
     \/ (p \in DOMAIN old /\ p \in DOMAIN new /\ old[p] # new[p])}
-----------------------------------------------------------------------------
(* The bundle: byte-equal captures are one candidate, gated if any is.     *)
Candidates(batch) == {{f \in batch : Text[f] = Text[e]} : e \in batch}
IsGated(cand) == cand \cap Gated # {}
\* APPLY looks the captures up by the plan's candidate label; a label the
\* bundle does not know brings none.
Provenance(d, batch) == IF d.label \in Candidates(batch) THEN d.label ELSE {}

(* Every plan the brain may print: a wish per candidate, under its own     *)
(* label or under another one.                                             *)
Plans(batch) ==
  LET cands == Candidates(batch)
      labels == cands \cup {{}}
      choices == [cands -> Wishes \X labels]
      disposition(c, w) == [w[1] EXCEPT !.label = w[2], !.events = c]
  IN {{disposition(c, f[c]) : c \in cands} : f \in choices}

(* validate_plan, check by check.                                          *)
Coverage(plan, batch) ==
  /\ UNION {d.events : d \in plan} = batch
  /\ \A e \in batch : Cardinality({d \in plan : e \in d.events}) = 1
TaxonomyOk(plan) == \A d \in plan : d.domain \in Domains
NewNames(plan) == {d.name : d \in {c \in plan : c.op = "CREATE_THEME"}}
BasenameOk(plan, t) ==
  /\ \A d \in plan : d.op = "CREATE_THEME" =>
       /\ d.name \notin Names(t) \cup Domains
       /\ \A c \in plan \ {d} : ~(c.op = "CREATE_THEME" /\ c.name = d.name)
  /\ \A d \in plan : d.op \in TargetOps => d.name \in ThemeNames(t)
PathOk(plan, date) == \A d \in plan : d.op = "APPEND_DAILY" => d.name = date
LinksOk(plan, t) == \A d \in plan : d.links \subseteq Names(t) \cup NewNames(plan)
ProvenanceOk(plan) == \A d \in plan : d.op \in ContentOps => d.events # {}
\* (mutant) only the first capture of a candidate is asked whether it is gated.
CandidateGateFirst(plan, batch) ==
  \A d \in plan : (d.label \in Candidates(batch) /\ d.label \subseteq Gated)
                    => d.op \in GateAllowedOps \cup {"APPEND_DAILY"}
CandidateGateOk(plan, batch) ==
  \A d \in plan : (d.label \in Candidates(batch) /\ IsGated(d.label))
                    => d.op \in GateAllowedOps
ValidPlan(plan, batch, t, date) ==
  /\ Coverage(plan, batch)
  /\ TaxonomyOk(plan)
  /\ BasenameOk(plan, t)
  /\ PathOk(plan, date)
  /\ LinksOk(plan, t)
  /\ ProvenanceOk(plan)
  /\ CandidateGateOk(plan, batch)
-----------------------------------------------------------------------------
(* APPLY.  Where a disposition writes: the target of a MERGE/CONTEST is    *)
(* the first path of that basename, and a subdirectory sorts first.        *)
TargetPath(name, t) ==
  IF <<"concepts/old", name>> \in DOMAIN t THEN <<"concepts/old", name>>
                                            ELSE <<"concepts", name>>
NotePath(d, t, date) ==
  IF d.op = "CREATE_THEME" THEN <<"concepts", d.name>>
  ELSE IF d.op = "APPEND_DAILY" THEN <<"notes", date>>
  ELSE TargetPath(d.name, t)
Region(n, d) == <<n, d.label>>
Asks(d) == d.prose /\ d.op \in RegionOps
Sources(ds, batch) == UNION {Provenance(d, batch) : d \in ds}

\* The regions that dispositions which ask for prose leave in their note.  An id
\* that is there already, or twice, makes the note's sentinels ambiguous.
WithRegions(note, ds, n) ==
  LET asking == {d \in ds : Asks(d)}
      ids == {Region(n, d) : d \in asking}
  IN [note EXCEPT !.pending = @ \/ asking # {},
        !.twice = @ \/ ids \cap DOMAIN note.regions # {}
                    \/ \E c, d \in asking : c # d /\ c.label = d.label,
        !.regions = [r \in DOMAIN @ \cup ids |-> IF r \in DOMAIN @ THEN @[r] ELSE FALSE]]
CreatedNote(ds, n, batch) ==
  WithRegions([Blank EXCEPT !.stamped = TRUE, !.subjects = {d.domain : d \in ds},
                            !.sources = Sources(ds, batch)], ds, n)
\* (mutant) the journal is rendered afresh: an earlier run's is not read back.
JournalNoteFresh(old, ds, n, batch) ==
  [CreatedNote(ds, n, batch) EXCEPT !.runId = n]
JournalNote(old, ds, n, batch) ==
  WithRegions([old EXCEPT !.stamped = TRUE, !.subjects = @ \cup {d.domain : d \in ds},
                          !.runId = n, !.sources = @ \cup Sources(ds, batch)], ds, n)
\* What MERGE and CONTEST share: provenance is united into the target.
Cite(old, ds, batch) ==
  [old EXCEPT !.stamped = TRUE, !.sources = @ \cup Sources(ds, batch),
              !.subjects = IF @ = {} THEN {(CHOOSE d \in ds : TRUE).domain} ELSE @]
MergedNote(old, ds, n) ==
  WithRegions([old EXCEPT !.related = @ \cup UNION {d.links : d \in ds}], ds, n)
ContestedNote(old, ds, date) ==
  [old EXCEPT !.contested = TRUE, !.by = @ \cup UNION {d.links : d \in ds}, !.at = date]

\* The note that the dispositions ds for one path leave, given the one before it:
\* a new concept, a journal, or a target of merges and contests.
Rewritten(ds, old, n, batch, date) ==
  LET of(op) == {d \in ds : d.op = op}
      target == MergedNote(Cite(old, ds, batch), of("MERGE_INTO_THEME"), n)
  IN IF of("CREATE_THEME") # {} THEN CreatedNote(ds, n, batch)
     ELSE IF of("APPEND_DAILY") # {} THEN JournalNote(old, ds, n, batch)
     ELSE IF of("MARK_CONTESTED") = {} THEN target
     ELSE ContestedNote(target, of("MARK_CONTESTED"), date)
Written(plan, t, n, batch, date) ==
  LET content == {d \in plan : d.op \in ContentOps}
      paths == {NotePath(d, t, date) : d \in content}
      old(p) == IF p \in DOMAIN t THEN t[p] ELSE Blank
      at(p) == {d \in content : NotePath(d, t, date) = p}
  IN [p \in DOMAIN t \cup paths |->
        IF p \in paths THEN Rewritten(at(p), old(p), n, batch, date) ELSE t[p]]

NewSubjects(plan) == {d.domain : d \in {c \in plan : c.op = "CREATE_THEME"}}
MapOf(t, s) ==
  LET old == IF <<"maps", s>> \in DOMAIN t THEN t[<<"maps", s>>] ELSE Blank
  IN [old EXCEPT !.stamped = TRUE, !.subjects = @ \cup {s}, !.text = "own",
        !.kids = {p[2] : p \in {q \in DOMAIN t : q[1] \in ConceptDirs
                                                   /\ s \in t[q].subjects}}]
\* _update_map per subject of a new concept, then _update_index.
Mapped(t, subjects) ==
  LET maps == {<<"maps", s>> : s \in subjects}
      all == {p[2] : p \in {q \in DOMAIN t : q[1] = "maps"}} \cup subjects
      old == IF Index \in DOMAIN t THEN t[Index] ELSE Blank
  IN IF subjects = {} THEN t
     ELSE [p \in DOMAIN t \cup maps \cup {Index} |->
             IF p \in maps THEN MapOf(t, p[2])
             ELSE IF p = Index THEN [old EXCEPT !.stamped = TRUE, !.kids = all]
             ELSE t[p]]

ApplyPlan(plan, t, n, batch, date) ==
  Mapped(Written(plan, t, n, batch, date), NewSubjects(plan))
\* The inputs APPLY raises on although the gate let them through.
ApplyRaises(plan, t, n, batch, date) ==
  \/ \E d \in plan : d.op = "MARK_CONTESTED" /\ d.links = {}
  \/ \E s \in NewSubjects(plan) :
       /\ <<"maps", s>> \notin DOMAIN t
       /\ s \in Names(Written(plan, t, n, batch, date))
\* A raw source already in the tree is kept byte for byte.
RawWrites(plan, batch) ==
  UNION {Provenance(d, batch) : d \in {c \in plan : c.op \in ContentOps}}
Materialized(r, events) ==
  [e \in DOMAIN r \cup events |-> IF e \in DOMAIN r THEN r[e] ELSE "capture"]
AskedRegions(plan, t, n, date) ==
  [p \in {NotePath(d, t, date) : d \in {c \in plan : Asks(c)}} |->
     {Region(n, d) : d \in {c \in plan : Asks(c) /\ NotePath(c, t, date) = p}}]
-----------------------------------------------------------------------------
(* The AUTHOR pass: regions filled, and possibly one rogue edit.           *)
Fill(t, filled) ==
  [p \in DOMAIN t |->
     [t[p] EXCEPT !.regions = [r \in DOMAIN @ |-> @[r] \/ <<p, r>> \in filled]]]
Put(t, p, note) == [q \in DOMAIN t \cup {p} |-> IF q = p THEN note ELSE t[q]]
\* The worktree after rogue edit k on note p.
RogueTree(t, p, k) ==
  IF k = "frontmatter" THEN [t EXCEPT ![p].subjects = {}]
  ELSE IF k = "outside" THEN [t EXCEPT ![p].text = "brain"]
  ELSE IF k = "delete" THEN [q \in DOMAIN t \ {p} |-> t[q]]
  ELSE IF k = "heal" THEN [t EXCEPT ![p].regions = [r \in DOMAIN @ |-> TRUE]]
  ELSE IF k = "add" THEN Put(t, Stray, [Blank EXCEPT !.text = "brain"])
  ELSE IF k = "foreign" THEN Put(t, Outside, [Blank EXCEPT !.text = "brain"])
  ELSE t
RogueRaw(r, k) ==
  IF k = "raw" THEN [e \in DOMAIN r |-> "forged"] ELSE r
RogueLog(l, k) == IF k = "log" THEN Append(l, 0) ELSE l

\* validate_author_diff: in a note asked for, only region bodies may differ.
SameOutsideRegions(a, b) ==
  /\ DOMAIN a.regions = DOMAIN b.regions
  /\ [a EXCEPT !.regions = b.regions] = b
\* (mutant) frontmatter and outside text of an asked note are not compared.
AuthorRejectedLoosely(r) ==
  r.log # log \/ r.raw # r.appliedRaw
    \/ \E p \in Changed(r.applied, r.wt) : p \notin DOMAIN r.asked \/ p \notin DOMAIN r.wt
AuthorRejected(r) ==
  \/ r.log # log
  \/ r.raw # r.appliedRaw
  \/ \E p \in Changed(r.applied, r.wt) :
       \/ p \notin DOMAIN r.asked
       \/ p \notin DOMAIN r.wt
       \/ r.applied[p].twice
       \/ ~SameOutsideRegions(r.applied[p], r.wt[p])
ResetProse(note, own) ==
  [note EXCEPT !.regions = [x \in DOMAIN @ |-> @[x] /\ x \notin own], !.pending = TRUE]
\* What was changed out of scope is checked out again, or removed if it was
\* added; a path the allowlist does not know is left to the final-diff gate.
Restored(r) ==
  LET kept == {p \in DOMAIN r.wt : ~AllowlistedPath(p)}
  IN [p \in DOMAIN r.applied \cup kept |->
        IF p \in kept THEN r.wt[p] ELSE r.applied[p]]
Degraded(r) ==
  LET t == Restored(r)
  IN [p \in DOMAIN t \cup DOMAIN r.asked |->
        IF p \in DOMAIN r.asked THEN ResetProse(r.applied[p], r.asked[p]) ELSE t[p]]
\* (mutant) the flag is dropped once this run's own regions are authored.
ClearWhenOwnAuthored(t, asked) ==
  [p \in DOMAIN t |->
     IF p \in DOMAIN asked /\ \A r \in asked[p] \cap DOMAIN t[p].regions : t[p].regions[r]
     THEN [t[p] EXCEPT !.pending = FALSE] ELSE t[p]]
\* _clear_body_status: the note as a whole decides, not this run's regions.
ClearBodyStatus(t, asked) ==
  [p \in DOMAIN t |->
     IF p \in DOMAIN asked /\ ~Unauthored(t[p]) THEN [t[p] EXCEPT !.pending = FALSE]
                                                ELSE t[p]]
-----------------------------------------------------------------------------
\* (mutant) the duplicate rule grades the engine's own notes only.
DuplicateInStamped(t, scope) ==
  {p \in scope : \E q \in scope \ {p} : q[2] = p[2] /\ q[1] = p[1]}
(* The lint, over what the curator ever stamped and what this run touched. *)
DuplicateBasename(t, scope) ==
  {p \in scope : \E q \in scope \ {p} : q[2] = p[2]}
BrokenLink(t, scope) == {p \in scope : ~(t[p].related \subseteq Names(t))}
Unsourced(t, scope) == {p \in scope : p[1] \in ConceptDirs /\ t[p].stamped /\ t[p].sources = {}}
MissingSource(t, scope, r) == {p \in scope : ~(t[p].sources \subseteq DOMAIN r)}
ContestedShape(t, scope, date) ==
  {p \in scope : /\ t[p].contested
                 /\ ~(/\ t[p].by # {}
                      /\ t[p].at = date
                      /\ Cardinality(t[p].sources) >= 2)}
\* (mutant) the journals of other days are held to this run's id too.
JournalShapeEver(t, scope, date, n) == {p \in scope : p[1] = "notes" /\ t[p].runId # n}
JournalShape(t, scope, date, n) ==
  {p \in scope : p[1] = "notes" /\ p[2] = date /\ t[p].runId # n}
SentinelShape(t, scope) == {p \in scope : t[p].twice}
Blamed(t, base, r, date, n) ==
  LET scope == {p \in CuratorPaths(base) \cup Changed(base, t) :
                  p \in DOMAIN t /\ ~IsPeople(p) /\ p # Outside}
  IN DuplicateBasename(t, scope) \cup BrokenLink(t, scope)
       \cup Unsourced(t, scope) \cup MissingSource(t, scope, r)
       \cup ContestedShape(t, scope, date) \cup JournalShape(t, scope, date, n)
       \cup SentinelShape(t, scope)

EngineWrittenRaw(r, e) == e \in r.rawWrites /\ e \in DOMAIN r.raw /\ r.raw[e] = "capture"
\* _assert_final_diff_allowlisted: the worktree against the base commit.
FinalDiffOk(r) ==
  /\ \A p \in Changed(r.baseTree, r.wt) : AllowlistedPath(p)
  /\ \A e \in Changed(raw, r.raw) : EngineWrittenRaw(r, e)
LogWithEntry(l, n) == Append(l, n)
-----------------------------------------------------------------------------
Init ==
  /\ tree = <<>> /\ raw = <<>> /\ log = <<>>
  /\ head = 0 /\ day = 1 /\ ran = 0
  /\ run = NoRun
  /\ last = [status |-> "none", blamed |-> {}, touched |-> {}, date |-> ""]
  /\ named = {}

Idle == run.stage = "none"
Fail(blamed, touched) ==
  /\ run' = NoRun
  /\ last' = [status |-> "failed", blamed |-> blamed, touched |-> touched,
            date |-> Dates[day]]

\* PASS 1, the gate and APPLY on a worktree of the branch tip.
StartRun ==
  /\ Idle /\ ran < Len(Batches)
  /\ ran' = ran + 1
  /\ \E plan \in Plans(Batches[ran + 1]) :
       LET batch == Batches[ran + 1]
           date == Dates[day]
           ok == /\ ValidPlan(plan, batch, tree, date)
                 /\ ~ApplyRaises(plan, tree, ran', batch, date)
           applied == ApplyPlan(plan, tree, ran', batch, date)
           writes == RawWrites(plan, batch)
       IN IF ~ok THEN Fail({}, {})
          ELSE /\ run' = [stage |-> "applied", base |-> head, baseTree |-> tree,
                          plan |-> plan, batch |-> batch, applied |-> applied, wt |-> applied,
                          appliedRaw |-> Materialized(raw, writes),
                          raw |-> Materialized(raw, writes), rawWrites |-> writes,
                          asked |-> AskedRegions(plan, tree, ran', date),
                          log |-> log, degraded |-> FALSE]
               /\ UNCHANGED last
  /\ UNCHANGED <<tree, raw, log, head, day, named>>

\* The brain fails, or writes some of the regions and one rogue edit.
AuthorFails ==
  /\ run.stage = "applied" /\ DOMAIN run.asked # {}
  /\ Fail({}, {})
  /\ UNCHANGED <<tree, raw, log, head, day, ran, named>>
Author ==
  /\ run.stage = "applied" /\ DOMAIN run.asked # {}
  /\ \E filled \in SUBSET UNION {{p} \X run.asked[p] : p \in DOMAIN run.asked},
        k \in Rogue, p \in DOMAIN run.wt :
       /\ k \in {"frontmatter", "outside", "delete", "heal"} \/ p \in DOMAIN run.asked
       /\ LET wt == RogueTree(Fill(run.applied, filled), p, k)
              r == [run EXCEPT !.wt = wt, !.raw = RogueRaw(@, k), !.log = RogueLog(@, k)]
              graded == IF AuthorRejected(r)
                        THEN [r EXCEPT !.wt = Degraded(r), !.log = log, !.degraded = TRUE]
                        ELSE r
          IN run' = [graded EXCEPT !.stage = "authored",
                                   !.wt = ClearBodyStatus(@, run.asked)]
  /\ UNCHANGED <<tree, raw, log, head, day, ran, last, named>>

\* Lint, the log entry, the final-diff gate, the commit and the CAS.
Publish ==
  /\ \/ run.stage = "authored"
     \/ run.stage = "applied" /\ DOMAIN run.asked = {}
  /\ LET blamed == Blamed(run.wt, run.baseTree, run.raw, Dates[day], ran)
         touched == Changed(run.baseTree, run.wt)
         content == {d \in run.plan : d.op \in ContentOps}
     IN IF blamed # {} \/ ~FinalDiffOk(run) \/ run.base # head
        THEN /\ Fail(blamed, touched)
             /\ UNCHANGED <<tree, raw, log, head, named>>
        ELSE /\ tree' = run.wt /\ raw' = run.raw
             /\ log' = LogWithEntry(run.log, ran)
             /\ head' = head + 1
             /\ run' = NoRun
             /\ last' = [status |-> "published", blamed |-> {}, touched |-> touched,
                          date |-> Dates[day]]
             /\ named' = named \cup UNION {Provenance(d, run.batch) : d \in content}
  /\ UNCHANGED <<day, ran>>

\* A person commits a hand-written note, possibly while a run is in flight.
HumanSave ==
  \E p \in HumanPaths \ DOMAIN tree :
    /\ tree' = Put(tree, p, [Blank EXCEPT !.text = "human"])
    /\ head' = head + 1
    /\ UNCHANGED <<raw, log, day, ran, run, last, named>>
NextDay ==
  /\ Idle /\ day < Len(Dates) /\ day' = day + 1
  /\ UNCHANGED <<tree, raw, log, head, ran, run, last, named>>

Next == StartRun \/ AuthorFails \/ Author \/ Publish \/ HumanSave \/ NextDay
Spec == Init /\ [][Next]_vars
-----------------------------------------------------------------------------
(* Properties.                                                             *)
Note(n) ==
  /\ {n.stamped, n.contested, n.twice, n.pending} \subseteq BOOLEAN
  /\ n.sources \subseteq Events /\ n.subjects \subseteq Domains
  /\ \A r \in DOMAIN n.regions : r[1] \in 1 .. ran /\ n.regions[r] \in BOOLEAN

\* The published tree, the raw store and the run in flight stay well formed.
TypeOK ==
  /\ \A p \in DOMAIN tree : p[1] \in PathSet /\ Note(tree[p])
  /\ DOMAIN raw \subseteq Events
  /\ day \in 1 .. Len(Dates) /\ ran \in 0 .. Len(Batches) /\ head \in Nat
  /\ run.stage \in {"none", "applied", "authored"}
  /\ last.status \in {"none", "failed", "published"}

Cited(e) == e \in DOMAIN raw /\ \E p \in DOMAIN tree : e \in tree[p].sources

\* Every capture of a candidate that a published plan filed stays cited by a
\* note and kept in raw/, whatever later runs do to the note it went to: the
\* journal that is appended to, the concept that is merged into or contested.
NamedCapturesStayCited == \A e \in named : Cited(e)

\* The raw store holds exactly what was captured: no brain ever rewrites it.
RawIsTheCapture == \A e \in DOMAIN raw : raw[e] = "capture"

\* What was captured and filed can be traced from the wiki to the words of the
\* capture, run after run.
CapturesStayCited == NamedCapturesStayCited /\ RawIsTheCapture

\* One basename names one note the engine wrote, although a plan may ask for
\* the name of today's journal or of a map that does not exist yet.
BasenamesUnique ==
  \A p, q \in CuratorPaths(tree) : p[2] = q[2] => p = q

\* A map lists exactly the concepts of its subject and the index every map.
MapsListTheirConcepts ==
  /\ \A p \in DOMAIN tree : p[1] = "maps" /\ tree[p].stamped =>
       tree[p].kids = {q[2] : q \in {c \in DOMAIN tree : c[1] \in ConceptDirs
                                                   /\ p[2] \in tree[c].subjects}}
  /\ Index \in DOMAIN tree =>
       {p[2] : p \in {q \in CuratorPaths(tree) : q[1] = "maps"}} \subseteq tree[Index].kids

\* The published tree is well formed: one note per name, under its maps.
TreeWellFormed == TypeOK /\ BasenamesUnique /\ MapsListTheirConcepts

\* body_status says pending exactly while some region of the note owes prose,
\* of this run or of an earlier one.
PendingIffUnauthored ==
  \A p \in CuratorPaths(tree) : tree[p].pending <=> Unauthored(tree[p])

\* A note that a gated capture is cited by was not created for it: some
\* capture that is not gated is cited there too.
GatedNeverOriginates ==
  \A p \in DOMAIN tree : tree[p].sources # {} => ~(tree[p].sources \subseteq Gated)

Publishes == run # NoRun /\ last'.status = "published" /\ run' = NoRun

\* What is published is what APPLY wrote, except for prose inside regions of
\* the notes the run asked for and their body_status; log.md gains the entry of
\* the run and no other.
AuthorConfined ==
  [][Publishes =>
       /\ log' = Append(log, ran)
       /\ DOMAIN tree' = DOMAIN run.applied
       /\ \A p \in DOMAIN tree' :
            IF p \in DOMAIN run.asked
            THEN SameOutsideRegions([run.applied[p] EXCEPT !.pending = tree'[p].pending], tree'[p])
            ELSE tree'[p] = run.applied[p]]_vars

\* A run whose author pass was rejected publishes APPLY's tree untouched,
\* placeholders and pending flags included.
RejectedPassUndone ==
  [][Publishes /\ run.degraded => tree' = run.applied]_vars

\* No run changes a note a person wrote, not even one that shares its basename
\* with a concept the plan merges into.  Journals, maps and the index are shared:
\* a run adds to the one it finds, whoever wrote it.
HumanNotesUntouched ==
  [][\A p \in DOMAIN tree :
       ~tree[p].stamped /\ p[1] \notin {"maps", "notes", "index"} => p \in DOMAIN tree' /\ tree'[p] = tree[p]]_vars

\* What a run may publish: APPLY's tree, prose where it was asked for, nothing of
\* a pass that was rejected and nothing in a note of a person.
RunConfined == AuthorConfined /\ RejectedPassUndone /\ HumanNotesUntouched

\* When lint refuses a run, one of the notes it names is a note the run wrote
\* (lint.py: the rules relative to a run are "scoped (see below) to THIS run's own
\* journal", for else a published note would "fail every subsequent run").
LintBlamesThisRun == last.blamed # {} => last.blamed \cap last.touched # {}

\* What the code keeps of that: of the notes a run did not write, only the journal of
\* its day and the concepts contested on another day can make it fail.
OldNotesBlamedInTwoCases ==
  LintBlamesThisRun \/
    \A p \in last.blamed :
      \/ p = <<"notes", last.date>>
      \/ tree[p].contested /\ tree[p].at # last.date
=============================================================================
