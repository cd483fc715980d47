------------------------------ MODULE Restamp ------------------------------
(***************************************************************************)
(* `agora repo upgrade --restamp`: an engine run without a brain that      *)
(* re-derives the source_links mirror of every curator note, recovers tags *)
(* from a vault, widens the taxonomy by them in the same commit, and       *)
(* publishes by a CAS.  It runs beside curator runs of the same and of     *)
(* another host, and beside an owner who edits and commits in the checkout.*)
(*                                                                         *)
(* A commit is a number; its tree holds the notes and the taxonomy.  The   *)
(* mirror of a note is fresh when it equals its sources.                   *)
(***************************************************************************)
EXTENDS Naturals, Sequences, FiniteSets

CONSTANTS
  Notes,       \* paths of the tree that may hold a note
  Tags,        \* the tags of the vault and of the taxonomy
  Procs,       \* processes that curate or restamp
  HostOf,      \* the host of a process: the lock is per host
  JobOf,       \* what a process runs: "restamp" or "curate"
  Trees,       \* the trees a run may start from
  Vaults,      \* the vaults tags may be recovered from
  MaxCommits   \* bound on the commits

\* A note with up to k versions of its sources, of its mirror and of its body.
NoteOf(k) ==
  [at : {"wiki", "_templates"}, kind : {"concept", "map"}, stamped : BOOLEAN,
   form : {"stable", "style", "fence", "bytes", "unparseable"},
   sources : 0 .. k, mirror : 0 .. k, tags : SUBSET (Tags \cup {"?"}), body : 0 .. k]
TaxonomyType ==
  [present : BOOLEAN, known : BOOLEAN, allowed : SUBSET Tags,
   policy : {"open", "review-only", "capped:1", "unreadable"}]
ASSUME TreeAssumption ==
  /\ IsFiniteSet(Tags) /\ MaxCommits \in Nat \ {0}
  /\ JobOf \in [Procs -> {"restamp", "curate"}]
  /\ Trees \subseteq [notes : [Notes -> NoteOf(1)], taxonomy : TaxonomyType]

VARIABLES
  commits,     \* sequence of [parent, tree, by, tagged]
  tip,         \* the curated branch
  live,        \* the owner's checkout
  vault,       \* the files of the vault: [keys, tags, structural]
  proc,        \* process -> [stage, base, taxonomy, tagged, tree]
  report       \* what the last step reported

vars == <<commits, tip, live, vault, proc, report>>
TreeOf(c) == commits[c].tree
MayCommit == Len(commits) < MaxCommits
-----------------------------------------------------------------------------
(* The tag source: vault_tags.py.  A file answers to its stem and its slug. *)
Hits(n) == {f \in vault : n \in f.keys /\ ~f.structural}
ValidTags(tags) == tags \subseteq Tags
Lookup(n) ==
  LET hits == Hits(n)
      file == CHOOSE f \in hits : TRUE
  IN IF Cardinality(hits) # 1
     THEN [status |-> IF hits = {} THEN "unmatched" ELSE "ambiguous", tags |-> {}]
     ELSE [status |-> IF file.tags = {} THEN "no-tags" ELSE "matched", tags |-> file.tags]
Usable(match) == match.status = "matched" /\ ValidTags(match.tags) /\ match.tags # {}

(* The plan: a pure function of a tree and a tag source.                    *)
\* scan_live_tree: notes under wiki/ only, whatever kind a template declares.
Scanned(note) == note.at = "wiki"
Malformed(tree) ==
  \E n \in Notes : LET x == tree.notes[n]
                   IN Scanned(x) /\ x.stamped /\ x.form = "unparseable"
\* render(parse(text)): the layout of the block is lost, and blank lines after
\* the fence are counted to the body.
Rendered(note) ==
  [note EXCEPT !.form = "stable", !.body = IF note.form = "fence" THEN 0 ELSE @]
RoundTrips(note) == note.form \notin {"bytes", "unparseable"} /\ Rendered(note) = note
Planned(note) ==
  Scanned(note) /\ note.kind = "concept" /\ note.stamped /\ RoundTrips(note)
StampSourceLinks(note) == [note EXCEPT !.mirror = note.sources]
\* (mutant) recovered tags are added to the note's own, one run at a time.
PlanNoteLastTag(note, match) ==
  LET new == match.tags \ note.tags
  IN [StampSourceLinks(Rendered(note)) EXCEPT !.tags =
        IF Usable(match) /\ new # {} THEN @ \cup {CHOOSE t \in new : TRUE} ELSE @]
PlanNote(note, match) ==
  [StampSourceLinks(Rendered(note)) EXCEPT !.tags = IF Usable(match) THEN match.tags ELSE @]

PolicyAllows(policy, added) ==
  \/ added = {} \/ policy = "open"
  \/ policy = "capped:1" /\ Cardinality(added) <= 1
Answer(n, tagged) == IF tagged THEN Lookup(n) ELSE [status |-> "none", tags |-> {}]
\* (mutant) the taxonomy is rendered from the recovered tags alone.
MergeFresh(allowed, recovered) == IF recovered = {} THEN allowed ELSE recovered
\* allowed_tags widened by the recovered tags, its own ones kept.
MergeAllowedTags(allowed, recovered) == allowed \cup recovered
Plan(tree, tagged) ==
  LET planned == {n \in Notes : Planned(tree.notes[n])}
      recovered == UNION {Lookup(n).tags :
                            n \in {m \in planned : tagged /\ Usable(Lookup(m))}}
      allowed == MergeAllowedTags(tree.taxonomy.allowed, recovered)
      added == allowed \ tree.taxonomy.allowed
  IN [notes   |-> [n \in Notes |-> IF n \in planned
                                   THEN PlanNote(tree.notes[n], Answer(n, tagged))
                                   ELSE tree.notes[n]],
      allowed |-> allowed,
      reasons |-> IF added = {} THEN {}
                  ELSE (IF tree.taxonomy.present THEN {} ELSE {"missing"})
                       \cup (IF tree.taxonomy.known THEN {} ELSE {"unrecognized"})
                       \cup (IF PolicyAllows(tree.taxonomy.policy, added) THEN {}
                             ELSE {"policy"})]
Changed(tree, plan) == plan.notes # tree.notes \/ plan.allowed # tree.taxonomy.allowed

(* The gates on what was planned.                                          *)
FrontmatterOnly(old, new) ==
  /\ new.body = old.body
  /\ [new EXCEPT !.mirror = old.mirror, !.tags = old.tags, !.form = old.form] = old
\* The lint of the worktree: the tags of every stamped or touched note.
LintOk(tree, plan, allowed) ==
  \A n \in Notes :
    LET new == plan.notes[n]
    IN Scanned(new) /\ (new.stamped \/ new # tree.notes[n]) /\ new.form # "bytes"
         => new.tags \subseteq allowed
\* The diff touches allowlisted paths, and the taxonomy the run computed.
DiffOk(tree, plan) == \A n \in Notes : plan.notes[n] # tree.notes[n] => Scanned(tree.notes[n])
Refused(tree, plan, allowed) ==
  \/ plan.reasons # {}
  \/ \E n \in Notes : ~FrontmatterOnly(tree.notes[n], plan.notes[n])
  \/ ~LintOk(tree, plan, allowed)
  \/ ~DiffOk(tree, plan)
-----------------------------------------------------------------------------
Idle == [stage |-> "idle", base |-> 0, allowed |-> {}, tagged |-> FALSE, tree |-> 0]
Nothing == <<>>
Init ==
  /\ \E t \in Trees : commits = <<[parent |-> 0, tree |-> t, by |-> "init",
                                     tagged |-> FALSE]>>
  /\ tip = 1
  /\ live = TreeOf(1)
  /\ vault \in Vaults
  /\ proc = [p \in Procs |-> Idle]
  /\ report = Nothing
Say(status) == report' = <<status>>

\* The face reads the taxonomy from the checkout, before any lock.
Invoke(p) ==
  /\ JobOf[p] = "restamp" /\ proc[p].stage = "idle" /\ MayCommit
  /\ \E tagged \in BOOLEAN :
       proc' = [proc EXCEPT ![p] = [Idle EXCEPT !.stage = "called", !.tagged = tagged,
                                                !.allowed = live.taxonomy.allowed]]
  /\ report' = Nothing
  /\ UNCHANGED <<commits, tip, live, vault>>
\* --dry-run: a plan of the checkout, and a warning when that is not the tip.
Preview(p) ==
  /\ proc[p].stage = "called"
  /\ report' = <<IF live # TreeOf(tip) THEN "preview, may differ" ELSE "preview",
                 proc[p].tagged, Plan(live, proc[p].tagged)>>
  /\ proc' = [proc EXCEPT ![p] = Idle]
  /\ UNCHANGED <<commits, tip, live, vault>>
Locked(p) == \E q \in Procs \ {p} : HostOf[q] = HostOf[p] /\ proc[q].stage = "locked"
LockHeld(p) ==
  /\ proc[p].stage = "called" /\ Locked(p)
  /\ Say("lock held")
  /\ proc' = [proc EXCEPT ![p] = Idle]
  /\ UNCHANGED <<commits, tip, live, vault>>
\* Under the lock: worktree of the tip, plan, gates, and the commit to publish.
Prepare(p) ==
  /\ proc[p].stage = "called" /\ ~Locked(p)
  /\ LET base == TreeOf(tip)
         plan == Plan(base, proc[p].tagged)
         \* graded by the taxonomy the commit leaves, when it writes one
         allowed == IF plan.allowed # base.taxonomy.allowed THEN plan.allowed
                    ELSE proc[p].allowed
         refuse(status) == /\ Say(status)
                           /\ proc' = [proc EXCEPT ![p] = Idle]
     IN IF ~Malformed(base) /\ plan.reasons = {} /\ ~Changed(base, plan) THEN refuse("noop")
        ELSE IF Malformed(base) \/ Refused(base, plan, allowed) THEN refuse("refused")
        ELSE /\ proc' = [proc EXCEPT ![p].stage = "locked", ![p].base = tip, ![p].tree =
                  [base EXCEPT !.notes = plan.notes, !.taxonomy.allowed = plan.allowed]]
             /\ report' = Nothing
  /\ UNCHANGED <<commits, tip, live, vault>>
\* A curator run that starts: its plan adds a version of one concept note.
CurateBegin(p, n) ==
  /\ JobOf[p] = "curate" /\ proc[p].stage = "idle" /\ ~Locked(p) /\ MayCommit
  /\ LET base == TreeOf(tip)
         old == base.notes[n]
     IN /\ Planned(old)
        /\ proc' = [proc EXCEPT ![p] = [Idle EXCEPT
             !.stage = "locked", !.base = tip,
             !.tree = [base EXCEPT !.notes[n] =
               StampSourceLinks([old EXCEPT !.body = 1 + @, !.sources = 1 + @])]]]
  /\ report' = Nothing
  /\ UNCHANGED <<commits, tip, live, vault>>

\* The checkout follows the branch unless its owner has changed a file.
SyncFrom(old, new) == IF live = old THEN new ELSE live
Committed(c, tree, by, tagged) ==
  Append(commits, [parent |-> c, tree |-> tree, by |-> by, tagged |-> tagged])
\* (mutant) the branch is set to the commit, whatever it points at.
PublishAnyway(p) ==
  /\ proc[p].stage = "locked" /\ MayCommit
  /\ commits' = Committed(proc[p].base, proc[p].tree, JobOf[p], proc[p].tagged)
  /\ tip' = Len(commits')
  /\ live' = SyncFrom(TreeOf(tip), proc[p].tree)
  /\ Say("published")
  /\ proc' = [proc EXCEPT ![p] = Idle]
  /\ UNCHANGED vault
Publish(p) ==
  /\ proc[p].stage = "locked" /\ tip = proc[p].base /\ MayCommit
  /\ commits' = Committed(proc[p].base, proc[p].tree, JobOf[p], proc[p].tagged)
  /\ tip' = Len(commits')
  /\ live' = SyncFrom(TreeOf(tip), proc[p].tree)
  /\ Say("published")
  /\ proc' = [proc EXCEPT ![p] = Idle]
  /\ UNCHANGED vault
Conflict(p) ==
  /\ proc[p].stage = "locked" /\ tip # proc[p].base
  /\ Say("conflict")
  /\ proc' = [proc EXCEPT ![p] = Idle]
  /\ UNCHANGED <<commits, tip, live, vault>>
Crash(p) ==
  /\ proc[p].stage # "idle"
  /\ proc' = [proc EXCEPT ![p] = Idle]
  /\ report' = Nothing
  /\ UNCHANGED <<commits, tip, live, vault>>

(* The owner: declares a tag, or edits a note, and commits what he has.     *)
OwnerDeclares ==
  /\ \E t \in Tags \ live.taxonomy.allowed :
       live' = [live EXCEPT !.taxonomy.allowed = @ \cup {t}]
  /\ live = TreeOf(tip) /\ MayCommit
  /\ report' = Nothing
  /\ UNCHANGED <<commits, tip, vault, proc>>
OwnerEdits(n) ==
  /\ live = TreeOf(tip) /\ MayCommit /\ live.notes[n].form # "unparseable"
  /\ live' = [live EXCEPT !.notes[n].body = 1 + @, !.notes[n].sources = 1 + @]
  /\ report' = Nothing
  /\ UNCHANGED <<commits, tip, vault, proc>>
OwnerCommits ==
  /\ live # TreeOf(tip) /\ MayCommit
  /\ commits' = Committed(tip, live, "owner", FALSE)
  /\ tip' = Len(commits')
  /\ report' = Nothing
  /\ UNCHANGED <<live, vault, proc>>

Next ==
  \/ \E p \in Procs :
       \/ Invoke(p) \/ Preview(p) \/ LockHeld(p) \/ Prepare(p)
       \/ \E n \in Notes : CurateBegin(p, n)
       \/ Publish(p) \/ Conflict(p) \/ Crash(p)
  \/ OwnerDeclares \/ (\E n \in Notes : OwnerEdits(n)) \/ OwnerCommits
Spec == Init /\ [][Next]_vars
-----------------------------------------------------------------------------
(* Properties.                                                             *)
NoteType == NoteOf(MaxCommits + 1)
TypeOK ==
  /\ tip \in 1 .. Len(commits)
  /\ live.notes \in [Notes -> NoteType]
  /\ \A c \in 1 .. Len(commits) :
       TreeOf(c).notes \in [Notes -> NoteType] /\ TreeOf(c).taxonomy.allowed \subseteq Tags

Restamps(c) == commits[c].by = "restamp"
Old(c) == TreeOf(commits[c].parent)

\* What another host, or the owner, put on the branch is never published away:
\* every commit of the branch builds on the one before it.
NoCommitLost == [][tip' # tip => commits'[tip'].parent = tip]_vars

\* A restamp commit changes the mirror and the tags of curator notes and nothing
\* else of any note: not a body, not the layout of a block, not a human's note.
OnlyFrontmatter ==
  \A c \in 1 .. Len(commits) : Restamps(c) =>
    \A n \in Notes :
      LET old == Old(c).notes[n]
          new == TreeOf(c).notes[n]
      IN new # old => /\ old.stamped /\ old.at = "wiki" /\ old.kind = "concept"
                      /\ new = [old EXCEPT !.mirror = old.sources, !.tags = new.tags]

\* A recovered tag and its declaration land in one commit (restamp.py: "could
\* not land in the same commit as their first use"), and no declaration is lost.
TagsDeclared ==
  \A c \in 1 .. Len(commits) : Restamps(c) =>
    /\ Old(c).taxonomy.allowed \subseteq TreeOf(c).taxonomy.allowed
    /\ \A n \in Notes : TreeOf(c).notes[n].tags # Old(c).notes[n].tags
                          => TreeOf(c).notes[n].tags \subseteq TreeOf(c).taxonomy.allowed

\* A taxonomy under review is widened by its owner and by nobody else.
ReviewedTaxonomyKept ==
  \A c \in 1 .. Len(commits) :
    Restamps(c) /\ Old(c).taxonomy.policy # "open" =>
      \/ TreeOf(c).taxonomy = Old(c).taxonomy
      \/ /\ Old(c).taxonomy.policy = "capped:1"
         /\ Cardinality(TreeOf(c).taxonomy.allowed \ Old(c).taxonomy.allowed) = 1

\* What a restamp commit may change, and what it must change together.
RestampConfined == TypeOK /\ OnlyFrontmatter /\ TagsDeclared /\ ReviewedTaxonomyKept

\* Run again on what it published, with the vault it used, a restamp has nothing
\* to do.
RestampConverges ==
  \A c \in 1 .. Len(commits) :
    Restamps(c) => ~Changed(TreeOf(c), Plan(TreeOf(c), commits[c].tagged))

\* A preview without a warning shows the plan the real run would make.
PreviewIsPlan ==
  Len(report) = 3 /\ report[1] = "preview" => report[3] = Plan(TreeOf(tip), report[2])

\* A restamp may be previewed before it and repeated after it.
RestampRepeats == RestampConverges /\ PreviewIsPlan
=============================================================================
