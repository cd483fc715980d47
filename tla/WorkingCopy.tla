---------------------------- MODULE WorkingCopy ----------------------------
(***************************************************************************)
(* What happens around a publish in the owner's checkout: the CAS moves    *)
(* the branch HEAD tracks, the sync brings index and files up to it, the   *)
(* reader cache and the gold pack are rebuilt from the files, and a backup *)
(* push sends the tip to a remote.  All of it beside an owner who edits,   *)
(* stages and commits, and with a crash of the curator at any point.       *)
(*                                                                         *)
(* A commit is a number; its tree maps a note to a version, 0 if it has    *)
(* none.  The curator's version of a note is the number of its commit, the *)
(* owner's is above Typed.  A parse of a note, and its line in a pack, are *)
(* identified with the version they were made from.                        *)
(***************************************************************************)
EXTENDS Naturals, Sequences, FiniteSets

CONSTANTS
  Notes,        \* the notes of the tree
  MaxCommits,   \* bound on the commits, the remote's foreign ones included
  MaxEdits,     \* bound on the owner's edits
  Habits        \* what the owner does: subset of {"stage", "commit", "detach"}

VARIABLES
  commits,      \* commit -> [parent, tree]
  tip,          \* the curated branch
  head,         \* 0 when HEAD is attached to the curated branch, else a commit
  index, work,  \* git's index and the files of the main working copy
  typed,        \* the number of versions the owner has written
  lagged,       \* history: HEAD was detached while a file lagged behind it
  run,          \* the curator's process
  published,    \* some run's manifest says published or finalized
  synced,       \* the outcome of the last sync
  build,        \* the commit the builder of a cache or a pack has read
  cache,        \* _kb/index/<repo>.notes.json
  pack, meta,   \* _kb/gold/<pack>.md and its sidecar
  remote,       \* the backup remote's branch, 0 if it has none
  push,         \* the push in flight: the tip it read, or 0
  backup        \* _kb/backup.json

git == <<commits, tip, head>>
files == <<index, work>>
derived == <<build, cache, pack, meta>>
backups == <<remote, push, backup>>
owner == <<typed, lagged>>
vars == <<git, files, owner, run, published, synced, derived, backups>>

Typed == 100
Versions == 1 .. MaxCommits \cup Typed .. Typed + MaxEdits
ASSUME VersionsAssumption ==
  MaxCommits \in Nat \ {0} /\ MaxCommits < Typed /\ MaxEdits \in Nat
HeadCommit == IF head = 0 THEN tip ELSE head
TreeOf(c) == commits[c].tree
\* The history of a commit: what every set holds that holds the commit and, with
\* a commit, its parent; 0 is the empty history.
Reach(c) ==
  LET closed == {S \in SUBSET (0 .. Len(commits)) :
                   \A d \in S \ {0} : commits[d].parent \in S}
  IN {b \in 0 .. Len(commits) : \A S \in closed : c \in S => b \in S}
Committed == {TreeOf(c)[n] : c \in 1 .. Len(commits), n \in Notes}
WithCommit(parent, tree) == Append(commits, [parent |-> parent, tree |-> tree])
\* The bound on the commits, less the one a run has begun.
MayCommit == Len(commits) + (IF run.stage = "commit" THEN 1 ELSE 0) < MaxCommits
-----------------------------------------------------------------------------
(* The two git operations of sync_to_branch.  Both are all or nothing.     *)
\* merge --ff-only, and a branch switch: a two-way merge from the tree of HEAD.
TwoWayOk(from, to) ==
  \A n \in Notes : from[n] # to[n] =>
    index[n] = to[n] \/ (index[n] = from[n] /\ work[n] = index[n])
TwoWay(from, to) ==
  LET moves(n) == from[n] # to[n] /\ index[n] # to[n]
  IN [index |-> [n \in Notes |-> IF moves(n) THEN to[n] ELSE index[n]],
      work  |-> [n \in Notes |-> IF moves(n) THEN to[n] ELSE work[n]]]
\* read-tree -m -u with one tree: only the index is compared with it, and a
\* file that equals its index entry is up to date, whatever HEAD says.
\* (mutant) the one-tree read resets instead of merging.
OneTreeResets(to) == TRUE
OneTreeOk(to) == \A n \in Notes : index[n] # to[n] => work[n] = index[n]
OneTree(to) ==
  [index |-> to, work |-> [n \in Notes |-> IF index[n] # to[n] THEN to[n] ELSE work[n]]]

SyncOk ==
  IF HeadCommit # tip
  THEN head \in Reach(tip) /\ TwoWayOk(TreeOf(head), TreeOf(tip))
  ELSE OneTreeOk(TreeOf(tip))
Sync ==
  IF SyncOk
  THEN LET to == IF HeadCommit # tip THEN TwoWay(TreeOf(head), TreeOf(tip))
                                     ELSE OneTree(TreeOf(tip))
       IN /\ index' = to.index /\ work' = to.work
          /\ head' = IF HeadCommit # tip THEN tip ELSE head
          /\ synced' = TRUE
  ELSE /\ synced' = FALSE
       /\ UNCHANGED <<head, index, work>>
-----------------------------------------------------------------------------
Init ==
  /\ commits = <<[parent |-> 0, tree |-> [n \in Notes |-> 1]]>>
  /\ tip = 1 /\ head = 0
  /\ index = TreeOf(1) /\ work = TreeOf(1)
  /\ typed = 0 /\ lagged = FALSE
  /\ run = [stage |-> "idle", base |-> 0]
  /\ published = FALSE /\ synced = TRUE
  /\ build = 0
  /\ cache = [commit |-> 0, notes |-> [n \in Notes |-> 0]]
  /\ pack = [commit |-> 0, notes |-> [n \in Notes |-> 0]]
  /\ meta = 0
  /\ remote = 0 /\ push = 0
  /\ backup = [ok |-> TRUE, commit |-> 0]

(* The owner. *)
Edit(n) ==
  /\ typed < MaxEdits
  /\ typed' = typed + 1
  /\ work' = [work EXCEPT ![n] = Typed + typed']
  /\ UNCHANGED <<git, index, lagged, run, published, synced, derived, backups>>
Stage(n) ==
  /\ "stage" \in Habits /\ index[n] # work[n]
  /\ index' = [index EXCEPT ![n] = work[n]]
  /\ UNCHANGED <<git, work, owner, run, published, synced, derived, backups>>
\* git restore: the file as it is in the index.
Revert(n) ==
  /\ index[n] # work[n]
  /\ work' = [work EXCEPT ![n] = index[n]]
  /\ UNCHANGED <<git, index, owner, run, published, synced, derived, backups>>
\* git commit -a, by hand or as the admin commit of `agora repo init`.
OwnerCommit ==
  /\ "commit" \in Habits /\ MayCommit /\ work # TreeOf(HeadCommit)
  /\ index' = work
  /\ commits' = WithCommit(HeadCommit, work)
  /\ IF head = 0 THEN tip' = Len(commits') /\ UNCHANGED head
                 ELSE head' = Len(commits') /\ UNCHANGED tip
  /\ UNCHANGED <<work, owner, run, published, synced, derived, backups>>
\* git checkout of a commit, and back to the curated branch.
Lags(n) == index[n] < Typed /\ index[n] # TreeOf(tip)[n]
Detach ==
  /\ "detach" \in Habits /\ head = 0
  /\ head' = tip
  /\ lagged' = (lagged \/ \E n \in Notes : Lags(n))
  /\ UNCHANGED <<commits, tip, files, typed, run, published, synced, derived, backups>>
Attach ==
  /\ head # 0 /\ TwoWayOk(TreeOf(head), TreeOf(tip))
  /\ LET to == TwoWay(TreeOf(head), TreeOf(tip))
     IN index' = to.index /\ work' = to.work
  /\ head' = 0
  /\ UNCHANGED <<commits, tip, owner, run, published, synced, derived, backups>>
-----------------------------------------------------------------------------
(* A curator run: base, worktree commit and CAS, sync, derived tiers. *)
RunBegin ==
  /\ run.stage = "recovered" /\ MayCommit
  /\ run' = [stage |-> "commit", base |-> tip]
  /\ UNCHANGED <<git, files, owner, published, synced, derived, backups>>
Publish(n) ==
  /\ run.stage = "commit"
  /\ commits' = WithCommit(run.base, [TreeOf(run.base) EXCEPT ![n] = Len(commits) + 1])
  /\ IF tip = run.base
     THEN /\ tip' = Len(commits') /\ published' = TRUE
          /\ run' = [run EXCEPT !.stage = "sync"]
     ELSE /\ run' = [run EXCEPT !.stage = "idle"]
          /\ UNCHANGED <<tip, published>>
  /\ UNCHANGED <<head, files, owner, synced, derived, backups>>
\* Unsynced, both derived tiers are left alone.
RunSync ==
  /\ run.stage = "sync" /\ Sync
  /\ run' = [run EXCEPT !.stage = IF synced' THEN "cache" ELSE "idle"]
  /\ UNCHANGED <<commits, tip, owner, published, derived, backups>>
RunCrash ==
  /\ run.stage # "idle"
  /\ run' = [run EXCEPT !.stage = "idle"]
  /\ UNCHANGED <<git, files, owner, published, synced, derived, backups>>
\* (mutant) recovery finalizes a run and leaves the working copy alone.
RecoverNoSync ==
  /\ run.stage \in {"idle", "recovered"}
  /\ run' = [run EXCEPT !.stage = "recovered"]
  /\ UNCHANGED <<git, files, owner, published, synced, derived, backups>>
\* Every tick recovers before it runs: recover() walks the published manifests
\* and syncs again for each.
Recover ==
  /\ run.stage \in {"idle", "recovered"}
  /\ IF published THEN Sync ELSE UNCHANGED <<head, files, synced>>
  /\ run' = [run EXCEPT !.stage = "recovered"]
  /\ UNCHANGED <<commits, tip, owner, published, derived, backups>>
-----------------------------------------------------------------------------
(* build_cache and build_gold: the tip is read first, then the files.      *)
CacheBegin ==
  /\ run.stage = "cache"
  /\ run' = [run EXCEPT !.stage = "caching"] /\ build' = tip
  /\ UNCHANGED <<git, files, owner, published, synced, cache, pack, meta, backups>>
CacheWrite ==
  /\ run.stage = "caching"
  /\ cache' = [commit |-> build, notes |-> work]
  /\ run' = [run EXCEPT !.stage = "gold"]
  /\ UNCHANGED <<git, files, owner, published, synced, build, pack, meta, backups>>
GoldBegin ==
  /\ run.stage = "gold"
  /\ run' = [run EXCEPT !.stage = "packing"] /\ build' = tip
  /\ UNCHANGED <<git, files, owner, published, synced, cache, pack, meta, backups>>
PackWrite ==
  /\ run.stage = "packing"
  /\ pack' = [commit |-> build, notes |-> work]
  /\ run' = [run EXCEPT !.stage = "meta"]
  /\ UNCHANGED <<git, files, owner, published, synced, build, cache, meta, backups>>
MetaWrite ==
  /\ run.stage = "meta"
  /\ meta' = build
  /\ run' = [run EXCEPT !.stage = "idle"]
  /\ UNCHANGED <<git, files, owner, published, synced, build, cache, pack, backups>>

\* The reader: the cache is used at its own commit only, and an entry only for
\* the bytes it was parsed from; every other file is parsed.
CacheUsable == cache.commit = tip
\* (mutant) an entry of a usable cache is trusted without its digest.
LoadedTrusting(n) == IF CacheUsable THEN cache.notes[n] ELSE work[n]
Loaded(n) == IF CacheUsable /\ cache.notes[n] = work[n] THEN cache.notes[n] ELSE work[n]
-----------------------------------------------------------------------------
(* The backup: the tip is resolved, then exactly that commit is pushed.    *)
PushBegin ==
  /\ push = 0 /\ push' = tip
  /\ UNCHANGED <<git, files, owner, run, published, synced, derived, remote, backup>>
\* (mutant) the branch name is pushed, and the commit read before is recorded.
PushEndByName ==
  /\ push # 0 /\ push' = 0
  /\ IF remote \in Reach(tip)
     THEN remote' = tip /\ backup' = [ok |-> TRUE, commit |-> push]
     ELSE backup' = [ok |-> FALSE, commit |-> 0] /\ UNCHANGED remote
  /\ UNCHANGED <<git, files, owner, run, published, synced, derived>>
PushEnd ==
  /\ push # 0 /\ push' = 0
  /\ IF remote \in Reach(push)
     THEN remote' = push /\ backup' = [ok |-> TRUE, commit |-> push]
     ELSE backup' = [ok |-> FALSE, commit |-> 0] /\ UNCHANGED remote
  /\ UNCHANGED <<git, files, owner, run, published, synced, derived>>
\* The push fails or times out; whether the remote took it is not known.
PushFails ==
  /\ push # 0 /\ push' = 0
  /\ remote' \in {remote} \cup (IF remote \in Reach(push) THEN {push} ELSE {})
  /\ backup' = [ok |-> FALSE, commit |-> 0]
  /\ UNCHANGED <<git, files, owner, run, published, synced, derived>>
\* Another machine pushes its own commit to the remote.
ForeignPush ==
  /\ remote # 0 /\ MayCommit
  /\ commits' = WithCommit(remote, TreeOf(remote))
  /\ remote' = Len(commits')
  /\ UNCHANGED <<tip, head, files, owner, run, published, synced, derived, push, backup>>
-----------------------------------------------------------------------------
OwnerStep ==
  \/ \E n \in Notes : Edit(n) \/ Stage(n) \/ Revert(n)
  \/ OwnerCommit \/ Detach \/ Attach
BuildStep == CacheBegin \/ CacheWrite \/ GoldBegin \/ PackWrite \/ MetaWrite
RunStep == RunBegin \/ (\E n \in Notes : Publish(n)) \/ RunSync
PushStep == PushBegin \/ PushEnd \/ PushFails \/ ForeignPush
Next ==
  \/ OwnerStep
  \/ RunStep \/ RunCrash \/ Recover
  \/ BuildStep
  \/ PushStep
Spec == Init /\ [][Next]_vars
\* The scheduler recovers before every run, and a run that was started goes on.
Fairness ==
  /\ SF_vars(Recover)
  /\ WF_vars(RunSync \/ \E n \in Notes : Publish(n))
  /\ WF_vars(BuildStep)
FairSpec == Spec /\ Fairness
-----------------------------------------------------------------------------
(* Properties.                                                             *)
Stages == {"idle", "recovered", "commit", "sync", "cache", "caching", "gold", "packing", "meta"}
HistoryOK == commits \in Seq([parent : Nat, tree : [Notes -> Versions]])
TypeOK ==
  /\ HistoryOK
  /\ Len(commits) \in 1 .. MaxCommits /\ (run.stage = "commit" => Len(commits) < MaxCommits)
  /\ tip \in 1 .. Len(commits) /\ head \in 0 .. Len(commits)
  /\ index \in [Notes -> Versions] /\ work \in [Notes -> Versions]
  /\ typed \in 0 .. MaxEdits /\ lagged \in BOOLEAN
  /\ run \in [stage : Stages, base : 0 .. Len(commits)] /\ (run.stage = "commit" => run.base # 0)
  /\ build \in 0 .. Len(commits) /\ pack.commit \in 0 .. Len(commits)
  /\ remote \in 0 .. Len(commits) /\ push \in 0 .. Len(commits)

Uncommitted(n) == work[n] >= Typed /\ work[n] \notin Committed

\* No sync or checkout takes away what the owner typed and did not commit
\* (repo.py: "never-clobber guarantee"), unless he has staged it: while HEAD is at
\* the tip git compares a file with the index alone.
OwnerEditsKept ==
  [][\A n \in Notes : Uncommitted(n) /\ work'[n] # work[n] =>
       \/ typed' # typed \/ Revert(n)
       \/ index[n] = work[n] /\ HeadCommit = tip]_vars

\* A sync is refused only because of the owner: a file he changed and did not
\* commit, or a HEAD he detached.
RefusalIsTheOwners ==
  [][(synced' = FALSE /\ synced) =>
       (\E n \in Notes : Uncommitted(n)) \/ head # 0]_vars

\* A run that synced the branch HEAD is on leaves every file at the published
\* version, the owner's uncommitted ones excepted.
SyncMaterializes ==
  [][(run.stage = "sync" /\ run'.stage = "cache" /\ head = 0) =>
       \A n \in Notes : work'[n] = TreeOf(tip)[n] \/ Uncommitted(n)]_vars

\* A sync brings every file to the tip but the owner's own, which it never takes,
\* and fails for no other reason.
SyncIsExact == OwnerEditsKept /\ SyncMaterializes /\ RefusalIsTheOwners

\* Whatever the cache holds, a query reads the files as a full scan would.
QueryIsFullScan == \A n \in Notes : Loaded(n) = work[n]

\* A pack that counts as fresh holds the notes of the tip, or the owner's own
\* version of them: never what an earlier commit held.  A HEAD that was detached
\* before its files had caught up is excepted: git takes an index that lags behind
\* HEAD for staged, and a fast-forward keeps it.
FreshPackIsNotStale ==
  (meta = tip /\ pack.commit = tip /\ ~lagged) =>
     \A n \in Notes : pack.notes[n] = TreeOf(tip)[n] \/ pack.notes[n] >= Typed

\* Nothing derived is read at a commit it was not derived from.
DerivedIsCurrent == TypeOK /\ QueryIsFullScan /\ FreshPackIsNotStale

\* The backup never rewrites the remote: it only ever extends.
RemoteOnlyExtends == [][remote' # remote => remote \in Reach(remote)']_vars

\* The commit a successful push reports is the one the remote then points to,
\* although the branch may have moved since it was read.
ReportedIsPushed ==
  [][push # 0 /\ push' = 0 /\ backup'.ok => remote' = backup'.commit]_vars

\* The backup is what it says it is, and keeps what it was.
BackupIsTrue == RemoteOnlyExtends /\ ReportedIsPushed

\* Once owner and runs stop, the files come to show the tip, unless the owner
\* left an uncommitted file or moved HEAD away.
ReadersCatchUp ==
  <>[](\/ work = TreeOf(tip)
       \/ \E n \in Notes : Uncommitted(n)
       \/ head # 0)
=============================================================================
