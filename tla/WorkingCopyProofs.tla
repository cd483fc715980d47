------------------------- MODULE WorkingCopyProofs -------------------------
(***************************************************************************)
(* The owner's checkout, for any notes, habits and numbers of commits and  *)
(* edits: a sync takes no edit of his, brings all else to the tip, and     *)
(* what is derived from the files afterwards is not of an older commit.    *)
(***************************************************************************)
EXTENDS WorkingCopy, TLAPS

USE VersionsAssumption
    DEF git, files, derived, backups, owner, Typed, HeadCommit, TreeOf

(* What the git operations do to one note.                                 *)
Moved(n, from, to) ==
    /\ from[n] # to[n] /\ index[n] = from[n] /\ work[n] = from[n]
    /\ index'[n] = to[n] /\ work'[n] = to[n]
Kept(n, from, to) ==
    /\ index'[n] = index[n] /\ work'[n] = work[n]
    /\ from[n] = to[n] \/ index[n] = to[n]
Refreshed(n, to) ==
    /\ index'[n] = to[n]
    /\ \/ index[n] = to[n] /\ work'[n] = work[n]
       \/ work[n] = index[n] /\ work'[n] = to[n]

LEMMA TwoWayEffect ==
    ASSUME NEW from, NEW to, TwoWayOk(from, to),
           index' = TwoWay(from, to).index, work' = TwoWay(from, to).work,
           NEW n \in Notes
    PROVE  Moved(n, from, to) \/ Kept(n, from, to)
  BY DEF TwoWayOk, TwoWay, Moved, Kept

LEMMA OneTreeEffect ==
    ASSUME NEW to, OneTreeOk(to), index' = OneTree(to).index, work' = OneTree(to).work,
           NEW n \in Notes
    PROVE  Refreshed(n, to)
  BY DEF OneTreeOk, OneTree, Refreshed

\* The three outcomes of a sync.
SyncRefused ==
    synced' = FALSE /\ ~SyncOk /\ UNCHANGED <<head, index, work>>
SyncForward ==
    /\ synced' = TRUE /\ head # 0 /\ head # tip /\ head' = tip
    /\ \A n \in Notes : Moved(n, TreeOf(head), TreeOf(tip))
                          \/ Kept(n, TreeOf(head), TreeOf(tip))
SyncInPlace ==
    /\ synced' = TRUE /\ HeadCommit = tip /\ head' = head
    /\ \A n \in Notes : Refreshed(n, TreeOf(tip))

LEMMA SyncOutcome == Sync => SyncRefused \/ SyncForward \/ SyncInPlace
  <1> SUFFICES ASSUME Sync PROVE SyncRefused \/ SyncForward \/ SyncInPlace
    OBVIOUS
  <1>1. CASE ~SyncOk
    BY <1>1 DEF Sync, SyncRefused
  <1>2. CASE SyncOk /\ HeadCommit # tip
    <2>1. /\ TwoWayOk(TreeOf(head), TreeOf(tip))
          /\ index' = TwoWay(TreeOf(head), TreeOf(tip)).index
          /\ work' = TwoWay(TreeOf(head), TreeOf(tip)).work
          /\ head' = tip /\ synced' = TRUE /\ head # 0 /\ head # tip
      BY <1>2 DEF Sync, SyncOk
    <2> QED
      BY <2>1, TwoWayEffect DEF SyncForward
  <1>3. CASE SyncOk /\ HeadCommit = tip
    <2>1. /\ OneTreeOk(TreeOf(tip))
          /\ index' = OneTree(TreeOf(tip)).index /\ work' = OneTree(TreeOf(tip)).work
          /\ head' = head /\ synced' = TRUE
      BY <1>3 DEF Sync, SyncOk
    <2> QED
      BY <1>3, <2>1, OneTreeEffect DEF SyncInPlace
  <1> QED
    BY <1>1, <1>2, <1>3
-----------------------------------------------------------------------------
(* Types.                                                                  *)
LEMMA ElementType ==
    ASSUME NEW S, NEW s \in Seq(S), NEW i \in 1 .. Len(s) PROVE s[i] \in S
  OBVIOUS

LEMMA TreeType ==
    ASSUME TypeOK, NEW c \in 1 .. Len(commits)
    PROVE  TreeOf(c) \in [Notes -> Versions]
  <1>1. commits \in Seq([parent : Nat, tree : [Notes -> Versions]])
    BY DEF TypeOK, HistoryOK
  <1>2. commits[c] \in [parent : Nat, tree : [Notes -> Versions]]
    BY <1>1, ElementType
  <1> QED
    BY <1>2

LEMMA Appended ==
    ASSUME NEW S, NEW s \in Seq(S), NEW e \in S
    PROVE  /\ Append(s, e) \in Seq(S)
           /\ Len(Append(s, e)) = Len(s) + 1
           /\ \A i \in 1 .. Len(s) : Append(s, e)[i] = s[i]
           /\ Append(s, e)[Len(s) + 1] = e
  OBVIOUS

\* A commit is added: the ones before it stay.
Longer ==
    /\ HistoryOK' /\ Len(commits) \in Nat /\ Len(commits') = Len(commits) + 1
Grown(parent, tree) ==
    /\ Longer
    /\ \A c \in 1 .. Len(commits) : commits'[c] = commits[c]
    /\ commits'[Len(commits')].tree = tree
    /\ commits'[Len(commits')].parent = parent

LEMMA CommitAdded ==
    ASSUME TypeOK, NEW parent \in Nat, NEW tree \in [Notes -> Versions],
           commits' = WithCommit(parent, tree)
    PROVE  Grown(parent, tree)
  <1> DEFINE e == [parent |-> parent, tree |-> tree]
             S == [parent : Nat, tree : [Notes -> Versions]]
  <1>1. e \in S /\ commits \in Seq(S) /\ e.tree = tree /\ e.parent = parent
    BY DEF TypeOK, HistoryOK
  <1>2. commits' = Append(commits, e)
    BY DEF WithCommit
  <1>3. Len(commits) \in Nat
    BY <1>1
  <1> HIDE DEF e, S
  <1>4. /\ commits' \in Seq(S) /\ Len(commits') = Len(commits) + 1
        /\ \A i \in 1 .. Len(commits) : commits'[i] = commits[i]
        /\ commits'[Len(commits) + 1] = e
    BY <1>1, <1>2, Appended
  <1> QED
    BY <1>1, <1>3, <1>4 DEF Grown, Longer, HistoryOK, S

\* A commit may be made beside the one a run has begun.
Room ==
    /\ Len(commits) + 1 <= MaxCommits
    /\ run.stage = "commit" => Len(commits) + 1 < MaxCommits

LEMMA MayCommitRoom == ASSUME TypeOK, MayCommit PROVE Room
  <1>1. Len(commits) \in Nat
    BY DEF TypeOK
  <1>2. CASE run.stage = "commit"
    BY <1>1, <1>2 DEF MayCommit, Room
  <1>3. CASE run.stage # "commit"
    BY <1>1, <1>3 DEF MayCommit, Room
  <1> QED
    BY <1>2, <1>3

\* The three ways a commit is made.
LEMMA OwnerGrows ==
    ASSUME TypeOK, OwnerCommit PROVE Grown(HeadCommit, work)
  BY CommitAdded DEF OwnerCommit, TypeOK

LEMMA PublishGrows ==
    ASSUME TypeOK, NEW n \in Notes, Publish(n)
    PROVE  /\ Grown(run.base, [TreeOf(run.base) EXCEPT ![n] = Len(commits) + 1])
           /\ run.base \in 1 .. Len(commits) /\ Len(commits) + 1 <= MaxCommits
           /\ Len(commits) + 1 \in Versions
  <1>1. /\ run.base \in 1 .. Len(commits) /\ Len(commits) + 1 \in Versions
        /\ Len(commits) + 1 <= MaxCommits
    BY DEF Publish, TypeOK, Versions
  <1>2. [TreeOf(run.base) EXCEPT ![n] = Len(commits) + 1] \in [Notes -> Versions]
    BY <1>1, TreeType
  <1> QED
    BY <1>1, <1>2, CommitAdded DEF Publish

LEMMA ForeignGrows ==
    ASSUME TypeOK, ForeignPush
    PROVE  Grown(remote, TreeOf(remote)) /\ remote \in 1 .. Len(commits)
  <1>1. remote \in 1 .. Len(commits)
    BY DEF ForeignPush, TypeOK
  <1> QED
    BY <1>1, TreeType, CommitAdded DEF ForeignPush

LEMMA TypeInit == Init => TypeOK
  <1> SUFFICES ASSUME Init PROVE TypeOK
    OBVIOUS
  <1>1. [n \in Notes |-> 1] \in [Notes -> Versions]
    BY DEF Versions
  <1>2. [parent |-> 0, tree |-> [n \in Notes |-> 1]]
          \in [parent : Nat, tree : [Notes -> Versions]]
    BY <1>1
  <1>3. HistoryOK /\ Len(commits) = 1 /\ commits[1].tree = [n \in Notes |-> 1]
    BY <1>2 DEF Init, HistoryOK
  <1>4. /\ tip = 1 /\ head = 0 /\ run = [stage |-> "idle", base |-> 0]
        /\ build = 0 /\ pack.commit = 0 /\ remote = 0 /\ push = 0
        /\ typed = 0 /\ lagged = FALSE
        /\ index = [n \in Notes |-> 1] /\ work = [n \in Notes |-> 1]
    BY <1>3 DEF Init
  <1>5. run \in [stage : Stages, base : 0 .. 1]
    BY <1>4 DEF Stages
  <1>6. /\ tip \in 1 .. Len(commits) /\ head \in 0 .. Len(commits)
        /\ build \in 0 .. Len(commits) /\ pack.commit \in 0 .. Len(commits)
        /\ remote \in 0 .. Len(commits) /\ push \in 0 .. Len(commits)
        /\ Len(commits) \in 1 .. MaxCommits /\ typed \in 0 .. MaxEdits
        /\ run \in [stage : Stages, base : 0 .. Len(commits)] /\ run.stage # "commit"
    BY <1>3, <1>4, <1>5
  <1>7. index \in [Notes -> Versions] /\ work \in [Notes -> Versions]
    BY <1>1, <1>4
  <1> QED
    BY <1>3, <1>4, <1>6, <1>7 DEF TypeOK

LEMMA SyncType ==
    ASSUME TypeOK, Sync
    PROVE  /\ head' \in 0 .. Len(commits)
           /\ index' \in [Notes -> Versions] /\ work' \in [Notes -> Versions]
  <1>1. TreeOf(tip) \in [Notes -> Versions] /\ tip \in 0 .. Len(commits)
    BY TreeType DEF TypeOK
  <1>2. CASE ~SyncOk
    BY <1>2 DEF TypeOK, Sync
  <1>3. CASE SyncOk /\ HeadCommit # tip
    <2>1. /\ index' = TwoWay(TreeOf(head), TreeOf(tip)).index
          /\ work' = TwoWay(TreeOf(head), TreeOf(tip)).work /\ head' = tip
      BY <1>3 DEF Sync
    <2> QED
      BY <1>1, <2>1 DEF TwoWay, TypeOK
  <1>4. CASE SyncOk /\ HeadCommit = tip
    <2>1. /\ index' = OneTree(TreeOf(tip)).index
          /\ work' = OneTree(TreeOf(tip)).work /\ head' = head
      BY <1>4 DEF Sync
    <2> QED
      BY <1>1, <2>1 DEF OneTree, TypeOK
  <1> QED
    BY <1>2, <1>3, <1>4

LEMMA TypeStep == TypeOK /\ [Next]_vars => TypeOK'
  <1> SUFFICES ASSUME TypeOK, [Next]_vars PROVE TypeOK'
    OBVIOUS
  <1>1. ASSUME NEW n \in Notes, Edit(n) PROVE TypeOK'
    <2>1. Typed + (typed + 1) \in Versions /\ typed' \in 0 .. MaxEdits
      BY <1>1 DEF Edit, TypeOK, Versions
    <2>2. work' \in [Notes -> Versions]
      BY <1>1, <2>1 DEF Edit, TypeOK, HistoryOK
    <2> QED
      BY <1>1, <2>1, <2>2 DEF Edit, TypeOK, HistoryOK
  <1>2. ASSUME NEW n \in Notes, Stage(n) PROVE TypeOK'
    BY <1>2 DEF Stage, TypeOK, HistoryOK
  <1>3. ASSUME NEW n \in Notes, Revert(n) PROVE TypeOK'
    BY <1>3 DEF Revert, TypeOK, HistoryOK
  <1>4. CASE OwnerCommit
    <2>1. Longer /\ Room
      BY <1>4, OwnerGrows, MayCommitRoom DEF OwnerCommit, Grown
    <2>2. tip' \in 1 .. Len(commits') /\ head' \in 0 .. Len(commits')
      BY <1>4, <2>1 DEF OwnerCommit, Longer, TypeOK
    <2>3. run' = run /\ run \in [stage : Stages, base : 0 .. Len(commits')]
      BY <1>4, <2>1 DEF OwnerCommit, Longer, TypeOK
    <2> QED
      BY <1>4, <2>1, <2>2, <2>3 DEF Longer, OwnerCommit, Room, TypeOK
  <1>5. CASE Detach
    BY <1>5 DEF Detach, TypeOK, HistoryOK
  <1>6. CASE Attach
    <2>1. TreeOf(tip) \in [Notes -> Versions] /\ TreeOf(head) \in [Notes -> Versions]
      BY <1>6, TreeType DEF Attach, TypeOK, HistoryOK
    <2>2. index' \in [Notes -> Versions] /\ work' \in [Notes -> Versions] /\ head' = 0
      BY <1>6, <2>1 DEF Attach, TwoWay, TypeOK, HistoryOK
    <2> QED
      BY <1>6, <2>2 DEF Attach, TypeOK, HistoryOK
  <1>7. CASE RunBegin
    BY <1>7 DEF RunBegin, MayCommit, TypeOK, Stages, HistoryOK
  <1>8. ASSUME NEW n \in Notes, Publish(n) PROVE TypeOK'
    <2>1. Longer /\ Len(commits) + 1 <= MaxCommits
      BY <1>8, PublishGrows DEF Grown
    <2>2. \/ run' = [run EXCEPT !.stage = "sync"]
          \/ run' = [run EXCEPT !.stage = "idle"]
      BY <1>8 DEF Publish
    <2>3. run' \in [stage : Stages, base : 0 .. Len(commits')] /\ run'.stage # "commit"
      BY <2>1, <2>2 DEF Longer, TypeOK, Stages
    <2>4. tip' \in 1 .. Len(commits')
      BY <1>8, <2>1 DEF Longer, Publish, TypeOK
    <2> QED
      BY <1>8, <2>1, <2>3, <2>4 DEF Longer, Publish, TypeOK
  <1>9. CASE RunSync
    <2>1. run' \in [stage : Stages, base : 0 .. Len(commits)] /\ run'.stage # "commit"
      BY <1>9 DEF RunSync, TypeOK, Stages
    <2> QED
      BY <1>9, <2>1, SyncType DEF RunSync, TypeOK, HistoryOK
  <1>10. CASE RunCrash
    BY <1>10 DEF RunCrash, TypeOK, Stages, HistoryOK
  <1>11. CASE Recover
    <2>1. run' \in [stage : Stages, base : 0 .. Len(commits)] /\ run'.stage # "commit"
      BY <1>11 DEF Recover, TypeOK, Stages
    <2>2. /\ head' \in 0 .. Len(commits)
          /\ index' \in [Notes -> Versions] /\ work' \in [Notes -> Versions]
      BY <1>11, SyncType DEF Recover, TypeOK, HistoryOK
    <2> QED
      BY <1>11, <2>1, <2>2 DEF Recover, TypeOK, HistoryOK
  <1>12. CASE CacheBegin \/ GoldBegin
    <2>1. build' \in 0 .. Len(commits) /\ UNCHANGED commits
      BY <1>12 DEF CacheBegin, GoldBegin, TypeOK, HistoryOK
    <2>2. run' \in [stage : Stages, base : 0 .. Len(commits)] /\ run'.stage # "commit"
      BY <1>12 DEF CacheBegin, GoldBegin, TypeOK, Stages
    <2> QED
      BY <1>12, <2>1, <2>2 DEF CacheBegin, GoldBegin, TypeOK, HistoryOK
  <1>13. CASE CacheWrite
    BY <1>13 DEF CacheWrite, TypeOK, Stages, HistoryOK
  <1>14. CASE PackWrite
    BY <1>14 DEF PackWrite, TypeOK, Stages, HistoryOK
  <1>15. CASE MetaWrite
    BY <1>15 DEF MetaWrite, TypeOK, Stages, HistoryOK
  <1>16. CASE PushBegin
    BY <1>16 DEF PushBegin, TypeOK, HistoryOK
  <1>17. CASE PushEnd
    BY <1>17 DEF PushEnd, TypeOK, HistoryOK
  <1>18. CASE PushFails
    BY <1>18 DEF PushFails, TypeOK, HistoryOK
  <1>19. CASE ForeignPush
    <2>1. Longer /\ Room
      BY <1>19, ForeignGrows, MayCommitRoom DEF ForeignPush, Grown
    <2>2. run' = run /\ run \in [stage : Stages, base : 0 .. Len(commits')]
      BY <1>19, <2>1 DEF ForeignPush, Longer, TypeOK
    <2> QED
      BY <1>19, <2>1, <2>2 DEF Longer, ForeignPush, Room, TypeOK
  <1>20. CASE UNCHANGED vars
    BY <1>20 DEF vars, TypeOK, HistoryOK
  <1> QED
    BY <1>1, <1>2, <1>3, <1>4, <1>5, <1>6, <1>7, <1>8, <1>9, <1>10, <1>11, <1>12, <1>13,
       <1>14, <1>15, <1>16, <1>17, <1>18, <1>19, <1>20
       DEF Next, OwnerStep, RunStep, BuildStep, PushStep

\* The variables of the checkout have their types.
THEOREM TypeCorrect == Spec => []TypeOK
  BY TypeInit, TypeStep, PTL DEF Spec
-----------------------------------------------------------------------------
(* The inductive invariant.                                                *)
\* A file is behind or ahead of the index only by what the owner did not commit.
Dirty == \A n \in Notes : work[n] # index[n] => Uncommitted(n)
\* The next version the owner writes is in no tree and no file.
Fresh ==
    \A n \in Notes :
      /\ index[n] <= Typed + typed /\ work[n] <= Typed + typed
      /\ \A c \in 1 .. Len(commits) : TreeOf(c)[n] <= Typed + typed
OfTip(v, n) == v >= Typed \/ v = TreeOf(tip)[n]
\* A detached HEAD whose files had caught up is what its index shows.
LagOK ==
    ~lagged /\ head # 0 =>
      \A n \in Notes : index[n] >= Typed \/ index[n] = TreeOf(head)[n]
\* A build finds index and files at the tip.
Building == {"cache", "caching", "gold", "packing", "meta"}
CleanOK ==
    ~lagged /\ run.stage \in Building =>
      \A n \in Notes : OfTip(index[n], n) /\ OfTip(work[n], n)
PackOK ==
    ~lagged /\ pack.commit = tip => \A n \in Notes : OfTip(pack.notes[n], n)
IInv == TypeOK /\ Dirty /\ Fresh /\ LagOK /\ CleanOK /\ PackOK

\* The steps that leave the checkout alone.
Quiet ==
    /\ UNCHANGED <<git, files, owner, pack>>
    /\ run'.stage \in Building => run.stage \in Building

LEMMA StepKinds ==
    ASSUME TypeOK, [Next]_vars
    PROVE  \/ \E n \in Notes : Edit(n) \/ Stage(n) \/ Revert(n) \/ Publish(n)
           \/ OwnerCommit \/ Detach \/ Attach \/ RunSync \/ Recover \/ PackWrite
           \/ ForeignPush \/ Quiet
  <1>1. CASE RunBegin \/ RunCrash \/ CacheBegin \/ CacheWrite \/ GoldBegin \/ MetaWrite
    BY <1>1 DEF RunBegin, RunCrash, CacheBegin, CacheWrite, GoldBegin, MetaWrite,
                Quiet, Building, TypeOK
  <1>2. CASE PushBegin \/ PushEnd \/ PushFails
    BY <1>2 DEF PushBegin, PushEnd, PushFails, Quiet
  <1>3. CASE UNCHANGED vars
    BY <1>3 DEF vars, Quiet
  <1> QED
    BY <1>1, <1>2, <1>3 DEF Next, OwnerStep, RunStep, BuildStep, PushStep

\* What is in a file or a tree is a number.
LEMMA Numbers ==
    ASSUME TypeOK, NEW n \in Notes
    PROVE  /\ index[n] \in Nat /\ work[n] \in Nat /\ typed \in Nat
           /\ \A c \in 1 .. Len(commits) : TreeOf(c)[n] \in Nat
  <1>1. \A v \in Versions : v \in Nat
    BY DEF Versions
  <1>2. index[n] \in Versions /\ work[n] \in Versions /\ typed \in Nat
    BY DEF TypeOK
  <1>3. \A c \in 1 .. Len(commits) : TreeOf(c)[n] \in Versions
    BY TreeType
  <1> QED
    BY <1>1, <1>2, <1>3

LEMMA CommittedSame == ASSUME commits' = commits PROVE Committed' = Committed
  BY DEF Committed

\* A version no tree had is in none after a commit that did not bring it.
LEMMA CommittedGrows ==
    ASSUME TypeOK, NEW parent, NEW tree, Grown(parent, tree),
           NEW v, v \notin Committed, \A n \in Notes : tree[n] # v
    PROVE  v \notin Committed'
  <1> SUFFICES ASSUME NEW c \in 1 .. Len(commits'), NEW n \in Notes, v = TreeOf(c)'[n]
               PROVE  FALSE
    BY DEF Committed
  <1>1. CASE c \in 1 .. Len(commits)
    BY <1>1 DEF Committed, Grown
  <1>2. CASE c = Len(commits')
    BY <1>2 DEF Grown
  <1> QED
    BY <1>1, <1>2 DEF Grown, Longer

LEMMA InitInv == Init => IInv
  <1> SUFFICES ASSUME Init PROVE IInv
    OBVIOUS
  <1>1. /\ commits = <<[parent |-> 0, tree |-> [n \in Notes |-> 1]]>> /\ tip = 1
        /\ head = 0 /\ index = [n \in Notes |-> 1] /\ work = [n \in Notes |-> 1]
        /\ typed = 0 /\ run.stage = "idle" /\ pack.commit = 0
    BY DEF Init
  <1>2. Dirty
    BY <1>1 DEF Dirty
  <1>3. Fresh
    BY <1>1 DEF Fresh
  <1>4. LagOK /\ CleanOK /\ PackOK
    BY <1>1 DEF LagOK, CleanOK, PackOK, Building
  <1> QED
    BY <1>2, <1>3, <1>4, TypeInit DEF IInv

\* What a two-way merge does to the parts of the invariant.
LEMMA MergeKeeps ==
    ASSUME IInv, head \in 1 .. Len(commits), UNCHANGED <<commits, tip, owner>>,
           \A n \in Notes : Moved(n, TreeOf(head), TreeOf(tip))
                              \/ Kept(n, TreeOf(head), TreeOf(tip))
    PROVE  /\ Dirty' /\ Fresh'
           /\ ~lagged => \A n \in Notes : OfTip(index[n], n)'
  <1>1. tip \in 1 .. Len(commits) /\ Committed' = Committed
    BY CommittedSame DEF IInv, TypeOK
  <1>2. Dirty'
    BY <1>1 DEF IInv, Dirty, Uncommitted, Moved, Kept
  <1>3. Fresh'
    BY <1>1 DEF IInv, Fresh, Moved, Kept
  <1>4. ~lagged => \A n \in Notes : OfTip(index[n], n)'
    BY <1>1 DEF IInv, LagOK, OfTip, Moved, Kept
  <1> QED
    BY <1>2, <1>3, <1>4

\* The same of the refresh in place.
LEMMA RefreshKeeps ==
    ASSUME IInv, UNCHANGED <<commits, tip, owner>>,
           \A n \in Notes : Refreshed(n, TreeOf(tip))
    PROVE  /\ Dirty' /\ Fresh'
           /\ \A n \in Notes : OfTip(index[n], n)'
  <1>1. tip \in 1 .. Len(commits) /\ Committed' = Committed
    BY CommittedSame DEF IInv, TypeOK
  <1>2. Dirty'
    BY <1>1 DEF IInv, Dirty, Uncommitted, Refreshed
  <1>3. Fresh'
    BY <1>1 DEF IInv, Fresh, Refreshed
  <1> QED
    BY <1>2, <1>3 DEF OfTip, Refreshed

LEMMA SyncKeeps ==
    ASSUME IInv, Sync, UNCHANGED <<commits, tip, owner>>
    PROVE  /\ Dirty' /\ Fresh' /\ LagOK'
           /\ synced' /\ ~lagged =>
                \A n \in Notes : OfTip(index[n], n)' /\ OfTip(work[n], n)'
  <1>1. CASE SyncRefused
    BY <1>1, CommittedSame
       DEF SyncRefused, IInv, Dirty, Uncommitted, Fresh, LagOK
  <1>2. CASE SyncForward
    <2>1. head \in 1 .. Len(commits) /\ head' = tip
      BY <1>2 DEF SyncForward, IInv, TypeOK
    <2>2. /\ Dirty' /\ Fresh'
          /\ ~lagged => \A n \in Notes : OfTip(index[n], n)'
      BY <1>2, <2>1, MergeKeeps DEF SyncForward
    <2> QED
      BY <2>1, <2>2 DEF LagOK, OfTip, Dirty, Uncommitted
  <1>3. CASE SyncInPlace
    <2>1. /\ Dirty' /\ Fresh' /\ \A n \in Notes : OfTip(index[n], n)'
      BY <1>3, RefreshKeeps DEF SyncInPlace
    <2>2. head' # 0 => head' = tip'
      BY <1>3 DEF SyncInPlace
    <2> QED
      BY <2>1, <2>2 DEF LagOK, OfTip, Dirty, Uncommitted
  <1> QED
    BY <1>1, <1>2, <1>3, SyncOutcome

LEMMA EditKeeps == ASSUME IInv, NEW n \in Notes, Edit(n) PROVE IInv'
  <1>1. TypeOK /\ Typed + typed \in Nat /\ typed' = typed + 1 /\ work'[n] = Typed + (typed + 1)
        /\ \A m \in Notes : m # n => work'[m] = work[m]
    BY DEF IInv, TypeOK, Edit
  <1>2. UNCHANGED <<commits, tip, head, index, lagged, run, pack>> /\ Committed' = Committed
    BY CommittedSame DEF Edit
  <1>3. work'[n] \notin Committed /\ work'[n] >= Typed
    <2>1. \A c \in 1 .. Len(commits), m \in Notes : TreeOf(c)[m] # Typed + (typed + 1)
      BY <1>1, Numbers DEF IInv, Fresh
    <2>2. typed \in Nat
      BY <1>1 DEF TypeOK
    <2>3. Typed + (typed + 1) \notin Committed
      BY <2>1 DEF Committed
    <2> QED
      BY <1>1, <2>2, <2>3
  <1>4. Dirty'
    BY <1>1, <1>2, <1>3 DEF IInv, Dirty, Uncommitted
  <1>5. Fresh'
    BY <1>1, <1>2, Numbers DEF IInv, Fresh
  <1>6. LagOK' /\ PackOK'
    BY <1>1, <1>2 DEF IInv, LagOK, PackOK, OfTip
  <1>7. CleanOK'
    BY <1>1, <1>2, <1>3 DEF IInv, CleanOK, OfTip
  <1> QED
    BY <1>4, <1>5, <1>6, <1>7, TypeStep DEF IInv, Next, OwnerStep

LEMMA StageKeeps == ASSUME IInv, NEW n \in Notes, Stage(n) PROVE IInv'
  <1>1. TypeOK /\ index'[n] = work[n] /\ index[n] # work[n]
        /\ \A m \in Notes : m # n => index'[m] = index[m]
    BY DEF IInv, TypeOK, Stage
  <1>2. UNCHANGED <<commits, tip, head, work, typed, lagged, run, pack>> /\ Committed' = Committed
    BY CommittedSame DEF Stage, owner
  <1>3. work[n] >= Typed
    BY <1>1 DEF IInv, Dirty, Uncommitted
  <1>4. Dirty' /\ Fresh'
    BY <1>1, <1>2 DEF IInv, Dirty, Uncommitted, Fresh
  <1>5. LagOK' /\ PackOK' /\ CleanOK'
    BY <1>1, <1>2, <1>3 DEF IInv, LagOK, PackOK, CleanOK, OfTip
  <1> QED
    BY <1>4, <1>5, TypeStep DEF IInv, Next, OwnerStep

LEMMA RevertKeeps == ASSUME IInv, NEW n \in Notes, Revert(n) PROVE IInv'
  <1>1. TypeOK /\ work'[n] = index[n]
        /\ \A m \in Notes : m # n => work'[m] = work[m]
    BY DEF IInv, TypeOK, Revert
  <1>2. UNCHANGED <<commits, tip, head, index, typed, lagged, run, pack>> /\ Committed' = Committed
    BY CommittedSame DEF Revert, owner
  <1>4. Dirty' /\ Fresh'
    BY <1>1, <1>2 DEF IInv, Dirty, Uncommitted, Fresh
  <1>5. LagOK' /\ PackOK' /\ CleanOK'
    BY <1>1, <1>2 DEF IInv, LagOK, PackOK, CleanOK, OfTip
  <1> QED
    BY <1>4, <1>5, TypeStep DEF IInv, Next, OwnerStep

LEMMA OwnerCommitKeeps == ASSUME IInv, OwnerCommit PROVE IInv'
  <1>1. TypeOK /\ Grown(HeadCommit, work) /\ Len(commits) \in Nat
        /\ Len(commits') = Len(commits) + 1
    BY OwnerGrows DEF IInv, Grown, Longer
  <1>2. index' = work /\ UNCHANGED <<work, typed, lagged, run, pack>>
    BY DEF OwnerCommit
  <1>3. /\ commits'[Len(commits')].tree = work
        /\ \A c \in 1 .. Len(commits) : commits'[c] = commits[c]
    BY <1>1 DEF Grown
  <1>4. Dirty'
    BY <1>2 DEF Dirty
  <1>5. Fresh'
    BY <1>1, <1>2, <1>3 DEF IInv, Fresh
  <1>6. CASE head = 0
    <2>1. tip' = Len(commits') /\ head' = 0
      BY <1>6 DEF OwnerCommit
    <2>2. pack.commit # tip'
      BY <1>1, <2>1 DEF TypeOK
    <2> QED
      BY <1>1, <1>2, <1>3, <1>4, <1>5, <2>1, <2>2, TypeStep
         DEF IInv, LagOK, CleanOK, PackOK, OfTip, Next, OwnerStep
  <1>7. CASE head # 0
    <2>1. head' = Len(commits') /\ tip' = tip /\ tip \in 1 .. Len(commits)
      BY <1>1, <1>7 DEF OwnerCommit, TypeOK
    <2> QED
      BY <1>1, <1>2, <1>3, <1>4, <1>5, <2>1, TypeStep
         DEF IInv, LagOK, CleanOK, PackOK, OfTip, Next, OwnerStep
  <1> QED
    BY <1>6, <1>7

LEMMA DetachKeeps == ASSUME IInv, Detach PROVE IInv'
  <1>1. /\ head' = tip /\ (~lagged' => ~lagged /\ \A n \in Notes : ~Lags(n))
        /\ UNCHANGED <<commits, tip, index, work, typed, run, pack>>
    BY DEF IInv, TypeOK, Detach
  <1>2. Dirty' /\ Fresh' /\ CleanOK' /\ PackOK'
    BY <1>1, CommittedSame DEF IInv, Dirty, Uncommitted, Fresh, CleanOK, PackOK, OfTip
  <1>3. LagOK'
    <2> SUFFICES ASSUME ~lagged', NEW n \in Notes
                 PROVE  index[n] >= Typed \/ index[n] = TreeOf(tip)[n]
      BY <1>1 DEF LagOK
    <2> QED
      BY <1>1, Numbers DEF Lags, IInv
  <1> QED
    BY <1>2, <1>3, TypeStep DEF IInv, Next, OwnerStep

LEMMA AttachKeeps == ASSUME IInv, Attach PROVE IInv'
  <1>1. /\ head \in 1 .. Len(commits) /\ head' = 0
        /\ UNCHANGED <<commits, tip, typed, lagged, run, pack>>
    BY DEF IInv, TypeOK, Attach
  <1>2. \A n \in Notes : Moved(n, TreeOf(head), TreeOf(tip)) \/ Kept(n, TreeOf(head), TreeOf(tip))
    BY TwoWayEffect DEF Attach
  <1>3. Dirty' /\ Fresh'
    BY <1>1, <1>2, MergeKeeps
  <1>4. LagOK' /\ PackOK'
    BY <1>1 DEF IInv, LagOK, PackOK, OfTip
  <1>5. CleanOK'
    BY <1>1, <1>2 DEF IInv, CleanOK, OfTip, Moved, Kept
  <1> QED
    BY <1>3, <1>4, <1>5, TypeStep DEF IInv, Next, OwnerStep

\* A version the owner has not committed is in no tree a run or another machine adds.
LEMMA UncommittedStays ==
    ASSUME IInv, NEW parent, NEW tree, Grown(parent, tree), NEW n \in Notes,
           Uncommitted(n), work' = work,
           \A m \in Notes : tree[m] \in Committed \/ tree[m] < Typed
    PROVE  Uncommitted(n)'
  <1>1. TypeOK /\ work[n] \in Nat
    BY Numbers DEF IInv
  <1>2. work[n] >= Typed /\ work[n] \notin Committed
    BY DEF Uncommitted
  <1>3. \A m \in Notes : tree[m] # work[n]
    BY <1>1, <1>2
  <1> QED
    BY <1>1, <1>2, <1>3, CommittedGrows DEF Uncommitted

LEMMA PublishKeeps == ASSUME IInv, NEW n \in Notes, Publish(n) PROVE IInv'
  <1> DEFINE tree == [TreeOf(run.base) EXCEPT ![n] = Len(commits) + 1]
  <1>1. /\ TypeOK /\ Grown(run.base, tree) /\ run.base \in 1 .. Len(commits)
        /\ Len(commits) \in Nat /\ Len(commits') = Len(commits) + 1
        /\ Len(commits) + 1 < Typed
    BY PublishGrows DEF IInv, Grown, Longer
  <1>2. /\ UNCHANGED <<head, index, work, typed, lagged, pack>>
        /\ tip' = tip \/ tip' = Len(commits')
        /\ run'.stage \notin Building
    BY DEF Publish, IInv, TypeOK, Building
  <1>3. \A m \in Notes : tree[m] = Len(commits) + 1 \/ tree[m] = TreeOf(run.base)[m]
    BY <1>1, TreeType
  <1>4. \A m \in Notes : tree[m] \in Committed \/ tree[m] < Typed
    BY <1>1, <1>3 DEF Committed
  <1>5. Dirty'
    <2> HIDE DEF tree
    <2> QED
      BY <1>1, <1>2, <1>4, UncommittedStays DEF IInv, Dirty
  <1>6. Fresh'
    <2>1. /\ commits'[Len(commits')].tree = tree
          /\ \A c \in 1 .. Len(commits) : commits'[c] = commits[c]
      BY <1>1 DEF Grown
    <2>2. \A m \in Notes : tree[m] <= Typed + typed
      BY <1>1, <1>3 DEF IInv, Fresh, TypeOK
    <2> HIDE DEF tree
    <2> QED
      BY <1>1, <1>2, <2>1, <2>2 DEF IInv, Fresh
  <1>7. LagOK'
    <2>1. \A c \in 1 .. Len(commits) : commits'[c] = commits[c]
      BY <1>1 DEF Grown
    <2> QED
      BY <1>1, <1>2, <2>1 DEF IInv, LagOK, TypeOK
  <1>8. PackOK'
    <2>1. \A c \in 1 .. Len(commits) : commits'[c] = commits[c]
      BY <1>1 DEF Grown
    <2>2. pack.commit \in 0 .. Len(commits) /\ tip \in 1 .. Len(commits)
      BY <1>1 DEF TypeOK
    <2>3. CASE tip' = tip
      BY <1>1, <1>2, <2>1, <2>2, <2>3 DEF IInv, PackOK, OfTip
    <2>4. CASE tip' = Len(commits')
      BY <1>1, <1>2, <2>2, <2>4 DEF PackOK
    <2> QED
      BY <1>2, <2>3, <2>4
  <1> QED
    BY <1>2, <1>5, <1>6, <1>7, <1>8, TypeStep DEF IInv, CleanOK, Next, RunStep

LEMMA RunSyncKeeps == ASSUME IInv, RunSync PROVE IInv'
  <1>1. /\ Sync /\ UNCHANGED <<commits, tip, typed, lagged, pack>>
        /\ run'.stage = "idle" \/ (run'.stage = "cache" /\ synced')
    BY DEF RunSync, IInv, TypeOK
  <1>2. /\ Dirty' /\ Fresh' /\ LagOK'
        /\ synced' /\ ~lagged =>
             \A n \in Notes : OfTip(index[n], n)' /\ OfTip(work[n], n)'
    BY <1>1, SyncKeeps
  <1>3. CleanOK'
    BY <1>1, <1>2 DEF CleanOK, Building
  <1>4. PackOK'
    BY <1>1 DEF IInv, PackOK, OfTip
  <1> QED
    BY <1>2, <1>3, <1>4, TypeStep DEF IInv, Next, RunStep

LEMMA RecoverKeeps == ASSUME IInv, Recover PROVE IInv'
  <1>1. /\ UNCHANGED <<commits, tip, typed, lagged, pack>> /\ run'.stage = "recovered"
        /\ Sync \/ UNCHANGED <<head, index, work>>
    BY DEF Recover, IInv, TypeOK
  <1>2. Dirty' /\ Fresh' /\ LagOK'
    <2>1. CASE Sync
      BY <1>1, <2>1, SyncKeeps
    <2>2. CASE UNCHANGED <<head, index, work>>
      BY <1>1, <2>2, CommittedSame DEF IInv, Dirty, Uncommitted, Fresh, LagOK
    <2> QED
      BY <1>1, <2>1, <2>2
  <1>3. CleanOK' /\ PackOK'
    BY <1>1 DEF IInv, CleanOK, Building, PackOK, OfTip
  <1> QED
    BY <1>2, <1>3, TypeStep DEF IInv, Next

LEMMA PackWriteKeeps == ASSUME IInv, PackWrite PROVE IInv'
  <1>1. /\ UNCHANGED <<commits, tip, head, index, work, typed, lagged>>
        /\ pack' = [commit |-> build, notes |-> work]
        /\ run.stage = "packing" /\ run'.stage = "meta"
    BY DEF PackWrite, IInv, TypeOK
  <1>2. Dirty' /\ Fresh' /\ LagOK' /\ CleanOK'
    BY <1>1, CommittedSame
       DEF IInv, Dirty, Uncommitted, Fresh, LagOK, CleanOK, Building, OfTip
  <1>3. PackOK'
    BY <1>1 DEF IInv, CleanOK, Building, PackOK, OfTip
  <1> QED
    BY <1>2, <1>3, TypeStep DEF IInv, Next, BuildStep

LEMMA ForeignPushKeeps == ASSUME IInv, ForeignPush PROVE IInv'
  <1>1. /\ TypeOK /\ Grown(remote, TreeOf(remote)) /\ remote \in 1 .. Len(commits)
        /\ Len(commits) \in Nat /\ Len(commits') = Len(commits) + 1
    BY ForeignGrows DEF IInv, Grown, Longer
  <1>2. UNCHANGED <<tip, head, index, work, typed, lagged, pack, run>>
    BY DEF ForeignPush
  <1>3. /\ commits'[Len(commits')].tree = TreeOf(remote)
        /\ \A c \in 1 .. Len(commits) : commits'[c] = commits[c]
    BY <1>1 DEF Grown
  <1>4. \A m \in Notes : TreeOf(remote)[m] \in Committed
    BY <1>1 DEF Committed
  <1>5. Dirty'
    BY <1>1, <1>2, <1>4, UncommittedStays DEF IInv, Dirty
  <1>6. Fresh'
    BY <1>1, <1>2, <1>3 DEF IInv, Fresh
  <1>7. tip \in 1 .. Len(commits) /\ (head # 0 => head \in 1 .. Len(commits))
    BY <1>1 DEF TypeOK
  <1>8. LagOK' /\ CleanOK' /\ PackOK'
    BY <1>2, <1>3, <1>7 DEF IInv, LagOK, CleanOK, PackOK, OfTip
  <1> QED
    BY <1>5, <1>6, <1>8, TypeStep DEF IInv, Next, PushStep

LEMMA StepInv == IInv /\ [Next]_vars => IInv'
  <1> SUFFICES ASSUME IInv, [Next]_vars PROVE IInv'
    OBVIOUS
  <1>1. CASE Quiet
    BY <1>1, TypeStep, CommittedSame
       DEF Quiet, IInv, Dirty, Uncommitted, Fresh, LagOK, CleanOK, PackOK, OfTip
  <1> QED
    BY <1>1, StepKinds, EditKeeps, StageKeeps, RevertKeeps, PublishKeeps, OwnerCommitKeeps,
       DetachKeeps, AttachKeeps, RunSyncKeeps, RecoverKeeps, PackWriteKeeps,
       ForeignPushKeeps DEF IInv

\* The checkout's invariant, from which the rest follows.
THEOREM Invariant == Spec => []IInv
  BY InitInv, StepInv, PTL DEF Spec
-----------------------------------------------------------------------------
(* What follows.                                                           *)
\* Nothing derived is read at a commit it was not derived from: a query reads what
\* a full scan reads, a fresh pack is never of an older commit (build_cache,
\* build_gold).
THEOREM Current == Spec => []DerivedIsCurrent
  <1>1. IInv => DerivedIsCurrent
    BY DEF IInv, PackOK, OfTip, DerivedIsCurrent, QueryIsFullScan, Loaded,
           FreshPackIsNotStale
  <1> QED
    BY <1>1, Invariant, PTL

EditsKeptStep ==
    \A n \in Notes : Uncommitted(n) /\ work'[n] # work[n] =>
       \/ typed' # typed \/ Revert(n)
       \/ index[n] = work[n] /\ HeadCommit = tip

LEMMA MergeKeepsEdits ==
    ASSUME IInv, head \in 1 .. Len(commits), NEW n \in Notes, Uncommitted(n),
           Moved(n, TreeOf(head), TreeOf(tip)) \/ Kept(n, TreeOf(head), TreeOf(tip))
    PROVE  work'[n] = work[n]
  BY DEF Moved, Kept, Uncommitted, Committed

LEMMA SyncKeepsEdits ==
    ASSUME IInv, Sync, NEW n \in Notes, Uncommitted(n), work'[n] # work[n]
    PROVE  index[n] = work[n] /\ HeadCommit = tip
  <1>1. CASE SyncForward
    <2>1. head \in 1 .. Len(commits)
      BY <1>1 DEF SyncForward, IInv, TypeOK
    <2> QED
      BY <1>1, <2>1, MergeKeepsEdits DEF SyncForward
  <1>2. CASE SyncInPlace
    BY <1>2 DEF SyncInPlace, Refreshed
  <1> QED
    BY <1>1, <1>2, SyncOutcome DEF SyncRefused

LEMMA EditsKept == IInv /\ [Next]_vars => EditsKeptStep
  <1> SUFFICES ASSUME IInv, [Next]_vars, NEW n \in Notes, Uncommitted(n), work'[n] # work[n]
               PROVE  \/ typed' # typed \/ Revert(n)
                      \/ index[n] = work[n] /\ HeadCommit = tip
    BY DEF EditsKeptStep
  <1>1. ASSUME NEW m \in Notes, Edit(m) PROVE typed' # typed
    BY <1>1 DEF Edit, IInv, TypeOK
  <1>2. ASSUME NEW m \in Notes, Revert(m) PROVE Revert(n)
    <2>1. m = n
      BY <1>2 DEF Revert, IInv, TypeOK
    <2> QED
      BY <1>2, <2>1
  <1>3. CASE Attach
    <2>1. head \in 1 .. Len(commits)
      BY <1>3 DEF Attach, IInv, TypeOK
    <2>2. Moved(n, TreeOf(head), TreeOf(tip)) \/ Kept(n, TreeOf(head), TreeOf(tip))
      BY <1>3, TwoWayEffect DEF Attach
    <2> QED
      BY <2>1, <2>2, MergeKeepsEdits
  <1>4. CASE RunSync \/ Recover
    <2>1. Sync
      BY <1>4 DEF RunSync, Recover
    <2> QED
      BY <2>1, SyncKeepsEdits
  <1>5. ASSUME NEW m \in Notes, Stage(m) \/ Publish(m) PROVE FALSE
    BY <1>5 DEF Stage, Publish
  <1>6. CASE OwnerCommit \/ Detach \/ PackWrite \/ ForeignPush \/ Quiet
    BY <1>6 DEF OwnerCommit, Detach, PackWrite, ForeignPush, Quiet
  <1> QED
    BY <1>1, <1>2, <1>3, <1>4, <1>5, <1>6, StepKinds DEF IInv

\* The steps that end a sync, and the ones that can refuse it.
LEMMA SyncSteps ==
    ASSUME IInv, [Next]_vars
    PROVE  /\ run.stage = "sync" /\ run'.stage = "cache" =>
                RunSync /\ synced' = TRUE
           /\ synced' = FALSE /\ synced => Sync
  <1>1. ASSUME NEW n \in Notes, Edit(n) \/ Stage(n) \/ Revert(n) \/ Publish(n)
        PROVE  synced' = synced /\ (run'.stage = "cache" => run.stage = "cache")
    BY <1>1 DEF Edit, Stage, Revert, Publish, IInv, TypeOK
  <1>2. CASE OwnerCommit \/ Detach \/ Attach \/ RunBegin \/ RunCrash \/ BuildStep
             \/ PushStep \/ UNCHANGED vars
    BY <1>2 DEF OwnerCommit, Detach, Attach, RunBegin, RunCrash, BuildStep, PushStep,
                CacheBegin, CacheWrite, GoldBegin, PackWrite, MetaWrite, PushBegin,
                PushEnd, PushFails, ForeignPush, vars, IInv, TypeOK
  <1>3. CASE RunSync
    BY <1>3 DEF RunSync, Sync, IInv, TypeOK
  <1>4. CASE Recover
    BY <1>4 DEF Recover, IInv, TypeOK
  <1> QED
    BY <1>1, <1>2, <1>3, <1>4 DEF Next, OwnerStep, RunStep

\* A sync takes nothing the owner typed and did not commit, brings every other file
\* to the tip, and fails for no other reason (sync_to_branch).
THEOREM Exact == Spec => SyncIsExact
  <1>1. IInv /\ [Next]_vars =>
          [run.stage = "sync" /\ run'.stage = "cache" /\ head = 0 =>
             \A n \in Notes : work'[n] = TreeOf(tip)[n] \/ Uncommitted(n)]_vars
    <2> SUFFICES ASSUME IInv, RunSync, synced' = TRUE, head = 0, NEW n \in Notes
                 PROVE  work'[n] = TreeOf(tip)[n] \/ Uncommitted(n)
      BY SyncSteps
    <2>1. SyncInPlace
      BY SyncOutcome DEF RunSync, SyncRefused, SyncForward
    <2> QED
      BY <2>1 DEF SyncInPlace, Refreshed, IInv, Dirty
  <1>2. IInv /\ [Next]_vars =>
          [synced' = FALSE /\ synced =>
             (\E n \in Notes : Uncommitted(n)) \/ head # 0]_vars
    <2> SUFFICES ASSUME IInv, Sync, synced' = FALSE, head = 0
                 PROVE  \E n \in Notes : Uncommitted(n)
      BY SyncSteps
    <2>1. ~OneTreeOk(TreeOf(tip))
      BY DEF Sync, SyncOk
    <2> QED
      BY <2>1 DEF OneTreeOk, IInv, Dirty
  <1>3. IInv /\ [Next]_vars => [EditsKeptStep]_vars
    BY EditsKept
  <1> QED
    BY <1>1, <1>2, <1>3, Invariant, PTL
       DEF Spec, SyncIsExact, OwnerEditsKept, SyncMaterializes, RefusalIsTheOwners,
           EditsKeptStep

\* A push only extends the remote, also against another machine's, and reports the
\* commit the remote then holds (backup_push).
THEOREM BackedUp == Spec => BackupIsTrue
  <1>1. IInv /\ [Next]_vars => [remote' # remote => remote \in Reach(remote)']_vars
    <2> SUFFICES ASSUME IInv, [Next]_vars, remote' # remote
                 PROVE  remote \in Reach(remote)'
      OBVIOUS
    <2>1. CASE PushEnd \/ PushFails
      <3>1. remote \in Reach(push) /\ remote' = push /\ commits' = commits
        BY <2>1 DEF PushEnd, PushFails
      <3> QED
        BY <3>1 DEF Reach
    <2>2. CASE ForeignPush
      <3>1. Grown(remote, TreeOf(remote)) /\ remote \in 1 .. Len(commits)
            /\ remote' = Len(commits')
        BY <2>2, ForeignGrows DEF ForeignPush, IInv
      <3>2. remote' \in 1 .. Len(commits') /\ commits'[remote'].parent = remote
            /\ remote \in 0 .. Len(commits')
        BY <3>1 DEF Grown, Longer
      <3> QED
        BY <3>2 DEF Reach
    <2>3. ASSUME NEW n \in Notes, Edit(n) \/ Stage(n) \/ Revert(n) \/ Publish(n)
          PROVE  FALSE
      BY <2>3 DEF Edit, Stage, Revert, Publish
    <2>4. CASE OwnerCommit \/ Detach \/ Attach \/ RunBegin \/ RunSync \/ RunCrash \/ Recover
               \/ BuildStep \/ PushBegin \/ UNCHANGED vars
      BY <2>4 DEF OwnerCommit, Detach, Attach, RunBegin, RunSync, RunCrash, Recover,
                  BuildStep, CacheBegin, CacheWrite, GoldBegin, PackWrite, MetaWrite,
                  PushBegin, vars
    <2> QED
      BY <2>1, <2>2, <2>3, <2>4 DEF Next, OwnerStep, RunStep, PushStep
  <1>2. [Next]_vars => [push # 0 /\ push' = 0 /\ backup'.ok => remote' = backup'.commit]_vars
    <2> SUFFICES ASSUME [Next]_vars, push # 0, push' = 0, backup'.ok
                 PROVE  remote' = backup'.commit
      OBVIOUS
    <2>1. CASE PushEnd \/ PushFails
      BY <2>1 DEF PushEnd, PushFails
    <2>2. ASSUME NEW n \in Notes, Edit(n) \/ Stage(n) \/ Revert(n) \/ Publish(n)
          PROVE  FALSE
      BY <2>2 DEF Edit, Stage, Revert, Publish
    <2>3. CASE OwnerCommit \/ Detach \/ Attach \/ RunBegin \/ RunSync \/ RunCrash \/ Recover
               \/ BuildStep \/ PushBegin \/ ForeignPush \/ UNCHANGED vars
      BY <2>3 DEF OwnerCommit, Detach, Attach, RunBegin, RunSync, RunCrash, Recover,
                  BuildStep, CacheBegin, CacheWrite, GoldBegin, PackWrite, MetaWrite,
                  PushBegin, ForeignPush, vars
    <2> QED
      BY <2>1, <2>2, <2>3 DEF Next, OwnerStep, RunStep, PushStep
  <1> QED
    BY <1>1, <1>2, Invariant, PTL DEF Spec, BackupIsTrue, RemoteOnlyExtends, ReportedIsPushed
=============================================================================
