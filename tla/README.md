# Verification of agora-kb

agora-kb keeps a curated markdown wiki in git. Agents and people *capture*
events into a file spool; a single *curator* claims batches of them, lets a
language model plan and write notes in a detached worktree, gates the result
deterministically and publishes one commit with a compare-and-swap of the
branch ref. Nothing but files and git is durable: there is no database, no
broker and no transaction that spans the spool and the branch. What makes the
system correct is the *order* of its file operations, what its recovery does
with every prefix of that order, and what its gates let through of an answer
they cannot trust. That is what is modelled here.

Line numbers are of `src/src/agora_kb/`, unless a path says otherwise.
`PROJECT.json` lists every component with its status, the lines each definition
models (`map`), and under `hazards` the places where the code is exposed to
something a test would hardly reach, with the properties that watch them.

## Inventory

| part | state it keeps | operations | what is hard | modelled in |
|---|---|---|---|---|
| capture inbox (`core/inbox.py`) | `_kb/inbox/<writer>/<id>.md`, staged bytes in `_attach/` | write, return, carry | key scan and append are two steps; bytes follow an event in a second step | `CuratorRun`, `Attachments` |
| curator run (`curator/worker.py`, `claim.py`, `manifest.py`) | `processing/<run>/run.json`, `processed/`, `failed/<date>/<run>/error.json`, `curator.lock` | recover, claim, publish, finalize, fail | a crash between any two file operations; foreign commits; recovery without the lock | `CuratorRun`, `Delivery` |
| `state.json` (`core/state.py`) | delivered keys, published runs, counters | load and save of the whole file | load, work, save with another writer in between | `CuratorRun` |
| requeue (`curator/requeue.py`) | moves `failed/` → `inbox/`, archives error records | plan, move, archive | a crash between moves and archive; records that govern several events | `Requeue` |
| candidate bundle, plan gate, APPLY, AUTHOR pass, lint (`curator/plan.py`, `apply.py`, `worker.py`, `schema/lint.py`) | the run's worktree, then the tree of the branch | fold, validate, apply, restore, degrade, grade | an untrusted plan and untrusted edits; notes that later runs append to; a rejected pass must be undone everywhere | `Consolidation` |
| brain adapters (`adapters/ollama_brain.py`) | none | normalize a plan, splice prose | a model may answer anything | `Brain` |
| backends, isolation (`curator/backends.py`, `subprocess_backend.py`, `isolation/`) | none | resolve, confine, invoke | two acts, two brains, one configuration; a missing sandbox must refuse | `Backends` |
| git (`core/repo.py`), working copy, backup | branch ref, HEAD, index, files, remote | CAS, ancestor test, sync, push | HEAD's branch moved under a dirty tree; the branch moves between read and push | `CuratorRun`, `WorkingCopy` |
| index cache, gold packs, reader (`core/index_cache.py`, `gold.py`, `wiki.py`) | derived files | build, query, walk, draw, pack | derived data read at another commit; a prefilter and a budget that drop the wrong thing | `WorkingCopy`, `Gold`, `Reader` |
| restamp (`curator/restamp.py`) | one maintenance commit | lock, plan, lint, CAS, sync | a second publisher on the same branch | `Restamp` |
| scheduler (`cli.py` watch, `curator/triggers.py`, `cron.py`) | the loop's failure count | tick, evaluate, back off, sleep | a failing tick must slow the loop and never stop it; one cron fire is seen many times | `Watch` |
| harvester (`harvester/`) | one cursor per connector | scan, write, advance | two harvesters and the finalization save the same cursor | `Harvest` |
| import and conversion (`ingest/vault_import.py`, `kb_convert.py`) | a new repo | place, rename, retarget, ground | names collide; a link must follow its note | `VaultImport`, `KbConvert` |
| repository, schema version (`core/repo.py`, `config.py`, `cli.py` init) | files, two commits | init, guard | interrupted half-way and repeated | `RepoInit` |
| web and MCP faces (`faces/`) | none | upload, curate, graph | limits of a batch; answers per file | `Uploads`, `CuratorRun`, `Reader` |
| redaction, text extraction | none | regular expressions, third-party parsers | text | — |

How they interact: the faces call `Inbox.write` and `recover`/`run`; `run` calls
claim, bundle, the backend, APPLY and the gates; publication and finalization go
through `Repo` and `StateStore`; after a publish the working copy is synced and
cache and pack are rebuilt; requeue and restamp share `curator.lock` with `run`;
the harvester writes through the inbox and shares its cursor file with
finalization; `watch` drives `recover` and `run`.

## Modules

| module | what it is | run |
|---|---|---|
| `CuratorRun` | the life of an event, run by run and step by step | `crash`, `live`, `double` |
| `Delivery`, `CuratorRunRefinement` | what the spool promises a writer, and the mapping under which `CuratorRun` implements it | `crash` |
| `Requeue` | `agora requeue` beside the curator: `CuratorRun` with one more actor | `requeue` |
| `Attachments` | the bytes that travel beside the events | `attach` |
| `Consolidation` | what a run does to the wiki: bundle, plan gate, APPLY, AUTHOR, lint, over several runs | `consolidation`, `blame` |
| `WorkingCopy` | the owner's checkout, the sync, cache, pack and backup after a publish | `workingcopy` |
| `Restamp` | the maintenance commit beside curator runs and the owner | `restamp` |
| `Watch` | the scheduling loop in explicit time | `watch` |
| `Harvest` | connectors, cursors and the finalization that shares them | `harvest` |
| `Brain`, `Backends`, `VaultImport`, `KbConvert`, `Gold`, `Reader`, `RepoInit`, `Uploads` | the parts that are functions of their input, as operators | through `Algorithms` |
| `Algorithms` | one call of any of them, on any of the inputs given | `algorithms` |
| `CuratorRunProofs` (of `Requeue` too), `AttachmentsProofs`, `WorkingCopyProofs`, `RestampProofs`, `HarvestProofs`, `WatchProofs`, `ConsolidationProofs`, `AlgorithmsProofs` | theorems | TLAPS |
| `MC*` | the small instances TLC checks | |

### `CuratorRun`

A *process* is one invocation loop of `agora curate`, `agora watch` or
`kb_curate`: each calls `recover()` without the lock (`cli.py:1958`,
`cli.py:2814`, `faces/mcp_server.py:1217`) and then `run()` under it. Its control
point is `pc[p]`; its Python locals are `cur`, `todo`, `backlog`, `snap`, `mem`.
One action is one durable operation: a rename of one event, a write of
`run.json`, of `error.json` or of `state.json`, a ref update, an rmtree. A crash
may fall between any two.

| state | code |
|---|---|
| `spool[e]` | the directory that holds `e`'s file; `Destroyed` when an rmtree took it |
| `manifest[r]` | `processing/<r>/run.json`: phase, and whether `published_commit` is recorded |
| `job[r]` | the manifest fields fixed at the claim: `event_ids`, `base_commit` |
| `records[r]` | `failed/<date>/<r>/error.json`: its `event_ids` |
| `st` | `state.json`: `event_keys` and `published_runs` |
| `published`, `head` | the runs whose commit is on the branch, and its length |
| `lock` | holder of the flock on `curator.lock` |

| actions | code |
|---|---|
| `CheckKey`, `Append` | `Inbox.write`: the best-effort scan, then the exclusive create |
| `RecoverBegin/Finalize/Return/End` | `recover()`; every manifest is read before the first is acted on (`list_processing` returns a list) |
| `Trigger`, `NotDue` | `evaluate`, then the non-blocking flock (`LockHeld` is a no-op) |
| `ClaimSnapshot`, `ClaimMove`, `ClaimManifest`, `ClaimNothing` | `claim()`: tier-1 de-duplication, cap, one rename per event, then `run.json` |
| `StampAttempt` | the state loaded before the claim is saved back |
| `BuildBundle`, `PlanAndApply`, `CommitWorktree`, `Reject` | the body of the run; the verdict of each gate is a choice (opened in `Consolidation`) |
| `CasPublish`, `CasConflict` | `update-ref` with the old value |
| `AdvancePublished`, `LoadState`, `Drain`, `SaveState`, `AdvanceFinalized` | finalization, the same steps on the happy path and in `_finalize_recovered` |
| `FailRecord`, `Dispose`, `FailLoad`, `FailSave` | `_fail` |
| `ReturnEvent`, `RemoveRun` | `_return_events_to_inbox` and the rmtree |
| `Crash` | the end of the process, and an exception out of `run()` or `recover()` |
| `ForeignCommit` | a merge, pull, owner's commit or restamp on the branch |

Abstractions. The order of event ids is `<=` on naturals. Contents are `ShaOf`,
delivery keys `KeyOf`, and an event whose frontmatter cannot address an inbox path
(`resolve_inbox_return` refuses it) is one outside `Addressable`. A manifest's
recorded sha is a Boolean, because a run's commit is the only sha it can hold and
`is_published` asks whether *that* commit is on the branch. State fields nothing
branches on (counters, last_run, last_batch, last_failure) are left out. A full
disk is not modelled. Ids of runs are minted in order. `Other` are the commands that
take the same lock and are no curating process: none here, the requeuer in `Requeue`.

`Delivery` is three sets: captured, delivered, terminal. An event is delivered in
a batch, at most once and with one event per key, or abandoned, and neither is
undone. The refinement mapping reads *delivered* off git (the union of the
published runs' events), never off the spool, so a recovery that gives a published
run's events back shows as a second delivery.

### `Requeue`

`Requeue` extends `CuratorRun` and adds the actor of `agora requeue` to its
next-state relation, with the same spool, records, state and lock. An invocation
takes the lock, loads the state, plans (`plan_requeue`), renames one event at a
time, enumerates what is still terminal, and archives one attempt record at a
time; archiving is emptying `records[r]`, since the budget counts only the records
under `failed/`. The selector is `--all`, a run directory or one event. `preview`
is what `--dry-run` would have printed from the same state. Runs are excluded by
the lock; recoveries are not, and a crash may fall between any two steps.

### `Attachments`

The state is the set of pairs (directory, blob), each event's directory and the
bytes `raw/_blob/` holds on the branch. A capture stages its blobs one by one and
then appends its event; it takes no lock. Every other mover is one process here,
since runs and requeues share the lock and two recoveries are the subject of
`CuratorRun`. A mover renames an event (`Rename`), then reads what the events left
behind still cite (`CarryScan`), then treats its blobs one by one (`CarryOne`:
there already, copied, moved, and the source reclaimed). The history variable
`cut` names the events whose carry a crash cut short: they are the only ones whose
bytes can be lost. `processed/` is one directory, not one per day. Corrupt bytes
and I/O errors are left out.

### `Consolidation`

The notes of the branch are the state (`tree`: path → note), with `raw` (the
preserved captures), `log` (the runs in `log.md`) and the day. A run folds its
batch into candidates by content (`Candidates`; a group is gated when any of it
is), takes any plan over the wishes of the instance, grades it (`ValidPlan`), applies
it (`ApplyPlan`: create, append to the day's journal, merge, contest, then maps, index
and log), lets an untrusted AUTHOR pass fill regions and make a rogue edit, and
grades the result (`AuthorRejected`, lint, final diff) before it publishes. A
rejected pass is undone and APPLY's tree published with its placeholders
(`degraded`). A note is reduced to its kind, stamps, sources, subjects, children,
contested mark, body regions and a flag whether the text outside them is what
APPLY wrote.

### `WorkingCopy`

Commits are numbered; a tree maps notes to versions; the owner's versions are above
`Typed`. The curator's run reads its base, commits in a worktree, moves the branch
by CAS, syncs the checkout, then reads the tip *and then* the files, for the cache
and again for the pack, and writes the pack's sidecar last. A crash may fall
between any two. The owner edits, stages, restores, commits, detaches HEAD and comes
back. The two merges of `sync_to_branch` are modelled by what git does:
`merge --ff-only` compares index and files with the tree of HEAD (`TwoWay`),
`read-tree -m -u` compares them with the index alone (`OneTree`). A backup push
resolves the tip, pushes exactly that commit, and may fail after the remote took
it; another machine pushes too.

### `Restamp`

`agora repo upgrade --restamp` beside a curator run of the same host (excluded by
`curator.lock`), a run of another host (excluded by the CAS alone) and the owner. A
note has its place, kind, stamp, the form of its frontmatter block (block or flow
style, fenced, oddly encoded, unparseable: each is skipped for its own reason),
its sources and their mirror, and tags. The plan, its gates (nothing but the mirror
and tags may differ; the body is byte-identical), the taxonomy widened under its
policy, the CAS and the sync are one action each.

### `Watch`

Time is explicit. A tick evaluates the three triggers over the inbox (`Evaluate`:
depth, idle, cron, in the code's order), runs, and sleeps its interval; a tick that
raises or finds no backend backs off (`Backoff`: `min(interval * 2^n, max(interval,
cap))` with the shift `n`, the failures in a row, bounded). `IsCronDue` looks back over every minute since the last
run, so that a fire between two polls is not missed; day-of-month and day-of-week
combine as in cron. The inbox maps each pending event to when it was written and to the
curations of it that failed: `_fail` charges every event of a failed run on its own, so that of one
inbox some leave with a spent budget while younger ones return (`TickFails`), and a run that
loses the CAS charges none (`TickConflicts`). Restarts forget the failure count. A run takes
all that is pending (the cap on its candidates is `CuratorRun`'s), and a tick takes no time.

### `Harvest`

A connector reads a source, takes its digest, skips a source whose cursor holds that digest,
writes one fact at a time into the inbox and saves the cursor it loaded before. A source is a
sequence of facts, links to a sibling file, and the lines and the two markers of a gold pack;
`Stripped` removes what lies between an opening marker and the first closing one
(`AGORA_SPAN_RE`), of a file before its digest is taken, of a session's turn after it, and leaves a
torn pack's lines where they are. A link gives the body of its sibling, or its own line where that
is missing or a whole pack, while the sibling's bytes count for the digest in any case.

What the inbox and `state.json` tell candidates apart by is `writer:event_key`, and the
writer is `harvest-<agent>` (`harvester/harvester.py:445`): a *candidate* is an agent and a key, so
that connectors of one agent share candidates and those of two agents never do. A write looks for a
pending event of the candidate (`LookUp`) and then appends one (`WriteOne`), in two steps, so two
harvests may append it twice; `inbox` counts the copies. The curator is seen as the harvester
sees it: `Claim` takes the earliest event of each candidate that `event_keys` does not have, and
leaves the others in the inbox; a run fails or is recovered (`GiveBack`), or publishes, and then its
finalization saves the cursors its verdicts count for (`JudgeLoad`, `JudgeSave`: load and save of
the same file, per connector) and records the keys (`Settle`); a curator that dies between the two
is finished by a recovery, without verdicts (`CuratorDies`). Sources change and harvests die at any
time. The cap on a run's candidates is left out, as are scopes, redaction and segmentation.

### The operators of `Algorithms`

`Brain` turns any wish list into a plan (slugs, suffixes of colliding names,
domains, aliases, targets the bundle has shown), states the errors the plan gate finds in it, among
them names and domains no path may be made of (`IsSafeBasename`), and splices answered prose into
sentinel regions, without the fences, comments and links that one pass takes out. `Backends` resolves act → backend → sandbox. `VaultImport` and
`KbConvert` place and rename notes, retarget links, ground provenance and complete
maps. `Gold` scores, ranks and fills a budget; `Reader` walks links from the maps,
scores, orders and draws the graph around a note. `RepoInit` is the sequence of
writes of `agora repo init`, cut after any of them and run again. `Uploads` is the
batch rule of the web upload. They are functions of what they read once; `Algorithms`
makes one call of one of them an action, so that TLC enumerates the inputs as
states. Each module states its properties with a reference definition of its own
(the shortest distance for the walk, no claim left out that fits beside the better ones
for the budget, where a link led in the source for a link of the import). A loop over a
sequence is a function of the position reached (`Normalized`, `Authored`, `Captured`,
`Writes`, `AfterRuns`, the fill of the budget), and an order is a rank (how many go before),
so that both can be proved about.

## Runs

| run | instance | properties | what it shows |
|---|---|---|---|
| `crash` | 3 events of one content (two retries under one key; one that cannot be returned), 1 process, 4 runs, 1 crash, 1 foreign commit, budget 2, cap 1 | `TypeOK`, `NoEventDestroyed`, `PublishedFirst`, `RunsSettle`, `BudgetKept`, `ImplementsDelivery` | nothing is lost, drained before its commit, recorded without one or charged for a conflict; the spool implements `Delivery` |
| `live` | 2 events of distinct contents, 6 runs, 1 crash, 1 foreign commit, cap 1 | `PublishedIsFinalized`, `CapturedIsSettled` | every published run is finalized, every capture settled |
| `double` | 2 processes, no crash | `PublishedAtMostOnce` | *violated* (below) |
| `attach` | 3 events, 2 writers, 2 blobs, 3 runs, 1 requeue, 1 crash | `NoBytesLost`, `BytesFollowEvents` | no blob is lost, left in a staging area or taken from another writer, but by a crash inside a carry |
| `requeue` | 3 events (two retries under one key; one that cannot be returned), 1 process, budget 2, 3 runs, 2 requeues, 1 crash | `BudgetKept`, `ReleaseIsPromised`, `PublishedOnce` | budgets are released by the drain rule alone, a reset converges after a crash, the preview is the result, a forced requeue delivers nothing twice |
| `consolidation` | 3 runs over 2 days, every plan over 9 wishes, 8 rogue edits, a hand-written namesake | `CapturesStayCited`, `TreeWellFormed`, `PendingIffUnauthored`, `GatedNeverOriginates`, `OldNotesBlamedInTwoCases`, `RunConfined` | what is published is what APPLY wrote plus prose where it was asked for; provenance, names, maps and flags stay consistent across runs |
| `blame` | as `consolidation`, tame | `LintBlamesThisRun` | *violated* (below) |
| `workingcopy` | 2 notes, 3 commits by curator, owner or another machine, 1 edit | `DerivedIsCurrent`, `SyncIsExact`, `BackupIsTrue`, `ReadersCatchUp` | uncommitted edits are kept, files catch up, derived data is not stale, the backup never rewrites |
| `restamp` | 15 trees, 4 vaults, 3 processes on 2 hosts, 3 commits | `RestampConfined`, `RestampRepeats`, `NoCommitLost` | a restamp changes mirror and tags only, is idempotent, and publishes nobody's commit away |
| `watch` | 3 schedules of a small calendar (4 minutes a day, 3 days a month, 2 a week), intervals 1 and 6, cap 4, 15 units of time, 3 captures, 2 faults or conflicts, budget 2 of each event | `SleepIsBounded`, `OneRunPerFire`, `SettledInTime` | the loop neither hammers nor oversleeps, a fire is run once, every event is settled in time |
| `harvest` | 2 connectors of one agent that share a fact, a gold pack, 2 harvesters, 2 facts a scan, 1 edit, 1 crash or failed run | `SkippedIsWritten`, `NothingFiledTwice`, `RestingIsSettled` | an unchanged source has all its facts in, no two runs decide on a fact of the agent, and the wiki never feeds on its own gold pack |
| `algorithms` | 49700 inputs | `BrainIsTamed`, `ActsRunWhereConfigured`, `ImportIsFaithful`, `ConversionIsFaithful`, `PackIsBestFit`, `ReaderIsExact`, `InitIsRepeatable`, `BatchIsAnswered` | the functions against their reference definitions |

A property named here may be a conjunction of parts; each part is defined, with
its comment, where the conjunction is.

Bounds, and why they are enough. `CuratorRun`: four runs (`crash`) give an event a failure,
a second that spends a budget of 2, a recovery and a publication in one behaviour;
`MaxAttempts = 2` is the least budget with a retry; `Cap = 1` has both sides, since
events of one content are claimed together (`crash`, `requeue`) and events of two
contents one at a time (`live`). One crash falls at every point of every run; one
foreign commit loses one CAS (`crash`); `requeue` has none, and three runs: two spend a
budget, the third meets what a requeue gave back. `Attachments`: two writers and two blobs make a file
shared within a writer and between writers; the third event is the one a wrong carry
would rob. `Consolidation`: the third run is the first that meets what a merge or
contest of the second did to a note of the first, and the day changes between the
second and it or before; two events of one text fold into a group, gated and not.
`WorkingCopy`: the second commit is the one a checkout can lag behind, the third the
one that finds it lagging; one version of the owner's is enough to be lost. `Restamp`:
the parent, another process's commit and the restamp's. `Watch`: the horizon holds two
back-offs up to the cap and a budget's attempts; the calendar has days the schedule
matches by either field, by both and by none. `Harvest`: the two
connectors are of one agent, since candidates of two agents never meet; `MaxFacts = 2` is smaller
than what the notes hold, the sibling may repeat the transcript's fact or be a whole pack, the
notes hold a pack among their facts, and the one crash falls between any two writes, between two
verdicts, or gives a run back. Torn packs and several agents are the theorem's. `Algorithms`:
inputs are *every* subsequence of a pool of notes (10 and 5 for vaults, 11, 8 and 9) chosen for the
branches of the code: colliding names, links in both directions, notes without
provenance, maps, dailies of one date, people, husks; every cut of `repo init`
followed by one or two more runs.

Where a cfg says `CHECK_DEADLOCK FALSE`, the model stops because a bound is reached
or the one call has been made.

Fairness.

* `live`: `WF(Step(p))`: a process that has started keeps running; every loop in
  the code is over a finite directory. `SF(Trigger(p))`: with a backlog the idle
  trigger is due again and again, and `watch` ticks for ever. Crashes, captures and
  foreign commits have none. With a budget of 2, six runs are enough for two events:
  at most two failures each and one run each for the crash and the lost CAS.
  `CapturedIsSettled` excepts an event stranded by a crash inside a claim (below) and
  one whose key another capture delivered.
* `workingcopy`: `SF(Recover)`, because every tick of the loop recovers before it
  runs (`cli.py:2814`); `WF` of the publish and sync of a run and of the builds that
  follow, because a run that was started goes on unless it crashes. The owner, the
  crash and the push have none.
* `harvest`: `WF` of a harvester's next write or save, `SF(Scan)` per connector (the
  owner is told to harvest periodically, `docs/GETTING-STARTED.md:953`), `WF` of the curator. Changes of a
  source, crashes and returned batches have none.

## Findings

* `double` — `recover()` does not take the curator lock: a second invocation on
  the same host returns the events of a live run to the inbox, and both runs publish
  them. `docs/LIMITATIONS.md:219` says the loser is a clean no-op.
* `blame` — the run-relative half of lint rule L1-14 (`schema/lint.py:914`) grades
  every journal of the day: after one run of the day wrote the journal, a run of the
  same day whose plan does not append to it fails the lint and spends its captures'
  budget. The docstring (`:880`) says the check is scoped to the run's own journal.

Divergences between the code and a doc or comment that were met while modelling; the
models do what the code does, and the properties above are stated so that they hold
of it (with the exemption named):

* A crash inside `claim()`, after renames and before `run.json`, strands events where
  no recovery looks (`curator/claim.py:167`; `docs/ARCHITECTURE.md:270` and
  `docs/INGEST-CONTRACT.md:554` say otherwise). `CapturedIsSettled` excepts them.
* A finalized run's directory is finalized again at every start
  (`curator/worker.py:1460`, docstring `:1435`).
* A staged file is reused by a capture, and nothing keeps it there until the event is
  appended (`core/inbox.py:417`, comment `:255`): an event can be in the inbox without
  its bytes. `BesideAtRest` says which captures are exposed.
* A crash between the rename of a returned event and its carry leaves its bytes in the
  run's directory, which the next recovery removes (`curator/worker.py:1533`;
  `core/inbox.py:874` says they stay recoverable). The `cut` events of `Attachments`.
* `read-tree -m -u` overwrites a file the owner has *staged* (`core/repo.py:537`; `:513`
  says never-clobber). `OwnerEditsKept` excepts it. Seen with git itself.
* A sync refused by a dirty file, a HEAD detached meanwhile and the file restored leave
  an index that lags behind HEAD; the next publish fast-forwards and keeps the stale
  file, and a pack labelled with the tip holds it. `FreshPackIsNotStale` excepts it
  (`lagged`). Seen with git itself.
* An unlocked recovery may quarantine a file without an address during a requeue: its
  attempt record then stays, though the preview promised to archive it
  (`curator/worker.py:1533`; `curator/requeue.py:96` calls "the dry-run list equals the real
  result" a mechanical property). `PreviewIsResult` excepts it.
* A pack is labelled with the tip and read from the files, the owner's uncommitted ones
  included (`core/gold.py:527`); an owner who commits everything from a checkout behind the
  tip takes the curator's publish back (`core/repo.py:540`).
* A concept contested on one day makes a later day's run fail lint L1-10
  (`schema/lint.py:1545`): the second case of `OldNotesBlamedInTwoCases`.
* COVERAGE (`curator/plan.py:388`) counts event ids over the whole plan and does not ask that a
  disposition carry those of its candidate, but APPLY looks the captures up by the candidate
  label: a plan that mislabels a candidate passes the gate and loses the provenance that
  `:674` says "can never be lost". `NamedCapturesStayCited` is about the candidates a plan names.
* On a schema-2 tree every MERGE or CONTEST of the Ollama driver becomes a DROP, since it
  keeps only paths below `/themes/` (`adapters/ollama_brain.py:342`; the prompt of
  `curator/subprocess_backend.py:107` offers them). A CREATE may take a name an earlier alias
  holds (`:546`). An alias may be the name of a journal that an earlier disposition of the same plan
  appends to, since `within_plan_new` holds the created themes alone (`:725` says aliases are
  de-collided against all that L1-15 grades), and a theme may be created under the journal's name.
* `est_tokens` of a pack may exceed its budget by one (`core/gold.py:664`).
* The names of an import are not "unique by construction" (`ingest/vault_import.py:1598`): the
  name a displaced note is given, its stem with a hash of its body, is claimed without asking
  whether it was free (`:1581`). Of three notes with one stem and two with one body, one
  overwrites its copy; a map and a concept of one text can end with one basename; and a domain
  called `index` gets a second note of that name when the vault has no root index.
  `NotesKept` and `ImportedNamesUnique` name these cases. Only the first existing cited raw file
  is copied (`:994`).
* `agora repo init` cut between its two commits says `already` when run again and leaves
  `AGENTS.md` and the taxonomy untracked (`cli.py:784` says there is nothing to commit); an
  explicit `--schema 2` passes over an undeclared schema-1 tree. Where the taxonomy
  cannot be read it contradicts no request, so that a `--schema 2` cut or failed between two
  `--schema 1` leaves an identity that no commit holds (`mixed` in `SuccessIsCommitted`).
* The Ollama driver's plan is not "valid-by-construction" (`adapters/ollama_brain.py:522`, `:8`).
  The slugger drops a leading `_` because "a producer must never emit what the validator rejects"
  (`:368`), but keeps a suffix `.md` ("Foo.md" gives `foo.md`) and strips once (`_-_x` gives
  `_x`): the gate refuses both (`curator/plan.py:602`), and with them the whole batch. The comment
  at `curator/plan.py:170` knows of the first. A declared domain that is no safe component fails
  every plan that uses it (`curator/plan.py:589`). `NormalizedPassesGate` names the three cases
  in which the gate refuses a normalized plan, and each is reached by an input of the run.
* A fence, comment or link that is split around another survives `sanitize_prose`, which removes
  each in one pass (`adapters/ollama_brain.py:480`; its docstring says that the model "can never
  inject/break a body sentinel"). A forged sentinel is then stopped by the diff gate.
  `AuthorLeavesTheRest` names what is left.
* A fact that connectors of two agents see is filed twice: the writer is part of the key
  (`harvester/harvester.py:445`, `curator/claim.py:228`). The copies of a candidate that claim
  passes over as delivered stay in the inbox, where they count as pending for good (`:230`).
  `FiledOnce` is about one agent's candidates.
* The lines of a gold pack whose marker is lost come back as candidates, as
  `core/sentinel.py:76` says of a lone marker. `NoEcho` excepts them (`torn`).
* Facts past `max_facts` of an unchanged source are never read (`harvester/connectors.py:339`),
  and a verdict count may be lost by the cursor's other writer (`curator/worker.py:2709`).

## Proofs

All theorems are checked by TLAPS for every value of the constants the assumptions
admit: any finite sets of events, processes, notes or hosts, any bounds, any calendar.
The assumptions are types of constants, but for those named below.

`CuratorRunProofs` proves `Spec => []TypeOK`, one lemma per action; `CurStep` and
`LockStep` are the facts about control that everything else cites. Its second part
proves three invariants from `IInv`; none is inductive alone. `NoEventDestroyed` needs
that when a process stands before an rmtree of run `r` with nothing left to do, nothing
is in `processing/<r>`, whatever *other* processes do, which needs that only the process
that minted `r` ever moves an event into it, and only before its manifest exists.
`ProcessedIsPublished` needs that a process that drains `r` has seen `r` published,
which in recovery rests on the snapshot of the manifests it read, hence the conjuncts on
`manifest`, `snap` and `mem`. `RecordedIsPublished` follows from the same; `CommitFirst`
joins the two into `PublishedFirst`. The third part proves `BudgetKept`
(`BudgetHolds`) from `BInv`: an error record is written only for the run that is
failing, and never removed; a run with a recorded sha is past the gates and never
reaches `_fail` with a charge, not even through a recovery. All of this holds with
unlocked recoveries.

Its fourth part is about what unlocked recoveries do endanger, so it assumes
`OneProcess`: at most one process ever curates. Without it its theorems are false; the
run `double` is the counterexample. `OInv` says that beside the run in hand and those the
recovery has yet to see every run is settled, that an event of a published run is in that
run's directory or in `processed/`, that the manifests a recovery has read and the
copy of `state.json` it will save back are not stale, and that what a claim holds has no key
delivered before. From it follow `PublishedOnce`,
`RunsSettle`, and that every step is a step of `Delivery` or a stutter
(`DeliveryImplemented`): the refinement, for any number of events and runs and a crash
between any two steps.

The last part of `CuratorRunProofs` proves the properties of `requeue` of `RSpec`, where an operator archives
records and forces events back. `Beside` is what makes it possible: while another command
holds the lock, whatever processes and their unlocked recoveries do, no file leaves
`failed/`, only one without an address enters it, and no record is written (`Steady`). `QInv`
follows an invocation: `ItemsOK` says that the moves still to make are of terminal events
that have an address, `PlannedOK` that before they are made the preview is what the events
left over will release, `WalkOK` that the walk over the records releases some of it and has
passed no record it should have released. So no record leaves from under an addressable
event that stays terminal (`BudgetHoldsBesideRequeue`, with `BInv`), and
`SpoolSafeBesideRequeue` and `DeliveredOnceBesideRequeue` (which assumes `OneProcess`) carry
the theorems of `CuratorRun` over, their invariants being about directories and runs a
requeue does not touch: a forced event is stopped by the next claim's de-duplication alone.
`ReleaseKeepsPromise` first failed with *the preview equals the result*; TLC then found the
recovery that quarantines a file during a requeue, and `PreviewIsResult` now names it.

`AttachmentsProofs` proves both properties of `attach`: `CarryOK` says what a
carry that was cut may still have to bring, `SafeOK` and `SoleOK` where the bytes of an
event are meanwhile, `FilesOwned` that every file has an event that put it there and has not
left without it. Event ids are positive (0 is the model's *no event*).

`WorkingCopyProofs` proves all three safety properties of `workingcopy`. `Fresh`
bounds the versions in commits, files and index, so that a text the owner types is
always new; `Dirty` says that a file leaves the index only by what the owner did not commit,
`LagOK` and `CleanOK` that index and files agree with the tip, or hold the owner's text, once
a detached head has caught up and while a synced run builds, `PackOK` that a pack that counts
as the tip's holds the tip's notes. `Exact` and `BackedUp` are action properties from the same
invariant.

`RestampProofs`: `HistoryOK` says that every restamp commit on the branch is the result
of the plan of the tree below it, `PreparedOK` the same of the tree a host has built
but not published, and the `Shape` of both bounds the versions in them, so that the owner's next
text is new. `Confined` then is a
property of the plan (`RestampChanges`), and `Repeats` rests on
`PlanIsRepeatable`: the plan of its own result is empty, which is where the order of
vault tags, taxonomy policy and aliases matters. `CommitsAreKept` needs the
compare-and-swap only.

`HarvestProofs` proves both safety properties of `harvest`, for any connectors, agents, processes,
sources (torn packs too) and bounds. For `Skipped`, `CursorOK` and `JudgingOK` say that the facts
behind every digest a cursor holds, now or after a save in flight, are in the inbox, in a run or
recorded, and `ScanOK` that a scan has written the facts of its digest but for those it has still to
write, though the source has changed since; `DigestStandsForFacts` is why a digest tells them. For
`FiledAtMostOnce`, `LedgerOK` says that a candidate has been filed exactly when it is recorded or
its run is published and on its way to record it, and that a run never holds a recorded one: so no
copy of it, however it came to the inbox, is claimed before the record and none after it. That rests
on one run at a time (`CuratorRun`). `WholeOK` follows a line of a pack: with both markers
around it, it is in a span (`WholeIsSpanned`), and a stripped text holds tokens outside every
span alone (`StrippedIsOutside`, by induction over the text). Assumed are types: that texts are
strings other than the labels of a source (`SourceAssumption`).

`WatchProofs` proves the three properties of `watch` for any calendar, schedules,
intervals, cap and horizon. `SleepBounded`: `Nap` says that the present sleep is at
most the longest, at least an interval after a failure, and ends within the longest of
what fell due; the back-off is bounded by `max(interval, cap)` by arithmetic on its shift. `FiresRunOnce`
needs an injection: `Counted` says that the cron runs so far are no more than the fires
up to the last run, and the look-back finds only fires after it. `SettledOnTime`: among the pending
events one lasts: it is the newest and has failed least, so that it leaves with the last
(`Lasts`); `Rhythm` ties its failures to the time since it was written, and a capture makes the new
event the one that lasts. The provers lack
exponentiation, so that a power of two is a positive natural is an assumption
(`PowersAssumption`), which TLC evaluates.

`ConsolidationProofs` proves the six properties of `consolidation` from `IInv`, for any
batches, wishes, dates and rogue edits. `TreeInv` says what a published tree is: typed notes,
engine notes in the engine's directories with one note per basename, sound links, sources and
contested marks (`Linted`), pending flags and gated sources (`NotesOK`), maps and index.
`RunOK` says the same of a run in flight as far as the gates have not yet decided: APPLY's tree
extends the tree of its base (`AppliedOK`), the worktree is that tree but for prose in the
regions asked for and files the allowlist does not know (`AuthoredOK`); `BaseOK` says that the
branch has since gained notes of persons at most, since any other commit moves `head`. Three
points carry the argument. A merge may find a person's note under the name of a concept (`Usurped`): APPLY
then writes to it, and only lint's duplicate rule stops the run, so that nothing about flags and
maps is claimed of the worktree until that rule has passed (`Unusurped`, `PublishedTree`). Lint
grades every note that carries the engine's stamp in the base or that the run changed,
so its clean verdict is `Unique` and `Linted` of the whole next tree (`LintClean`). And what
lint blames without the run having touched it was clean when it was published, under all
rules but the two that compare with the run's date (`OldBlame`). `PlanAssumption` types the
constants; that the index note's name is a string is the only thing the provers must be
told about literals (`Path`).

`AlgorithmsProofs` proves all eight properties of `algorithms`, whatever the input. Of a vault
and a schema-1 repo it assumes that they are sequences of notes (`VaultsAssumption`,
`KbsAssumption`); what it assumes of the other inputs is named below. The argument for the import is one about names. The
notes that infer one basename are ordered by destination and source, and by the
well-foundedness of `<` one of them comes first (`NatMin`): it keeps the name, all others are
displaced. So when two planned notes have one basename, one of them gave way and both have one
text (`SameName`); `Plan` collects this, that the place of a note determines its kind, and that the
index has its name to itself, and everything else is proved of any `Plan`: `KindAt` and
`NoteAt` say what is written at a path when the last write wins, and links, sources and maps
follow. Three statements were false as first written; the proof showed it and the model
checker now has the inputs (`CopyPool`). They are the divergence of the import above. For the conversion, the notes merged into one journal are
enumerated by rank, and `Places` shows by counting that a rank belongs to exactly one of them, so
that none is lost and none appears twice; and since a conversion with a collision refuses,
a basename stands for one note (`FaithfulConversion`). The routing is a case analysis.

The other five parts loop over data. `Induct` (a least counterexample, by the
well-foundedness of `<`) gives each of their functions of a position its equation, and the
invariant of the loop follows from it.

* `BatchesAreAnswered` (`BatchesAssumption`: files are a sequence, sizes are naturals). After
  `k` files the inbox is what is good among them, up to the first that the disk refuses.
* `InitsAreRepeatable` (`InitsAssumption`: a tree has its fields, a run its schema and its
  cut). The writes of a run are followed one by one: each is idempotent, and a field once set is
  not written again but by the mirror. So what runs of one request leave after any cuts, with
  the steps that are left, is what one run writes; whether the files are in a commit is followed
  by the same steps, from the run that makes the first commit. `SuccessIsCommitted` was false
  as first written: two requests that differ, with a taxonomy that cannot be read, leave an
  identity untracked. The instance now holds such inputs.
* `BrainsAreTamed` (`PlansAssumption`: candidates have ids and captures of their own and a hash
  that is a safe name, hits are concepts of the registry, as `build_bundle` shows no other, the date
  is a safe name, and no domain is the empty name;
  `AuthoringsAssumption`: a note and the regions asked for are sequences). Nothing is assumed
  of what the model answers. The invariant of the plan's loop is that the names taken so far,
  the aliases given so far and the hits are kept apart; a fresh suffix exists, because the names
  taken are finitely many. That a slug nobody said is not refused comes last (`UnsafeIsSaid`): the
  name is then the hash. Two clauses of `AliasesApart` were false as first written (below, in
  the divergences).
* `QueriesAreExact` (`QueriesAssumption`, `DrawingsAssumption`: files and lines are sequences,
  tokens are finitely many). The walk after `d` rounds is the set of notes that some path of at
  most `d` links leads to. The prefilter is exact because a file it drops does not pass
  the gate of a hit, and a note's place is its rank among those that score. That a person's note lends nothing is
  that each operator of the score gives the same value with the note renamed and its links cut.
* `PacksAreBestFit` (`PackingsAssumption`: notes are a sequence, ages and bytes are naturals). The
  ranks are a bijection with the eligible notes, since of two one is better (`Better` is a strict
  total order on them), and no eligible note is harvested, so that the cap on harvested notes drops
  none. After `k` ranks the fill has spent what the lines taken cost, so a line skipped did
  not fit beside the better ones; and the bytes of the lines sum to no more than four times their
  tokens, which leaves the one byte that may cost a token. Scores are integers whatever the
  graph is, which is all the ranking needs of them.

Only model-checked: all liveness (`PublishedIsFinalized`, `CapturedIsSettled`,
`ReadersCatchUp`, `RestingIsSettled`), which TLAPS cannot prove. Every safety and action property
of a passing run is a theorem. `LintBlamesThisRun` and `PublishedAtMostOnce` are false of the
code and have no theorem.

## Not modelled

* Redaction (regular expressions over text) and text extraction (I/O around
  third-party parsers).
* The form of single fields: YAML, escaping, limits on lengths, the rules of lint
  and of the plan gate that look at one field alone.
* `Reader`: tokenisation, CJK, idf, saturation and length normalization, which scale a
  positive weight. `Gold`: rendered text; its scores are exact in units of 1/60000, where
  the code rounds to six digits.
* `Brain`: more than two candidates; the HTTP call. The CLI-agent driver answers to the
  same gates. What a sandbox enforces is the operating system's.
* `Harvest`, `Watch`: the cap on the candidates of a run, which `CuratorRun` has.
* Dashboard fields of `state.json`, metrics, templates and routes of the web face.
* Corrupt bytes, a full disk, I/O errors of single files; the temp-and-rename of a durable
  write, each of which is one atomic step here.

## Plan

1. done: the core (`CuratorRun`, `Delivery`, `Requeue`, `Attachments`), its runs and theorems.
2. done: `Consolidation`, `WorkingCopy`, `Restamp`, `Watch` and its theorems, `Harvest`, and
   the functions of `Algorithms`.
3. done: the theorems of `CuratorRun`, the refinement of `Delivery` for one process, the
   theorems of `Requeue`, `Attachments`, `WorkingCopy`, `Restamp`, `Watch`, `Harvest` and
   `Consolidation`, and those of import, conversion and routing.
4. done: the theorems of the parts that loop over data: the plan and PASS 2, gold packs, queries
   and drawings, repo init, and the batch upload.
5. What would come next is more of the system, not more proofs: the tokenizer and the
   weights of `Reader`, the rules of lint that look at one field, redaction.
