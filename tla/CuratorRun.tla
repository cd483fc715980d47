----------------------------- MODULE CuratorRun -----------------------------
(***************************************************************************)
(* The life of a captured event in the spool `_kb/` of one repo: capture   *)
(* into the inbox, claim by a curator run, publication of the run's commit *)
(* on the curated branch, finalization, the failure path with its retry    *)
(* budget, and the recovery pass every curation starts with.               *)
(*                                                                         *)
(* A process p \in Proc is one invocation loop of `agora curate`, of       *)
(* `agora watch` or of the MCP tool `kb_curate`.  Each of them calls       *)
(* recover() WITHOUT the curator lock and then run() under it.  One step   *)
(* is one durable file operation or one git ref update: a crash may fall   *)
(* between any two.                                                        *)
(***************************************************************************)
EXTENDS Naturals, FiniteSets

CONSTANTS
    Event,        \* event ids; `<=` is the FIFO order of the time-sortable id
    KeyOf,        \* KeyOf[e]: the composite writer:event_key of e, or NoKey
    NoKey,
    ShaOf,        \* ShaOf[e]: the canonical content_sha256 of the body
    Addressable,  \* the events whose frontmatter names a valid writer and id
    Proc,         \* curating processes
    Other,        \* other commands that take the curator lock
    NoProc,       \* nobody holds the curator lock
    Cap,          \* curator.limits.max_candidates_per_run
    MaxAttempts,  \* curator.max_attempts
    MaxRuns,      \* bound: run ids minted
    MaxCrashes,   \* bound: crashes of curating processes
    MaxForeign    \* bound: commits others put on the curated branch

ASSUME EventAssumption == Event \subseteq Nat /\ IsFiniteSet(Event)
ASSUME KeyAssumption == Event \subseteq DOMAIN KeyOf
ASSUME AddressableAssumption == Addressable \subseteq Event
ASSUME ProcAssumption == NoProc \notin Proc \cup Other /\ Proc \cap Other = {}
ASSUME BoundAssumption ==
    /\ Cap \in Nat \ {0}
    /\ MaxAttempts \in Nat \ {0}
    /\ MaxRuns \in Nat
    /\ MaxCrashes \in Nat
    /\ MaxForeign \in Nat

VARIABLES
    spool,      \* spool[e]: the directory that holds e's file
    manifest,   \* manifest[r]: processing/<r>/run.json
    job,        \* job[r]: the fields of r's manifest fixed at the claim
    records,    \* records[r]: event ids in failed/<date>/<r>/error.json
    st,         \* state.json: delivered keys and recorded runs
    published,  \* runs whose commit is on the curated branch
    head,       \* length of the curated branch
    lock,       \* holder of curator.lock
    nextRun,    \* next run id (time-sortable)
    crashes,
    pc, cur, todo, backlog, snap, mem   \* per process: control and locals

diskVars  == <<spool, manifest, job, records, st>>
gitVars   == <<published, head>>
localVars == <<cur, todo, backlog, snap, mem>>
vars == <<diskVars, gitVars, lock, nextRun, crashes, pc, localVars>>

-----------------------------------------------------------------------------
(* The spool's directories and the two durable records.                    *)

Run   == 1 .. MaxRuns
Phase == {"none", "claimed", "applied", "published", "finalized"}

Place(dir, r) == [dir |-> dir, run |-> r]
Unwritten     == Place("unwritten", 0)
Writing       == Place("writing", 0)     \* between the key scan and the append
Inbox         == Place("inbox", 0)
Processing(r) == Place("processing", r)
Processed     == Place("processed", 0)
Failed(r)     == Place("failed", r)
Destroyed     == Place("destroyed", 0)   \* removed by an rmtree

Manifest   == [phase : Phase, sha : BOOLEAN]
NoManifest == [phase |-> "none", sha |-> FALSE]
NoSnapshot == [r \in Run |-> NoManifest]

State    == [keys : SUBSET {KeyOf[e] : e \in Event}, runs : SUBSET Run]
NewState == [keys |-> {}, runs |-> {}]

Pending    == {e \in Event : spool[e] = Inbox}
InRun(r)   == {e \in Event : spool[e] = Processing(r)}
\* (mutant) recovery lists only the runs not yet marked published.
InFlightUnpublished == {r \in Run : manifest[r].phase \in {"claimed", "applied"}}

InFlight   == {r \in Run : manifest[r].phase # "none"}   \* list_processing
IsFirst(x, S) == \A y \in S : x <= y

-----------------------------------------------------------------------------
(* What the handlers compute.                                              *)

\* _dedup_tier1: the FIFO-earliest event of each key not yet delivered.
Deduped(S, keys) ==
    {e \in S : \/ KeyOf[e] = NoKey
               \/ /\ KeyOf[e] \notin keys
                  /\ \A d \in S : KeyOf[d] = KeyOf[e] => e <= d}

\* _cap_candidate_head: the longest FIFO head with at most Cap contents.
CapHead(S) ==
    {e \in S : Cardinality({ShaOf[d] : d \in {x \in S : x <= e}}) <= Cap}

\* _event_attempt_counts: retained error records that name e.
Attempts(e) == Cardinality({r \in Run : e \in records[r]})

\* (mutant) no git lookup: the manifest and the state file decide alone.
IsPublishedByRecord(p, r) ==
    snap[p][r].phase \in {"published", "finalized"} \/ r \in mem[p].runs

\* (mutant) a recorded sha counts, whether or not the branch has it.
IsPublishedBySha(p, r) == IsPublishedByRecord(p, r) \/ snap[p][r].sha

\* recover(): is the run of this manifest durable in git?
IsPublished(p, r) ==
    \/ snap[p][r].phase \in {"published", "finalized"}
    \/ r \in mem[p].runs
    \/ snap[p][r].sha /\ r \in published

\* (mutant) a refused return leaves the event in the run directory.
ReturnPlaceNoFloor(e, r) == IF e \in Addressable THEN Inbox ELSE Processing(r)

\* (mutant) a refused return goes to a directory of its own.
ReturnPlaceQuarantine(e, r) ==
    IF e \in Addressable THEN Inbox ELSE Place("quarantine", r)

\* _return_events_to_inbox: a refused return is preserved in failed/<r>.
ReturnPlace(e, r) == IF e \in Addressable THEN Inbox ELSE Failed(r)

\* _fail: back to the inbox within the retry budget, else terminal.
DisposePlace(e, r) ==
    IF Attempts(e) < MaxAttempts THEN ReturnPlace(e, r) ELSE Failed(r)

\* (mutant) the keys are looked for where the events were before the drain.
DrainedKeysEarly(r) ==
    {KeyOf[e] : e \in {x \in InRun(r) : KeyOf[x] # NoKey}}

\* _record_event_keys: keys of the run's events found under processed/.
DrainedKeys(r) ==
    {KeyOf[e] : e \in {x \in job[r].events : spool[x] = Processed
                                             /\ KeyOf[x] # NoKey}}

-----------------------------------------------------------------------------
(* Control of a process.                                                   *)

Goto(p, label) == pc' = [pc EXCEPT ![p] = label]

\* (mutant) the lock survives the way out.
ExitHoldingLock(p) ==
    /\ Goto(p, "idle")
    /\ cur' = [cur EXCEPT ![p] = 0]
    /\ todo' = [todo EXCEPT ![p] = {}]
    /\ backlog' = [backlog EXCEPT ![p] = {}]
    /\ snap' = [snap EXCEPT ![p] = NoSnapshot]
    /\ mem' = [mem EXCEPT ![p] = NewState]
    /\ UNCHANGED lock

\* Leaving run() or recover(), normally or by an exception: the lock is
\* released and the locals are gone.
Exit(p) ==
    /\ Goto(p, "idle")
    /\ lock' = IF lock = p THEN NoProc ELSE lock
    /\ cur' = [cur EXCEPT ![p] = 0]
    /\ todo' = [todo EXCEPT ![p] = {}]
    /\ backlog' = [backlog EXCEPT ![p] = {}]
    /\ snap' = [snap EXCEPT ![p] = NoSnapshot]
    /\ mem' = [mem EXCEPT ![p] = NewState]

\* The end of a run, or of one manifest's turn in recover().
Resume(p) ==
    IF lock = p
    THEN Exit(p)
    ELSE /\ Goto(p, "recover")
         /\ cur' = [cur EXCEPT ![p] = 0]
         /\ todo' = [todo EXCEPT ![p] = {}]
         /\ mem' = [mem EXCEPT ![p] = st]
         /\ UNCHANGED <<lock, backlog, snap>>

\* _advance: rewrite run.json, recreating its directory when it is gone.
Advance(r, phase, sha) ==
    manifest' = [manifest EXCEPT ![r] = [phase |-> phase, sha |-> sha]]

Init ==
    /\ spool = [e \in Event |-> Unwritten]
    /\ manifest = [r \in Run |-> NoManifest]
    /\ job = [r \in Run |-> [events |-> {}, base |-> 0]]
    /\ records = [r \in Run |-> {}]
    /\ st = NewState
    /\ published = {}
    /\ head = 0
    /\ lock = NoProc
    /\ nextRun = 1
    /\ crashes = 0
    /\ pc = [p \in Proc |-> "idle"]
    /\ cur = [p \in Proc |-> 0]
    /\ todo = [p \in Proc |-> {}]
    /\ backlog = [p \in Proc |-> {}]
    /\ snap = [p \in Proc |-> NoSnapshot]
    /\ mem = [p \in Proc |-> NewState]

-----------------------------------------------------------------------------
(* The environment.                                                        *)

\* Inbox.write, first half: the best-effort scan of the pending inbox for
\* the same writer:event_key found nothing.
CheckKey(e) ==
    /\ spool[e] = Unwritten
    /\ KeyOf[e] # NoKey => \A d \in Pending : KeyOf[d] # KeyOf[e]
    /\ spool' = [spool EXCEPT ![e] = Writing]
    /\ UNCHANGED <<manifest, job, records, st, gitVars, lock, nextRun,
                   crashes, pc, localVars>>

\* Inbox.write, second half: exclusive create of the event file.
Append(e) ==
    /\ spool[e] = Writing
    /\ spool' = [spool EXCEPT ![e] = Inbox]
    /\ UNCHANGED <<manifest, job, records, st, gitVars, lock, nextRun,
                   crashes, pc, localVars>>

\* Someone else advances the curated branch (a merge, a pull, a commit of the owner).
ForeignCommit ==
    /\ head - Cardinality(published) < MaxForeign
    /\ head' = head + 1
    /\ UNCHANGED <<diskVars, published, lock, nextRun, crashes, pc, localVars>>

Crash(p) ==
    /\ pc[p] # "idle"
    /\ crashes < MaxCrashes
    /\ crashes' = crashes + 1
    /\ Exit(p)
    /\ UNCHANGED <<diskVars, gitVars, nextRun>>

-----------------------------------------------------------------------------
(* recover(): no curator lock is taken.                                    *)

\* state load, then every manifest is read before the first is acted on.
RecoverBegin(p) ==
    /\ pc[p] = "idle"
    /\ Goto(p, "recover")
    /\ backlog' = [backlog EXCEPT ![p] = InFlight]
    /\ snap' = [snap EXCEPT ![p] = manifest]
    /\ mem' = [mem EXCEPT ![p] = st]
    /\ UNCHANGED <<diskVars, gitVars, lock, nextRun, crashes, cur, todo>>

RecoverFinalize(p) ==
    /\ pc[p] = "recover"
    /\ \E r \in backlog[p] :
         /\ IsFirst(r, backlog[p])
         /\ IsPublished(p, r)
         /\ cur' = [cur EXCEPT ![p] = r]
         /\ backlog' = [backlog EXCEPT ![p] = @ \ {r}]
    /\ Goto(p, "load")
    /\ UNCHANGED <<diskVars, gitVars, lock, nextRun, crashes, todo, snap, mem>>

RecoverReturn(p) ==
    /\ pc[p] = "recover"
    /\ \E r \in backlog[p] :
         /\ IsFirst(r, backlog[p])
         /\ ~IsPublished(p, r)
         /\ cur' = [cur EXCEPT ![p] = r]
         /\ backlog' = [backlog EXCEPT ![p] = @ \ {r}]
         /\ todo' = [todo EXCEPT ![p] = InRun(r)]
    /\ Goto(p, "return")
    /\ UNCHANGED <<diskVars, gitVars, lock, nextRun, crashes, snap, mem>>

RecoverEnd(p) ==
    /\ pc[p] = "recover"
    /\ backlog[p] = {}
    /\ Goto(p, "decide")
    /\ snap' = [snap EXCEPT ![p] = NoSnapshot]
    /\ mem' = [mem EXCEPT ![p] = NewState]
    /\ UNCHANGED <<diskVars, gitVars, lock, nextRun, crashes, cur, todo,
                   backlog>>

-----------------------------------------------------------------------------
(* Triggers and the claim.                                                 *)

NotDue(p) ==
    /\ pc[p] = "decide"
    /\ Exit(p)
    /\ UNCHANGED <<diskVars, gitVars, nextRun, crashes>>

\* run(): the non-blocking flock, or LockHeld reported as a noop.
Trigger(p) ==
    /\ pc[p] = "decide"
    /\ nextRun <= MaxRuns
    /\ IF lock = NoProc
       THEN /\ lock' = p
            /\ Goto(p, "snapshot")
            /\ UNCHANGED localVars
       ELSE Exit(p)
    /\ UNCHANGED <<diskVars, gitVars, nextRun, crashes>>

Selected == CapHead(Deduped(Pending, st.keys))

ClaimNothing(p) ==
    /\ pc[p] = "snapshot"
    /\ Selected = {}
    /\ Exit(p)
    /\ UNCHANGED <<diskVars, gitVars, nextRun, crashes>>

\* Load the state, read the base from the branch ref, take the snapshot.
ClaimSnapshot(p) ==
    /\ pc[p] = "snapshot"
    /\ Selected # {}
    /\ cur' = [cur EXCEPT ![p] = nextRun]
    /\ nextRun' = nextRun + 1
    /\ job' = [job EXCEPT ![nextRun] = [events |-> Selected, base |-> head]]
    /\ todo' = [todo EXCEPT ![p] = Selected]
    /\ mem' = [mem EXCEPT ![p] = st]
    /\ Goto(p, "claim")
    /\ UNCHANGED <<spool, manifest, records, st, gitVars, lock, crashes,
                   backlog, snap>>

ClaimMove(p) ==
    /\ pc[p] = "claim"
    /\ \E e \in todo[p] :
         /\ IsFirst(e, todo[p])
         /\ spool' = [spool EXCEPT ![e] = Processing(cur[p])]
         /\ todo' = [todo EXCEPT ![p] = @ \ {e}]
    /\ UNCHANGED <<manifest, job, records, st, gitVars, lock, nextRun,
                   crashes, pc, cur, backlog, snap, mem>>

\* The manifest is written only after the last move.
ClaimManifest(p) ==
    /\ pc[p] = "claim"
    /\ todo[p] = {}
    /\ Advance(cur[p], "claimed", FALSE)
    /\ Goto(p, "stamp")
    /\ UNCHANGED <<spool, job, records, st, gitVars, lock, nextRun, crashes,
                   localVars>>

\* state.last_attempt: the state loaded before the claim is saved back.
StampAttempt(p) ==
    /\ pc[p] = "stamp"
    /\ st' = mem[p]
    /\ Goto(p, "bundle")
    /\ UNCHANGED <<spool, manifest, job, records, gitVars, lock, nextRun,
                   crashes, localVars>>

-----------------------------------------------------------------------------
(* The run: bundle, PLAN, APPLY, AUTHOR, gates, commit, CAS.               *)

\* An event file that is gone raises out of run().
BuildBundle(p) ==
    /\ pc[p] = "bundle"
    /\ IF job[cur[p]].events \subseteq InRun(cur[p])
       THEN Goto(p, "plan") /\ UNCHANGED <<lock, localVars>>
       ELSE Exit(p)
    /\ UNCHANGED <<diskVars, gitVars, nextRun, crashes>>

\* The plan is parsed and valid and APPLY succeeded.
PlanAndApply(p) ==
    /\ pc[p] = "plan"
    /\ Advance(cur[p], "applied", FALSE)
    /\ Goto(p, "gates")
    /\ UNCHANGED <<spool, job, records, st, gitVars, lock, nextRun, crashes,
                   localVars>>

\* Every gate passed; the detached commit exists and its sha is recorded.
CommitWorktree(p) ==
    /\ pc[p] = "gates"
    /\ Advance(cur[p], "applied", TRUE)
    /\ Goto(p, "cas")
    /\ UNCHANGED <<spool, job, records, st, gitVars, lock, nextRun, crashes,
                   localVars>>

\* Undeclarable attachments, a backend error, a rejected plan, APPLY, lint
\* or the final-diff gate.
Reject(p) ==
    /\ pc[p] \in {"bundle", "plan", "gates"}
    /\ Goto(p, "fail")
    /\ UNCHANGED <<diskVars, gitVars, lock, nextRun, crashes, localVars>>

CasPublish(p) ==
    /\ pc[p] = "cas"
    /\ head = job[cur[p]].base
    /\ head' = head + 1
    /\ published' = published \cup {cur[p]}
    /\ Goto(p, "publish")
    /\ UNCHANGED <<diskVars, lock, nextRun, crashes, localVars>>

\* (mutant) a lost race is handled as a failed run.
CasConflictCharged(p) ==
    /\ pc[p] = "cas"
    /\ head # job[cur[p]].base
    /\ Goto(p, "fail")
    /\ UNCHANGED <<diskVars, gitVars, lock, nextRun, crashes, localVars>>

CasConflict(p) ==
    /\ pc[p] = "cas"
    /\ head # job[cur[p]].base
    /\ todo' = [todo EXCEPT ![p] = InRun(cur[p])]
    /\ Goto(p, "return")
    /\ UNCHANGED <<diskVars, gitVars, lock, nextRun, crashes, cur, backlog,
                   snap, mem>>

-----------------------------------------------------------------------------
(* Finalization, on the happy path and in recover().                       *)

AdvancePublished(p) ==
    /\ pc[p] = "publish"
    /\ Advance(cur[p], "published", TRUE)
    /\ Goto(p, "load")
    /\ UNCHANGED <<spool, job, records, st, gitVars, lock, nextRun, crashes,
                   localVars>>

LoadState(p) ==
    /\ pc[p] = "load"
    /\ mem' = [mem EXCEPT ![p] = [st EXCEPT !.runs = @ \cup {cur[p]}]]
    /\ todo' = [todo EXCEPT ![p] = InRun(cur[p])]
    /\ Goto(p, "drain")
    /\ UNCHANGED <<diskVars, gitVars, lock, nextRun, crashes, cur, backlog,
                   snap>>

\* _move_events_to_processed; a vanished event raises.
Drain(p) ==
    /\ pc[p] = "drain"
    /\ \E e \in todo[p] :
         /\ IsFirst(e, todo[p])
         /\ IF spool[e] = Processing(cur[p])
            THEN /\ spool' = [spool EXCEPT ![e] = Processed]
                 /\ todo' = [todo EXCEPT ![p] = @ \ {e}]
                 /\ UNCHANGED <<lock, pc, cur, backlog, snap, mem>>
            ELSE Exit(p) /\ UNCHANGED spool
    /\ UNCHANGED <<manifest, job, records, st, gitVars, nextRun, crashes>>

SaveState(p) ==
    /\ pc[p] = "drain"
    /\ todo[p] = {}
    /\ st' = [mem[p] EXCEPT !.keys = @ \cup DrainedKeys(cur[p])]
    /\ Goto(p, "finalize")
    /\ UNCHANGED <<spool, manifest, job, records, gitVars, lock, nextRun,
                   crashes, localVars>>

AdvanceFinalized(p) ==
    /\ pc[p] = "finalize"
    /\ Advance(cur[p], "finalized", TRUE)
    /\ Resume(p)
    /\ UNCHANGED <<spool, job, records, st, gitVars, nextRun, crashes>>

-----------------------------------------------------------------------------
(* Failure, CAS conflict and recovery of an unpublished run.               *)

\* _fail: the error record is written before any event moves.
FailRecord(p) ==
    /\ pc[p] = "fail"
    /\ records' = [records EXCEPT ![cur[p]] = job[cur[p]].events]
    /\ todo' = [todo EXCEPT ![p] = InRun(cur[p])]
    /\ Goto(p, "dispose")
    /\ UNCHANGED <<spool, manifest, job, st, gitVars, lock, nextRun, crashes,
                   cur, backlog, snap, mem>>

\* One event of _fail's loop; a vanished event raises.
Dispose(p) ==
    /\ pc[p] = "dispose"
    /\ \E e \in todo[p] :
         /\ IsFirst(e, todo[p])
         /\ IF spool[e] = Processing(cur[p])
            THEN /\ spool' = [spool EXCEPT ![e] = DisposePlace(e, cur[p])]
                 /\ todo' = [todo EXCEPT ![p] = @ \ {e}]
                 /\ UNCHANGED <<lock, pc, cur, backlog, snap, mem>>
            ELSE Exit(p) /\ UNCHANGED spool
    /\ UNCHANGED <<manifest, job, records, st, gitVars, nextRun, crashes>>

\* _fail's own load and save of the state file (last_failure, counters).
FailLoad(p) ==
    /\ pc[p] = "dispose"
    /\ todo[p] = {}
    /\ mem' = [mem EXCEPT ![p] = st]
    /\ Goto(p, "failsave")
    /\ UNCHANGED <<diskVars, gitVars, lock, nextRun, crashes, cur, todo,
                   backlog, snap>>

FailSave(p) ==
    /\ pc[p] = "failsave"
    /\ st' = mem[p]
    /\ Goto(p, "clear")
    /\ UNCHANGED <<spool, manifest, job, records, gitVars, lock, nextRun,
                   crashes, localVars>>

\* One event of _return_events_to_inbox; a vanished event is skipped.
ReturnEvent(p) ==
    /\ pc[p] = "return"
    /\ \E e \in todo[p] :
         /\ IsFirst(e, todo[p])
         /\ spool' = IF spool[e] = Processing(cur[p])
                     THEN [spool EXCEPT ![e] = ReturnPlace(e, cur[p])]
                     ELSE spool
         /\ todo' = [todo EXCEPT ![p] = @ \ {e}]
    /\ UNCHANGED <<manifest, job, records, st, gitVars, lock, nextRun,
                   crashes, pc, cur, backlog, snap, mem>>

\* shutil.rmtree of processing/<r>: whatever is still there is destroyed.
RemoveRun(p) ==
    /\ pc[p] \in {"clear", "return"}
    /\ todo[p] = {}
    /\ spool' = [e \in Event |-> IF spool[e] = Processing(cur[p])
                                 THEN Destroyed ELSE spool[e]]
    /\ manifest' = [manifest EXCEPT ![cur[p]] = NoManifest]
    /\ Resume(p)
    /\ UNCHANGED <<job, records, st, gitVars, nextRun, crashes>>

-----------------------------------------------------------------------------
Recover(p) == RecoverBegin(p) \/ RecoverFinalize(p) \/ RecoverReturn(p)
              \/ RecoverEnd(p)
Claim(p) == ClaimNothing(p) \/ ClaimSnapshot(p) \/ ClaimMove(p)
            \/ ClaimManifest(p) \/ StampAttempt(p)
Consolidate(p) == BuildBundle(p) \/ PlanAndApply(p) \/ CommitWorktree(p)
                  \/ Reject(p) \/ CasPublish(p) \/ CasConflict(p)
Finalize(p) == AdvancePublished(p) \/ LoadState(p) \/ Drain(p)
               \/ SaveState(p) \/ AdvanceFinalized(p)
GiveBack(p) == FailRecord(p) \/ Dispose(p) \/ FailLoad(p) \/ FailSave(p)
               \/ ReturnEvent(p) \/ RemoveRun(p)

Step(p) == Recover(p) \/ NotDue(p) \/ Trigger(p) \/ Claim(p)
           \/ Consolidate(p) \/ Finalize(p) \/ GiveBack(p)

Environment == (\E e \in Event : CheckKey(e) \/ Append(e)) \/ ForeignCommit
               \/ (\E p \in Proc : Crash(p))

Next == Environment \/ \E p \in Proc : Step(p)

Spec == Init /\ [][Next]_vars

\* A scheduled process keeps running and a backlog is eventually due (the
\* idle trigger); captures, crashes and foreign commits owe nothing.
FairSpec == Spec /\ \A p \in Proc : WF_vars(Step(p)) /\ SF_vars(Trigger(p))

-----------------------------------------------------------------------------
(* Properties.                                                             *)

TypeOK ==
    /\ spool \in [Event -> [dir : {"unwritten", "writing", "inbox",
                                   "processing", "processed", "failed",
                                   "destroyed"}, run : {0} \cup Run]]
    /\ manifest \in [Run -> Manifest]
    /\ job \in [Run -> [events : SUBSET Event, base : Nat]]
    /\ records \in [Run -> SUBSET Event]
    /\ st \in State
    /\ published \in SUBSET Run
    /\ head \in Nat
    /\ lock \in Proc \cup Other \cup {NoProc}
    /\ nextRun \in Nat \ {0}
    /\ crashes \in Nat
    /\ pc \in [Proc -> {"idle", "recover", "decide", "snapshot", "claim",
                        "stamp", "bundle", "plan", "gates", "cas", "publish",
                        "load", "drain", "finalize", "fail", "dispose",
                        "failsave", "clear", "return"}]
    /\ cur \in [Proc -> {0} \cup Run]
    /\ todo \in [Proc -> SUBSET Event]
    /\ backlog \in [Proc -> SUBSET Run]
    /\ snap \in [Proc -> [Run -> Manifest]]
    /\ mem \in [Proc -> State]

\* No rmtree of a run directory ever takes an event with it, whatever the
\* interleaving of unlocked recoveries, failures, conflicts and crashes
\* (the no-loss floor of _return_events_to_inbox and _fail).
NoEventDestroyed == \A e \in Event : spool[e] # Destroyed

\* An event is in at most one commit of the curated branch: recovery never
\* gives the events of a published run back to be consolidated again.
PublishedAtMostOnce ==
    \A r, q \in published :
        r # q => job[r].events \cap job[q].events = {}

\* Two captures under one writer:event_key never both reach the branch,
\* although the write-time scan races (claim's tier-1 de-duplication, and
\* the keys finalization and recovery record before the next claim).
OnePublishedPerKey ==
    \A r, q \in published :
        \A d \in job[r].events, e \in job[q].events :
            KeyOf[d] = KeyOf[e] /\ KeyOf[d] # NoKey => d = e

\* Nothing is delivered twice, neither an event nor a key.
PublishedOnce == PublishedAtMostOnce /\ OnePublishedPerKey

\* An event only reaches processed/ when a commit that covers it is on the
\* branch: nothing is drained by a run that did not publish.
ProcessedIsPublished ==
    \A e \in Event : spool[e] = Processed =>
        \E r \in published : e \in job[r].events

\* state.json never records a run as published that git does not have.
RecordedIsPublished == st.runs \subseteq published

\* The commit comes first: neither the spool nor state.json ever says more
\* than git does, at no point of finalization, recovery or a crash in them.
PublishedFirst == ProcessedIsPublished /\ RecordedIsPublished

\* A finalized manifest means the whole of finalization happened: the run
\* is recorded, its events are drained and their keys are delivered.
FinalizedIsSettled ==
    \A r \in Run : manifest[r].phase = "finalized" =>
        /\ r \in published \cap st.runs
        /\ \A e \in job[r].events :
              spool[e] = Processed /\ (KeyOf[e] # NoKey => KeyOf[e] \in st.keys)

\* When recover() is done, no earlier run is left half-way: what still has
\* a manifest is finalized, so the claim starts from a settled spool.
RecoverySettles ==
    \A p \in Proc : pc[p] \in {"decide", "snapshot", "claim"} =>
        \A r \in Run : manifest[r].phase \in {"none", "finalized"}

\* A run is settled when its manifest says so, and every run is when the next
\* one claims.
RunsSettle == FinalizedIsSettled /\ RecoverySettles

\* The retry budget: an event that could be returned is terminal only
\* after MaxAttempts failed runs, each with its own error record.
TerminalOnlyWhenSpent ==
    \A e \in Addressable, r \in Run :
        spool[e] = Failed(r) => Attempts(e) >= MaxAttempts

\* A run that produced a commit, published or lost to a conflict, charges
\* no attempt to its events.
ConflictSparesBudget ==
    \A r \in Run : manifest[r].sha \/ r \in published => records[r] = {}

\* The budget of a capture is spent by failures of its own, and by each once.
BudgetKept == TerminalOnlyWhenSpent /\ ConflictSparesBudget

\* A claimed event with no manifest and nobody claiming it: recover() does
\* not see its directory.
Stranded(e) ==
    \E r \in Run : /\ spool[e] = Processing(r)
                   /\ manifest[r].phase = "none"
                   /\ \A p \in Proc : cur[p] # r

\* Every published run is eventually recorded and drained.
PublishedIsFinalized ==
    \A r \in Run : r \in published ~> manifest[r].phase = "finalized"

\* Every capture that is in the inbox is eventually processed or terminal,
\* unless its key was delivered by another capture or the claim that took
\* it crashed before its manifest.
CapturedIsSettled ==
    \A e \in Event :
        spool[e] = Inbox ~> \/ spool[e].dir \in {"processed", "failed"}
                            \/ KeyOf[e] \in st.keys
                            \/ Stranded(e)
=============================================================================
