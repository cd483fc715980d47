------------------------------ MODULE Requeue ------------------------------
(***************************************************************************)
(* `agora requeue` beside the curator: under the curator lock it returns   *)
(* selected terminal events from failed/ to the inbox and, with            *)
(* --reset-attempts, archives the attempt records that govern no terminal  *)
(* event any more (the drain rule).  Recovery does not take the lock, so   *)
(* it interleaves with a requeue; a run does not.                          *)
(***************************************************************************)
EXTENDS CuratorRun

CONSTANTS
    Requeuer,    \* the lock holder while a requeue runs
    MaxRequeues  \* bound: requeue invocations

ASSUME RequeuerAssumption == Requeuer \in Other
ASSUME RequeueBound == MaxRequeues \in Nat

VARIABLES
    rpc,       \* control of the requeue: idle, move, archive, done
    order,     \* order: the flags, and whether the selector matched
    items,     \* planned moves still to make
    remaining, \* ids still terminal, once the moves are made
    toWalk,    \* attempt records still to look at
    released,  \* runs whose record this invocation archived
    preview,   \* the records --dry-run would have printed as archived
    requeues

requeueLocals == <<order, items, remaining, toWalk, released, preview>>
requeueVars   == <<rpc, requeueLocals, requeues>>
allVars       == <<vars, requeueVars>>

\* (mutant) the drained events are enumerated with the failed ones.
TerminalOrProcessed == {e \in Event : spool[e].dir \in {"failed", "processed"}}

\* iter_failed_events.
Terminal == {e \in Event : spool[e].dir = "failed"}
Recorded == {r \in Run : records[r] # {}}

\* (mutant) a run's record goes when its own directory holds no event.
ReleasedByDirectory(r, terminal) == \A e \in Event : spool[e] # Failed(r)

\* (mutant) only the records of events this invocation moves are released.
ReleasedByMove(r, terminal) ==
    /\ records[r] \cap terminal = {}
    /\ records[r] \cap order.moved # {}

\* The drain rule: no event the record governs is still terminal.
Released(r, terminal) == records[r] \cap terminal = {}

\* A named selector that matched nothing archives nothing.
Archives(matched, flags) == flags.reset /\ (matched # {} \/ flags.all)

\* plan_requeue: what of the selection would move.
Movable(selected, force) ==
    {e \in selected : /\ e \in Addressable
                      /\ force \/ KeyOf[e] = NoKey \/ KeyOf[e] \notin st.keys}

NoOrder == [all |-> FALSE, force |-> FALSE, reset |-> FALSE,
            matched |-> {}, moved |-> {}]

RInit ==
    /\ Init
    /\ rpc = "idle"
    /\ order = NoOrder
    /\ items = {}
    /\ remaining = {}
    /\ toWalk = {}
    /\ released = {}
    /\ preview = {}
    /\ requeues = 0

\* select_failed_events: everything, one run directory, or one event.
Selection(all) ==
    IF all THEN {Terminal}
    ELSE {{e \in Terminal : spool[e] = Failed(r)} : r \in Run}
         \cup {Terminal \cap {e} : e \in Event}

\* The early return, the lock, the state, the plan and its preview.  A reset
\* with nothing failed and no record left does nothing and is not a step.
RequeueBegin ==
    /\ rpc = "idle"
    /\ requeues < MaxRequeues
    /\ lock = NoProc
    /\ lock' = Requeuer
    /\ requeues' = requeues + 1
    /\ \E all, force, reset \in BOOLEAN :
         /\ Terminal # {} \/ (reset /\ Recorded # {})
         /\ \E selected \in Selection(all) :
              LET moves == Movable(selected, force)
                  flags == [all |-> all, force |-> force, reset |-> reset,
                            matched |-> selected, moved |-> moves]
              IN /\ order' = flags
                 /\ items' = moves
                 /\ preview' = IF Archives(selected, flags)
                               THEN {r \in Recorded :
                                       Released(r, Terminal \ moves)}
                               ELSE {}
    /\ rpc' = "move"
    /\ UNCHANGED <<diskVars, gitVars, nextRun, crashes, pc, localVars,
                   remaining, toWalk, released>>

\* execute_requeue, one rename, in the order of the event ids.
RequeueMove ==
    /\ rpc = "move"
    /\ \E e \in items :
         /\ IsFirst(e, items)
         /\ spool' = [spool EXCEPT ![e] = Inbox]
         /\ items' = items \ {e}
    /\ UNCHANGED <<manifest, job, records, st, gitVars, lock, nextRun,
                   crashes, pc, localVars, rpc, order, remaining, toWalk,
                   released, preview, requeues>>

\* _remaining_terminal_ids and the enumeration of the records.
RequeueScan ==
    /\ rpc = "move"
    /\ items = {}
    /\ remaining' = Terminal
    /\ toWalk' = IF Archives(order.matched, order) THEN Recorded ELSE {}
    /\ rpc' = "archive"
    /\ UNCHANGED <<vars, order, items, released, preview, requeues>>

\* archive_attempt_records, one record.
RequeueArchive ==
    /\ rpc = "archive"
    /\ \E r \in toWalk :
         /\ IsFirst(r, toWalk)
         /\ toWalk' = toWalk \ {r}
         /\ IF Released(r, remaining)
            THEN /\ records' = [records EXCEPT ![r] = {}]
                 /\ released' = released \cup {r}
            ELSE UNCHANGED <<records, released>>
    /\ UNCHANGED <<spool, manifest, job, st, gitVars, lock, nextRun, crashes,
                   pc, localVars, rpc, order, items, remaining, preview,
                   requeues>>

RequeueReport ==
    /\ rpc = "archive"
    /\ toWalk = {}
    /\ rpc' = "done"
    /\ UNCHANGED <<vars, requeueLocals, requeues>>

Leave ==
    /\ lock' = NoProc
    /\ rpc' = "idle"
    /\ order' = NoOrder
    /\ items' = {}
    /\ remaining' = {}
    /\ toWalk' = {}
    /\ released' = {}
    /\ preview' = {}
    /\ UNCHANGED <<diskVars, gitVars, nextRun, pc, localVars, requeues>>

RequeueEnd == rpc = "done" /\ Leave /\ UNCHANGED crashes

RequeueCrash ==
    /\ rpc \notin {"idle", "done"}
    /\ crashes < MaxCrashes
    /\ crashes' = crashes + 1
    /\ Leave

RNext == \/ Next /\ UNCHANGED requeueVars
         \/ RequeueBegin \/ RequeueMove \/ RequeueScan \/ RequeueArchive
         \/ RequeueReport \/ RequeueEnd \/ RequeueCrash

RSpec == RInit /\ [][RNext]_allVars

-----------------------------------------------------------------------------
(* Properties.  BudgetKept and PublishedOnce of CuratorRun are checked of  *)
(* RSpec as well: an operator may release a budget and force a delivered   *)
(* event back into the inbox, and neither may make an event terminal early *)
(* or deliver twice.                                                       *)

\* --reset-attempts finishes the job, that of an invocation killed between
\* its moves and its archive too: when it reports, no record is left that
\* governs no terminal event (archive_attempt_records, crash convergence).
ResetConverges ==
    rpc = "done" /\ order.reset /\ order.all =>
        \A r \in Recorded : records[r] \cap Terminal # {}

\* --dry-run prints what a real run does: the records the plan predicts are the
\* records that are archived, but for those of an event that became terminal
\* meanwhile, a file that recovery found no address to return to (run_requeue).
PreviewIsResult ==
    rpc = "done" =>
        /\ released \subseteq preview
        /\ \A r \in preview \ released :
              \E e \in records[r] \cap Terminal : e \notin Addressable

\* When an invocation reports, the budgets it released are those it promised,
\* and all of those.
ReleaseIsPromised == ResetConverges /\ PreviewIsResult
=============================================================================
