---------------------------- MODULE Attachments ----------------------------
(***************************************************************************)
(* The bytes that travel beside an event.  A capture stages its            *)
(* content-addressed files in `_attach/` beside the event before it        *)
(* appends the event; from then on every mover of the event renames it     *)
(* first and carries its bytes after it (carry_attachments), copying a     *)
(* file that an event left behind still cites.  Captures do not take the   *)
(* curator lock; claim, drain, disposal, recovery and requeue are one      *)
(* process here.  CuratorRun has the control of a run in full; this        *)
(* module keeps of it what decides where the bytes are.                    *)
(***************************************************************************)
EXTENDS Naturals, FiniteSets

CONSTANTS
    Event,       \* event ids, in FIFO order
    Blob,        \* content addresses: <sha256>.<ext>
    Cites,       \* Cites[e]: the blobs the frontmatter of e names
    Writer, WriterOf,
    MaxRuns,     \* bound: run ids minted
    MaxRequeues, \* bound: requeue invocations
    MaxCrashes   \* bound: crashes of the curating process

ASSUME EventsAreNumbers == Event \subseteq Nat \ {0} /\ IsFiniteSet(Event)
ASSUME CitesAssumption == Cites \in [Event -> SUBSET Blob]
ASSUME WriterAssumption == WriterOf \in [Event -> Writer]
ASSUME BoundsAreNumbers ==
    MaxRuns \in Nat /\ MaxRequeues \in Nat /\ MaxCrashes \in Nat

VARIABLES
    place,    \* place[e]: the directory of e's file
    ready,    \* ready[e]: the blobs a capture in progress has staged
    files,    \* <<d, b>>: blob b is in d's _attach/
    raw,      \* raw/_blob/ on the curated branch
    phase,    \* phase[r]: of processing/<r>/run.json
    held,     \* history: the blobs beside run r's events when it published
    pc, cur, todo,
    carry,    \* the carry in progress
    cut,      \* history: the events whose carry a crash cut short
    nextRun, requeues, crashes

spoolVars == <<place, ready, files>>
runVars   == <<raw, phase, held, nextRun>>
faults == <<cut, crashes>>
vars == <<spoolVars, runVars, pc, cur, todo, carry, requeues, faults>>

-----------------------------------------------------------------------------
Run == 1 .. MaxRuns
Dir == [kind : {"inbox"}, of : Writer]
       \cup [kind : {"processing", "failed"}, of : Run]
       \cup [kind : {"processed", "unwritten"}, of : {0}]

InboxOf(e)    == [kind |-> "inbox", of |-> WriterOf[e]]
Processing(r) == [kind |-> "processing", of |-> r]
Quarantine(r) == [kind |-> "quarantine", of |-> r]   \* (mutant) of Failed
Failed(r)     == [kind |-> "failed", of |-> r]
Processed     == [kind |-> "processed", of |-> 0]
Unwritten     == [kind |-> "unwritten", of |-> 0]

Within(d)    == {e \in Event : place[e] = d}
Pending      == {e \in Event : place[e].kind = "inbox"}
Terminal     == {e \in Event : place[e].kind = "failed"}
Beside(d)    == {b \in Blob : <<d, b>> \in files}
IsFirst(x, S) == \A y \in S : x <= y

\* (mutant) the events left behind are not consulted.
CitedInNothing(d) == {}

\* _referenced_attachment_names: what the events left in d still cite.
CitedIn(d) == UNION {Cites[e] : e \in Within(d)}

NoCarry == [event |-> 0, from |-> Unwritten, cited |-> {}, left |-> {},
            stage |-> "none"]
Carrying == carry.stage # "none"

\* (mutant) the return of a failed run's events forgets their bytes.
StartCarryButReturn(e) ==
    carry' = IF Cites[e] = {} \/ pc = "dispose" THEN NoCarry
             ELSE [event |-> e, from |-> place[e], cited |-> {},
                   left |-> Cites[e], stage |-> "scan"]

\* Renaming e out of its directory starts a carry, if e cites anything.
StartCarry(e) ==
    carry' = IF Cites[e] = {} THEN NoCarry
             ELSE [event |-> e, from |-> place[e], cited |-> {},
                   left |-> Cites[e], stage |-> "scan"]

Init ==
    /\ place = [e \in Event |-> Unwritten]
    /\ ready = [e \in Event |-> {}]
    /\ files = {}
    /\ raw = {}
    /\ phase = [r \in Run |-> "none"]
    /\ held = [r \in Run |-> {}]
    /\ pc = "idle"
    /\ cur = 0
    /\ todo = {}
    /\ carry = NoCarry
    /\ cut = {}
    /\ nextRun = 1
    /\ requeues = 0
    /\ crashes = 0

-----------------------------------------------------------------------------
(* Inbox.write: every payload is staged, then the event is appended.       *)

\* _stage_attachment: a file already there is verified and reused.
Stage(e, b) ==
    /\ place[e] = Unwritten
    /\ b \in Cites[e] \ ready[e]
    /\ files' = files \cup {<<InboxOf(e), b>>}
    /\ ready' = [ready EXCEPT ![e] = @ \cup {b}]
    /\ UNCHANGED <<place, runVars, pc, cur, todo, carry, requeues, faults>>

Append(e) ==
    /\ place[e] = Unwritten
    /\ ready[e] = Cites[e]
    /\ place' = [place EXCEPT ![e] = InboxOf(e)]
    /\ UNCHANGED <<ready, files, runVars, pc, cur, todo, carry, requeues, faults>>

-----------------------------------------------------------------------------
(* carry_attachments.                                                      *)

CarryScan ==
    /\ carry.stage = "scan"
    /\ carry' = [carry EXCEPT !.cited = CitedIn(carry.from), !.stage = "copy"]
    /\ UNCHANGED <<spoolVars, runVars, pc, cur, todo, requeues, faults>>

\* One blob: at the destination already, missing at the source, copied for
\* a sibling that still cites it, or moved; the source is reclaimed when the
\* bytes have arrived and nothing left there cites them.
Carried(from, to, b) ==
    LET arrived == files \cup (IF <<from, b>> \in files THEN {<<to, b>>}
                               ELSE {})
    IN IF b \notin carry.cited /\ <<to, b>> \in arrived
       THEN arrived \ {<<from, b>>} ELSE arrived

CarryOne ==
    /\ carry.stage = "copy"
    /\ \E b \in carry.left :
         /\ files' = Carried(carry.from, place[carry.event], b)
         /\ carry' = IF carry.left = {b} THEN NoCarry
                     ELSE [carry EXCEPT !.left = @ \ {b}]
    /\ UNCHANGED <<place, ready, runVars, pc, cur, todo, requeues, faults>>

-----------------------------------------------------------------------------
(* The movers.                                                             *)

\* One rename of a mover's loop; the event's bytes follow in later steps.
Rename(label, Dest(_)) ==
    /\ pc = label
    /\ ~Carrying
    /\ \E e \in todo :
         /\ IsFirst(e, todo)
         /\ \E d \in Dest(e) : place' = [place EXCEPT ![e] = d]
         /\ StartCarry(e)
         /\ todo' = todo \ {e}
    /\ UNCHANGED <<ready, files, runVars, pc, cur, requeues, faults>>

Done(label) == pc = label /\ todo = {} /\ ~Carrying

\* recover() first: a run is claimed only when none is left half-way.
ClaimBegin ==
    /\ pc = "idle"
    /\ nextRun <= MaxRuns
    /\ \A r \in Run : phase[r] \in {"none", "finalized"}
    /\ \E B \in SUBSET Pending \ {{}} : todo' = B
    /\ cur' = nextRun
    /\ nextRun' = nextRun + 1
    /\ pc' = "claim"
    /\ UNCHANGED <<spoolVars, raw, phase, held, carry, requeues, faults>>

ClaimMove == Rename("claim", LAMBDA e : {Processing(cur)})

ClaimManifest ==
    /\ Done("claim")
    /\ phase' = [phase EXCEPT ![cur] = "claimed"]
    /\ pc' = "apply"
    /\ UNCHANGED <<spoolVars, raw, held, nextRun, cur, todo, carry, requeues, faults>>

\* The run keeps the candidates K and drops the others: a kept event's
\* bytes come from the branch or from beside the claimed event.
Publish ==
    /\ pc = "apply"
    /\ \E K \in SUBSET Within(Processing(cur)) :
         LET cited == UNION {Cites[e] : e \in K} IN
         /\ cited \subseteq raw \cup Beside(Processing(cur))
         /\ raw' = raw \cup cited
    /\ phase' = [phase EXCEPT ![cur] = "published"]
    /\ held' = [held EXCEPT ![cur] = Beside(Processing(cur))]
    /\ todo' = Within(Processing(cur))
    /\ pc' = "drain"
    /\ UNCHANGED <<spoolVars, nextRun, cur, carry, requeues, faults>>

DrainMove == Rename("drain", LAMBDA e : {Processed})

Finalize ==
    /\ Done("drain")
    /\ phase' = [phase EXCEPT ![cur] = "finalized"]
    /\ pc' = "idle"
    /\ cur' = 0
    /\ UNCHANGED <<spoolVars, raw, held, nextRun, todo, carry, requeues, faults>>

\* A gate rejected the run, or bytes of a kept candidate are missing.
Fail ==
    /\ pc = "apply"
    /\ todo' = Within(Processing(cur))
    /\ pc' = "dispose"
    /\ UNCHANGED <<spoolVars, runVars, cur, carry, requeues, faults>>

\* _fail and _return_events_to_inbox: back to the inbox, or failed/<r>.
DisposeMove ==
    Rename("dispose", LAMBDA e : {InboxOf(e), Failed(cur)})

\* shutil.rmtree of processing/<r>, _attach/ included.
RemoveRun ==
    /\ Done("dispose")
    /\ files' = {f \in files : f[1] # Processing(cur)}
    /\ phase' = [phase EXCEPT ![cur] = "none"]
    /\ pc' = "idle"
    /\ cur' = 0
    /\ UNCHANGED <<place, ready, raw, held, nextRun, todo, carry, requeues, faults>>

RecoverFinalize(r) ==
    /\ pc = "idle"
    /\ phase[r] = "published"
    /\ cur' = r
    /\ todo' = Within(Processing(r))
    /\ pc' = "drain"
    /\ UNCHANGED <<spoolVars, runVars, carry, requeues, faults>>

RecoverReturn(r) ==
    /\ pc = "idle"
    /\ phase[r] = "claimed"
    /\ cur' = r
    /\ todo' = Within(Processing(r))
    /\ pc' = "dispose"
    /\ UNCHANGED <<spoolVars, runVars, carry, requeues, faults>>

\* agora requeue: any selection of the terminal events.
RequeueBegin ==
    /\ pc = "idle"
    /\ requeues < MaxRequeues
    /\ requeues' = requeues + 1
    /\ \E B \in SUBSET Terminal \ {{}} : todo' = B
    /\ pc' = "requeue"
    /\ UNCHANGED <<spoolVars, runVars, cur, carry, faults>>

RequeueMove == Rename("requeue", LAMBDA e : {InboxOf(e)})

RequeueEnd ==
    /\ Done("requeue")
    /\ pc' = "idle"
    /\ UNCHANGED <<spoolVars, runVars, cur, todo, carry, requeues, faults>>

Crash ==
    /\ pc # "idle"
    /\ crashes < MaxCrashes
    /\ crashes' = crashes + 1
    /\ pc' = "idle"
    /\ cur' = 0
    /\ todo' = {}
    /\ carry' = NoCarry
    /\ cut' = cut \cup IF Carrying THEN {carry.event} ELSE {}
    /\ UNCHANGED <<spoolVars, runVars, requeues>>

Capture == \E e \in Event : Append(e) \/ \E b \in Blob : Stage(e, b)
Movers == ClaimMove \/ DrainMove \/ DisposeMove \/ RequeueMove
Runs == ClaimBegin \/ ClaimManifest \/ Publish \/ Finalize \/ Fail
        \/ RemoveRun \/ RequeueBegin \/ RequeueEnd
Recovery == \E r \in Run : RecoverFinalize(r) \/ RecoverReturn(r)

Next == Capture \/ CarryScan \/ CarryOne \/ Movers \/ Runs \/ Recovery
        \/ Crash

Spec == Init /\ [][Next]_vars

-----------------------------------------------------------------------------
(* Properties.                                                             *)

\* The bytes of a writer that were on their way when the process died.
Unsafe(w) == UNION {Cites[e] : e \in {d \in cut : WriterOf[d] = w}}

TypeOK ==
    /\ place \in [Event -> Dir]
    /\ ready \in [Event -> SUBSET Blob]
    /\ files \subseteq Dir \X Blob
    /\ raw \subseteq Blob
    /\ phase \in [Run -> {"none", "claimed", "published", "finalized"}]
    /\ held \in [Run -> SUBSET Blob]
    /\ pc \in {"idle", "claim", "apply", "drain", "dispose", "requeue"}
    /\ cur \in {0} \cup Run
    /\ todo \subseteq Event
    /\ carry \in [event : {0} \cup Event, from : Dir, cited : SUBSET Blob,
                  left : SUBSET Blob, stage : {"none", "scan", "copy"}]
    /\ cut \subseteq Event
    /\ nextRun \in 1 .. MaxRuns + 1
    /\ requeues \in 0 .. MaxRequeues
    /\ crashes \in 0 .. MaxCrashes

\* The bytes an event names are somewhere in the spool as long as the event
\* is: no carry, sharing of a file, recovery or removal of a run directory
\* loses them (the rules of carry_attachments), unless a crash cut the carry
\* of the event short, or of one of its writer that cites them too: the next
\* recovery removes the run's directory with them in it.
BytesSurvive ==
    \A e \in Event : place[e] # Unwritten =>
        \A b \in Cites[e] \ Unsafe(WriterOf[e]) : \E f \in files : f[2] = b

\* Between runs the staging area of a writer holds nothing that no pending
\* or half-written event cites (_reclaim_carried_source leaves no orphan),
\* but what a carry left there that a crash cut short.
NoStagedOrphan ==
    pc = "idle" =>
        \A f \in files : f[1].kind = "inbox" =>
            \E e \in Event : InboxOf(e) = f[1] /\ f[2] \in Cites[e] /\
                \/ place[e] = f[1]
                \/ place[e] = Unwritten /\ f[2] \in ready[e]
                \/ e \in cut

\* A finalized run's directory is left with nothing to clean up
\* (_move_events_to_processed), the bytes of its events included, but of one
\* whose carry a crash cut short.
NothingLeftBehind ==
    \A r \in Run : phase[r] = "finalized" =>
        Beside(Processing(r)) \subseteq UNION {Cites[e] : e \in cut}

\* Bytes that were with a run when it published are never lost afterwards,
\* whatever crashes: they are in processed/ or still in the run's directory.
\* For a dropped candidate they are the only copy.
PublishedBytesStay ==
    \A r \in Run : held[r] \subseteq Beside(Processing(r)) \cup Beside(Processed)

\* Every event has its bytes beside it wherever it rests, unless a crash cut
\* their carry short, or a second capture of the same artefact by its writer
\* raced with a claim: events of several writers share one file in a run's
\* directory, and none of them takes it away from another (carry_attachments
\* copies what is still cited).
BesideAtRest ==
    \A e \in Event \ cut : place[e] # Unwritten /\ carry.event # e =>
        \A b \in Cites[e] \ Beside(place[e]) :
            \E d \in Event \ {e} : WriterOf[d] = WriterOf[e] /\ b \in Cites[d]

\* Where the bytes of a capture are: somewhere while it is in the spool, and
\* with the run that published it.
NoBytesLost == TypeOK /\ BytesSurvive /\ PublishedBytesStay

\* Which bytes are where: those of each event beside it, and no others.
BytesFollowEvents == BesideAtRest /\ NoStagedOrphan /\ NothingLeftBehind
=============================================================================
