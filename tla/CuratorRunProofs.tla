-------------------------- MODULE CuratorRunProofs --------------------------
(***************************************************************************)
(* Theorems about CuratorRun, its refinement of Delivery and Requeue, for  *)
(* every number of curating processes and every set of events and bounds.  *)
(***************************************************************************)
EXTENDS Requeue, CuratorRunRefinement, FiniteSetTheorems, TLAPS

LEMMA RunIsNat == Run \subseteq Nat /\ 0 \notin Run
  BY BoundAssumption DEF Run

\* The places the code moves an event to are places.
LEMMA PlaceTypes ==
    ASSUME NEW r \in Run, NEW e \in Event
    PROVE  LET P == [dir : {"unwritten", "writing", "inbox", "processing",
                            "processed", "failed", "destroyed"},
                     run : {0} \cup Run]
           IN /\ Unwritten \in P /\ Writing \in P /\ Inbox \in P
              /\ Processing(r) \in P /\ Processed \in P
              /\ Failed(r) \in P /\ Destroyed \in P
              /\ ReturnPlace(e, r) \in P /\ DisposePlace(e, r) \in P
  BY DEF Unwritten, Writing, Inbox, Processing, Processed, Failed, Destroyed,
         ReturnPlace, DisposePlace, Place

LEMMA ExitTypes ==
    ASSUME TypeOK, NEW p \in Proc, Exit(p)
    PROVE  /\ pc' = [pc EXCEPT ![p] = "idle"]
           /\ lock' \in Proc \cup Other \cup {NoProc}
           /\ cur' \in [Proc -> {0} \cup Run]
           /\ todo' \in [Proc -> SUBSET Event]
           /\ backlog' \in [Proc -> SUBSET Run]
           /\ snap' \in [Proc -> [Run -> Manifest]]
           /\ mem' \in [Proc -> State]
  <1>1. NewState \in State
    BY DEF NewState, State
  <1>2. NoSnapshot \in [Run -> Manifest]
    BY DEF NoSnapshot, NoManifest, Manifest, Phase
  <1> QED
    BY <1>1, <1>2 DEF TypeOK, Exit, Goto

LEMMA ResumeTypes ==
    ASSUME TypeOK, NEW p \in Proc, Resume(p)
    PROVE  /\ pc' \in {[pc EXCEPT ![p] = "idle"], [pc EXCEPT ![p] = "recover"]}
           /\ lock' \in Proc \cup Other \cup {NoProc}
           /\ cur' \in [Proc -> {0} \cup Run]
           /\ todo' \in [Proc -> SUBSET Event]
           /\ backlog' \in [Proc -> SUBSET Run]
           /\ snap' \in [Proc -> [Run -> Manifest]]
           /\ mem' \in [Proc -> State]
  <1>1. CASE lock = p
    BY <1>1, ExitTypes DEF Resume
  <1>2. CASE lock # p
    <2>1. /\ pc' = [pc EXCEPT ![p] = "recover"]
          /\ UNCHANGED <<lock, backlog, snap>>
      BY <1>2 DEF Resume, Goto
    <2>2. cur' \in [Proc -> {0} \cup Run]
      BY <1>2 DEF TypeOK, Resume
    <2>3. todo' \in [Proc -> SUBSET Event]
      BY <1>2 DEF TypeOK, Resume
    <2>4. mem' \in [Proc -> State]
      BY <1>2 DEF TypeOK, Resume
    <2> QED
      BY <2>1, <2>2, <2>3, <2>4 DEF TypeOK
  <1> QED
    BY <1>1, <1>2

USE DEF diskVars, gitVars, localVars

LEMMA TypeInit == Init => TypeOK
  BY BoundAssumption
     DEF Init, TypeOK, Unwritten, Place, NoManifest, Manifest, Phase,
         NewState, State, NoSnapshot, Run

LEMMA SelectedType == Selected \in SUBSET Event
  BY DEF Selected, CapHead, Deduped, Pending

LEMMA AdvanceTypes ==
    ASSUME TypeOK, NEW r \in Run, NEW phase \in Phase, NEW sha \in BOOLEAN,
           Advance(r, phase, sha)
    PROVE  manifest' \in [Run -> Manifest]
  BY DEF TypeOK, Advance, Manifest

\* A process past its claim works on a run id that was minted.
HasRun(p) ==
    pc[p] \in {"claim", "stamp", "bundle", "plan", "gates", "cas", "publish",
               "load", "drain", "finalize", "fail", "dispose", "failsave",
               "clear", "return"}
CurOK == \A p \in Proc : HasRun(p) => cur[p] \in Run

\* From the claim to the CAS, and in _fail, a process holds curator.lock;
\* so two of them never mint a run id from one value of the counter.
Locked(p) ==
    pc[p] \in {"snapshot", "claim", "stamp", "bundle", "plan", "gates", "cas",
               "publish", "fail", "dispose", "failsave", "clear"}
LockOK ==
    \A p \in Proc : /\ Locked(p) => lock = p
                    /\ pc[p] = "snapshot" => nextRun \in Run

\* Leaving, and taking the next manifest, reset the locals of p alone.
LEMMA ExitControl ==
    ASSUME TypeOK, NEW p \in Proc, Exit(p)
    PROVE  /\ pc' = [pc EXCEPT ![p] = "idle"]
           /\ cur' = [cur EXCEPT ![p] = 0]
           /\ lock' = IF lock = p THEN NoProc ELSE lock
  BY DEF Exit, Goto

LEMMA ResumeControl ==
    ASSUME TypeOK, NEW p \in Proc, Resume(p)
    PROVE  /\ \/ pc' = [pc EXCEPT ![p] = "idle"]
              \/ pc' = [pc EXCEPT ![p] = "recover"]
           /\ cur' = [cur EXCEPT ![p] = 0]
           /\ lock' = IF lock = p THEN NoProc ELSE lock
  BY ExitControl DEF Resume, Goto

LEMMA ResumeCur ==
    ASSUME TypeOK, CurOK, NEW p \in Proc, Resume(p)
    PROVE  CurOK'
  <1>1. /\ pc' \in {[pc EXCEPT ![p] = "idle"], [pc EXCEPT ![p] = "recover"]}
        /\ cur' = [cur EXCEPT ![p] = 0]
    BY ResumeControl
  <1>2. ~HasRun(p)'
    BY <1>1 DEF TypeOK, HasRun
  <1>3. ASSUME NEW q \in Proc, q # p, HasRun(q)'
        PROVE  HasRun(q) /\ cur'[q] = cur[q]
    BY <1>1, <1>3 DEF TypeOK, HasRun
  <1> QED
    BY <1>2, <1>3 DEF CurOK

\* Leaving frees the lock only of the process that leaves.
LEMMA ExitLock ==
    ASSUME TypeOK, NEW p \in Proc, NEW q \in Proc, q # p, Exit(p)
    PROVE  lock = q => lock' = q
  BY ProcAssumption DEF TypeOK, Exit

LEMMA ResumeLock ==
    ASSUME TypeOK, NEW p \in Proc, NEW q \in Proc, q # p, Resume(p)
    PROVE  lock = q => lock' = q
  BY ExitLock DEF TypeOK, Resume

LEMMA CurStep == TypeOK /\ CurOK /\ LockOK /\ [Next]_vars => CurOK'
  <1>1. ASSUME TypeOK, CurOK, LockOK, NEW e \in Event, CheckKey(e)
        PROVE  CurOK'
    BY <1>1 DEF CheckKey, TypeOK, CurOK, HasRun, Goto
  <1>2. ASSUME TypeOK, CurOK, LockOK, NEW e \in Event, Append(e)
        PROVE  CurOK'
    BY <1>2 DEF Append, TypeOK, CurOK, HasRun, Goto
  <1>3. ASSUME TypeOK, CurOK, LockOK, ForeignCommit
        PROVE  CurOK'
    BY <1>3 DEF ForeignCommit, TypeOK, CurOK, HasRun, Goto
  <1>4. ASSUME TypeOK, CurOK, LockOK, NEW p \in Proc, Crash(p)
        PROVE  CurOK'
    BY <1>4 DEF Crash, TypeOK, CurOK, HasRun, Goto, Exit
  <1>5. ASSUME TypeOK, CurOK, LockOK, NEW p \in Proc, RecoverBegin(p)
        PROVE  CurOK'
    BY <1>5 DEF RecoverBegin, TypeOK, CurOK, HasRun, Goto
  <1>6. ASSUME TypeOK, CurOK, LockOK, NEW p \in Proc, RecoverFinalize(p)
        PROVE  CurOK'
    BY <1>6 DEF RecoverFinalize, TypeOK, CurOK, HasRun, Goto
  <1>7. ASSUME TypeOK, CurOK, LockOK, NEW p \in Proc, RecoverReturn(p)
        PROVE  CurOK'
    BY <1>7 DEF RecoverReturn, TypeOK, CurOK, HasRun, Goto
  <1>8. ASSUME TypeOK, CurOK, LockOK, NEW p \in Proc, RecoverEnd(p)
        PROVE  CurOK'
    BY <1>8 DEF RecoverEnd, TypeOK, CurOK, HasRun, Goto
  <1>9. ASSUME TypeOK, CurOK, LockOK, NEW p \in Proc, NotDue(p)
        PROVE  CurOK'
    BY <1>9 DEF NotDue, TypeOK, CurOK, HasRun, Goto, Exit
  <1>10. ASSUME TypeOK, CurOK, LockOK, NEW p \in Proc, Trigger(p)
        PROVE  CurOK'
    BY <1>10 DEF Trigger, TypeOK, CurOK, HasRun, Goto, Exit
  <1>11. ASSUME TypeOK, CurOK, LockOK, NEW p \in Proc, ClaimNothing(p)
        PROVE  CurOK'
    BY <1>11 DEF ClaimNothing, TypeOK, CurOK, HasRun, Goto, Exit
  <1>12. ASSUME TypeOK, CurOK, LockOK, NEW p \in Proc, ClaimSnapshot(p)
        PROVE  CurOK'
    BY <1>12 DEF ClaimSnapshot, TypeOK, CurOK, HasRun, LockOK, Goto
  <1>13. ASSUME TypeOK, CurOK, LockOK, NEW p \in Proc, ClaimMove(p)
        PROVE  CurOK'
    BY <1>13 DEF ClaimMove, TypeOK, CurOK, HasRun, Goto
  <1>14. ASSUME TypeOK, CurOK, LockOK, NEW p \in Proc, ClaimManifest(p)
        PROVE  CurOK'
    BY <1>14 DEF ClaimManifest, TypeOK, CurOK, HasRun, Goto
  <1>15. ASSUME TypeOK, CurOK, LockOK, NEW p \in Proc, StampAttempt(p)
        PROVE  CurOK'
    BY <1>15 DEF StampAttempt, TypeOK, CurOK, HasRun, Goto
  <1>16. ASSUME TypeOK, CurOK, LockOK, NEW p \in Proc, BuildBundle(p)
        PROVE  CurOK'
    BY <1>16 DEF BuildBundle, TypeOK, CurOK, HasRun, Goto, Exit
  <1>17. ASSUME TypeOK, CurOK, LockOK, NEW p \in Proc, PlanAndApply(p)
        PROVE  CurOK'
    BY <1>17 DEF PlanAndApply, TypeOK, CurOK, HasRun, Goto
  <1>18. ASSUME TypeOK, CurOK, LockOK, NEW p \in Proc, CommitWorktree(p)
        PROVE  CurOK'
    BY <1>18 DEF CommitWorktree, TypeOK, CurOK, HasRun, Goto
  <1>19. ASSUME TypeOK, CurOK, LockOK, NEW p \in Proc, Reject(p)
        PROVE  CurOK'
    BY <1>19 DEF Reject, TypeOK, CurOK, HasRun, Goto
  <1>20. ASSUME TypeOK, CurOK, LockOK, NEW p \in Proc, CasPublish(p)
        PROVE  CurOK'
    BY <1>20 DEF CasPublish, TypeOK, CurOK, HasRun, Goto
  <1>21. ASSUME TypeOK, CurOK, LockOK, NEW p \in Proc, CasConflict(p)
        PROVE  CurOK'
    BY <1>21 DEF CasConflict, TypeOK, CurOK, HasRun, Goto
  <1>22. ASSUME TypeOK, CurOK, LockOK, NEW p \in Proc, AdvancePublished(p)
        PROVE  CurOK'
    BY <1>22 DEF AdvancePublished, TypeOK, CurOK, HasRun, Goto
  <1>23. ASSUME TypeOK, CurOK, LockOK, NEW p \in Proc, LoadState(p)
        PROVE  CurOK'
    BY <1>23 DEF LoadState, TypeOK, CurOK, HasRun, Goto
  <1>24. ASSUME TypeOK, CurOK, LockOK, NEW p \in Proc, Drain(p)
        PROVE  CurOK'
    BY <1>24 DEF Drain, TypeOK, CurOK, HasRun, Goto, Exit
  <1>25. ASSUME TypeOK, CurOK, LockOK, NEW p \in Proc, SaveState(p)
        PROVE  CurOK'
    BY <1>25 DEF SaveState, TypeOK, CurOK, HasRun, Goto
  <1>26. ASSUME TypeOK, CurOK, LockOK, NEW p \in Proc, AdvanceFinalized(p)
        PROVE  CurOK'
    BY <1>26, ResumeCur DEF AdvanceFinalized
  <1>27. ASSUME TypeOK, CurOK, LockOK, NEW p \in Proc, FailRecord(p)
        PROVE  CurOK'
    BY <1>27 DEF FailRecord, TypeOK, CurOK, HasRun, Goto
  <1>28. ASSUME TypeOK, CurOK, LockOK, NEW p \in Proc, Dispose(p)
        PROVE  CurOK'
    BY <1>28 DEF Dispose, TypeOK, CurOK, HasRun, Goto, Exit
  <1>29. ASSUME TypeOK, CurOK, LockOK, NEW p \in Proc, FailLoad(p)
        PROVE  CurOK'
    BY <1>29 DEF FailLoad, TypeOK, CurOK, HasRun, Goto
  <1>30. ASSUME TypeOK, CurOK, LockOK, NEW p \in Proc, FailSave(p)
        PROVE  CurOK'
    BY <1>30 DEF FailSave, TypeOK, CurOK, HasRun, Goto
  <1>31. ASSUME TypeOK, CurOK, LockOK, NEW p \in Proc, ReturnEvent(p)
        PROVE  CurOK'
    BY <1>31 DEF ReturnEvent, TypeOK, CurOK, HasRun, Goto
  <1>32. ASSUME TypeOK, CurOK, LockOK, NEW p \in Proc, RemoveRun(p)
        PROVE  CurOK'
    <2>1. Resume(p)
      BY <1>32 DEF RemoveRun
    <2> QED
      BY <2>1, <1>32, ResumeCur
  <1>33. ASSUME TypeOK, CurOK, LockOK, UNCHANGED vars
        PROVE  CurOK'
    BY <1>33 DEF vars, TypeOK, CurOK, HasRun
  <1> QED
    BY <1>1, <1>2, <1>3, <1>4, <1>5, <1>6, <1>7, <1>8, <1>9, <1>10, <1>11,
       <1>12, <1>13, <1>14, <1>15, <1>16, <1>17, <1>18, <1>19, <1>20, <1>21,
       <1>22, <1>23, <1>24, <1>25, <1>26, <1>27, <1>28, <1>29, <1>30, <1>31,
       <1>32, <1>33 DEF Next, Environment, Step, Recover, Claim, Consolidate, Finalize, GiveBack

LEMMA LockStep == TypeOK /\ CurOK /\ LockOK /\ [Next]_vars => LockOK'
  <1>1. ASSUME TypeOK, CurOK, LockOK, NEW e \in Event, CheckKey(e)
        PROVE  LockOK'
    BY <1>1 DEF CheckKey, TypeOK, LockOK, Locked, Goto
  <1>2. ASSUME TypeOK, CurOK, LockOK, NEW e \in Event, Append(e)
        PROVE  LockOK'
    BY <1>2 DEF Append, TypeOK, LockOK, Locked, Goto
  <1>3. ASSUME TypeOK, CurOK, LockOK, ForeignCommit
        PROVE  LockOK'
    BY <1>3 DEF ForeignCommit, TypeOK, LockOK, Locked, Goto
  <1>4. ASSUME TypeOK, CurOK, LockOK, NEW p \in Proc, Crash(p)
        PROVE  LockOK'
    BY <1>4, ExitLock DEF Crash, TypeOK, LockOK, Locked, Goto, Exit
  <1>5. ASSUME TypeOK, CurOK, LockOK, NEW p \in Proc, RecoverBegin(p)
        PROVE  LockOK'
    BY <1>5 DEF RecoverBegin, TypeOK, LockOK, Locked, Goto
  <1>6. ASSUME TypeOK, CurOK, LockOK, NEW p \in Proc, RecoverFinalize(p)
        PROVE  LockOK'
    BY <1>6 DEF RecoverFinalize, TypeOK, LockOK, Locked, Goto
  <1>7. ASSUME TypeOK, CurOK, LockOK, NEW p \in Proc, RecoverReturn(p)
        PROVE  LockOK'
    BY <1>7 DEF RecoverReturn, TypeOK, LockOK, Locked, Goto
  <1>8. ASSUME TypeOK, CurOK, LockOK, NEW p \in Proc, RecoverEnd(p)
        PROVE  LockOK'
    BY <1>8 DEF RecoverEnd, TypeOK, LockOK, Locked, Goto
  <1>9. ASSUME TypeOK, CurOK, LockOK, NEW p \in Proc, NotDue(p)
        PROVE  LockOK'
    BY <1>9, ExitLock DEF NotDue, TypeOK, LockOK, Locked, Goto, Exit
  <1>10. ASSUME TypeOK, CurOK, LockOK, NEW p \in Proc, Trigger(p)
        PROVE  LockOK'
    <2>1. nextRun \in Run
      BY <1>10, BoundAssumption DEF Trigger, TypeOK, Run
    <2>2. CASE lock = NoProc
      BY <2>1, <2>2, <1>10, ProcAssumption DEF Trigger, TypeOK, LockOK, Locked,
         Goto
    <2>3. CASE lock # NoProc
      BY <2>3, <1>10, ExitLock, ExitControl DEF Trigger, TypeOK, LockOK, Locked
    <2> QED
      BY <2>2, <2>3
  <1>11. ASSUME TypeOK, CurOK, LockOK, NEW p \in Proc, ClaimNothing(p)
        PROVE  LockOK'
    BY <1>11, ExitLock DEF ClaimNothing, TypeOK, LockOK, Locked, Goto, Exit
  <1>12. ASSUME TypeOK, CurOK, LockOK, NEW p \in Proc, ClaimSnapshot(p)
        PROVE  LockOK'
    BY <1>12 DEF ClaimSnapshot, TypeOK, LockOK, Locked, Goto
  <1>13. ASSUME TypeOK, CurOK, LockOK, NEW p \in Proc, ClaimMove(p)
        PROVE  LockOK'
    BY <1>13 DEF ClaimMove, TypeOK, LockOK, Locked, Goto
  <1>14. ASSUME TypeOK, CurOK, LockOK, NEW p \in Proc, ClaimManifest(p)
        PROVE  LockOK'
    BY <1>14 DEF ClaimManifest, TypeOK, LockOK, Locked, Goto
  <1>15. ASSUME TypeOK, CurOK, LockOK, NEW p \in Proc, StampAttempt(p)
        PROVE  LockOK'
    BY <1>15 DEF StampAttempt, TypeOK, LockOK, Locked, Goto
  <1>16. ASSUME TypeOK, CurOK, LockOK, NEW p \in Proc, BuildBundle(p)
        PROVE  LockOK'
    BY <1>16, ExitLock DEF BuildBundle, TypeOK, LockOK, Locked, Goto, Exit
  <1>17. ASSUME TypeOK, CurOK, LockOK, NEW p \in Proc, PlanAndApply(p)
        PROVE  LockOK'
    BY <1>17 DEF PlanAndApply, TypeOK, LockOK, Locked, Goto
  <1>18. ASSUME TypeOK, CurOK, LockOK, NEW p \in Proc, CommitWorktree(p)
        PROVE  LockOK'
    BY <1>18 DEF CommitWorktree, TypeOK, LockOK, Locked, Goto
  <1>19. ASSUME TypeOK, CurOK, LockOK, NEW p \in Proc, Reject(p)
        PROVE  LockOK'
    BY <1>19 DEF Reject, TypeOK, LockOK, Locked, Goto
  <1>20. ASSUME TypeOK, CurOK, LockOK, NEW p \in Proc, CasPublish(p)
        PROVE  LockOK'
    BY <1>20 DEF CasPublish, TypeOK, LockOK, Locked, Goto
  <1>21. ASSUME TypeOK, CurOK, LockOK, NEW p \in Proc, CasConflict(p)
        PROVE  LockOK'
    BY <1>21 DEF CasConflict, TypeOK, LockOK, Locked, Goto
  <1>22. ASSUME TypeOK, CurOK, LockOK, NEW p \in Proc, AdvancePublished(p)
        PROVE  LockOK'
    BY <1>22 DEF AdvancePublished, TypeOK, LockOK, Locked, Goto
  <1>23. ASSUME TypeOK, CurOK, LockOK, NEW p \in Proc, LoadState(p)
        PROVE  LockOK'
    BY <1>23 DEF LoadState, TypeOK, LockOK, Locked, Goto
  <1>24. ASSUME TypeOK, CurOK, LockOK, NEW p \in Proc, Drain(p)
        PROVE  LockOK'
    BY <1>24, ExitLock DEF Drain, TypeOK, LockOK, Locked, Goto, Exit
  <1>25. ASSUME TypeOK, CurOK, LockOK, NEW p \in Proc, SaveState(p)
        PROVE  LockOK'
    BY <1>25 DEF SaveState, TypeOK, LockOK, Locked, Goto
  <1>26. ASSUME TypeOK, CurOK, LockOK, NEW p \in Proc, AdvanceFinalized(p)
        PROVE  LockOK'
    BY <1>26, ResumeLock DEF AdvanceFinalized, TypeOK, LockOK, Locked, Goto,
       Exit, Resume
  <1>27. ASSUME TypeOK, CurOK, LockOK, NEW p \in Proc, FailRecord(p)
        PROVE  LockOK'
    BY <1>27 DEF FailRecord, TypeOK, LockOK, Locked, Goto
  <1>28. ASSUME TypeOK, CurOK, LockOK, NEW p \in Proc, Dispose(p)
        PROVE  LockOK'
    BY <1>28, ExitLock DEF Dispose, TypeOK, LockOK, Locked, Goto, Exit
  <1>29. ASSUME TypeOK, CurOK, LockOK, NEW p \in Proc, FailLoad(p)
        PROVE  LockOK'
    BY <1>29 DEF FailLoad, TypeOK, LockOK, Locked, Goto
  <1>30. ASSUME TypeOK, CurOK, LockOK, NEW p \in Proc, FailSave(p)
        PROVE  LockOK'
    BY <1>30 DEF FailSave, TypeOK, LockOK, Locked, Goto
  <1>31. ASSUME TypeOK, CurOK, LockOK, NEW p \in Proc, ReturnEvent(p)
        PROVE  LockOK'
    BY <1>31 DEF ReturnEvent, TypeOK, LockOK, Locked, Goto
  <1>32. ASSUME TypeOK, CurOK, LockOK, NEW p \in Proc, RemoveRun(p)
        PROVE  LockOK'
    <2>1. Resume(p) /\ nextRun' = nextRun
      BY <1>32 DEF RemoveRun
    <2>2. \A q \in Proc : Locked(q)' => q # p /\ Locked(q)
      BY <2>1, <1>32, ResumeControl DEF TypeOK, Locked
    <2>3. \A q \in Proc : pc'[q] = "snapshot" => pc[q] = "snapshot"
      BY <2>1, <1>32, ResumeControl DEF TypeOK
    <2> QED
      BY <2>1, <2>2, <2>3, <1>32, ResumeLock DEF LockOK
  <1>33. ASSUME TypeOK, CurOK, LockOK, UNCHANGED vars
        PROVE  LockOK'
    BY <1>33 DEF vars, TypeOK, LockOK, Locked
  <1> QED
    BY <1>1, <1>2, <1>3, <1>4, <1>5, <1>6, <1>7, <1>8, <1>9, <1>10, <1>11,
       <1>12, <1>13, <1>14, <1>15, <1>16, <1>17, <1>18, <1>19, <1>20, <1>21,
       <1>22, <1>23, <1>24, <1>25, <1>26, <1>27, <1>28, <1>29, <1>30, <1>31,
       <1>32, <1>33 DEF Next, Environment, Step, Recover, Claim, Consolidate, Finalize, GiveBack

LEMMA TypeStep == TypeOK /\ CurOK /\ LockOK /\ [Next]_vars => TypeOK'
  <1>1. ASSUME TypeOK, CurOK, LockOK, NEW e \in Event, CheckKey(e)
        PROVE  TypeOK'
    BY <1>1, PlaceTypes, RunIsNat DEF CheckKey, TypeOK, Writing, Place
  <1>2. ASSUME TypeOK, CurOK, LockOK, NEW e \in Event, Append(e)
        PROVE  TypeOK'
    BY <1>2 DEF Append, TypeOK, Inbox, Place
  <1>3. ASSUME TypeOK, CurOK, LockOK, ForeignCommit
        PROVE  TypeOK'
    BY <1>3 DEF ForeignCommit, TypeOK
  <1>4. ASSUME TypeOK, CurOK, LockOK, NEW p \in Proc, Crash(p)
        PROVE  TypeOK'
    <2>1. crashes' \in Nat
      BY <1>4 DEF Crash, TypeOK
    <2> QED
      BY <2>1, <1>4, ExitTypes DEF Crash, TypeOK
  <1>5. ASSUME TypeOK, CurOK, LockOK, NEW p \in Proc, RecoverBegin(p)
        PROVE  TypeOK'
    BY <1>5 DEF RecoverBegin, TypeOK, Goto, InFlight
  <1>6. ASSUME TypeOK, CurOK, LockOK, NEW p \in Proc, RecoverFinalize(p)
        PROVE  TypeOK'
    BY <1>6 DEF RecoverFinalize, TypeOK, Goto
  <1>7. ASSUME TypeOK, CurOK, LockOK, NEW p \in Proc, RecoverReturn(p)
        PROVE  TypeOK'
    BY <1>7 DEF RecoverReturn, TypeOK, Goto, InRun
  <1>8. ASSUME TypeOK, CurOK, LockOK, NEW p \in Proc, RecoverEnd(p)
        PROVE  TypeOK'
    BY <1>8 DEF RecoverEnd, TypeOK, Goto, NoSnapshot, NoManifest, Manifest,
       Phase, NewState, State
  <1>9. ASSUME TypeOK, CurOK, LockOK, NEW p \in Proc, NotDue(p)
        PROVE  TypeOK'
    BY <1>9, ExitTypes DEF NotDue, TypeOK
  <1>10. ASSUME TypeOK, CurOK, LockOK, NEW p \in Proc, Trigger(p)
        PROVE  TypeOK'
    BY <1>10, ExitTypes DEF Trigger, TypeOK, Goto
  <1>11. ASSUME TypeOK, CurOK, LockOK, NEW p \in Proc, ClaimNothing(p)
        PROVE  TypeOK'
    BY <1>11, ExitTypes DEF ClaimNothing, TypeOK
  <1>12. ASSUME TypeOK, CurOK, LockOK, NEW p \in Proc, ClaimSnapshot(p)
        PROVE  TypeOK'
    BY <1>12, RunIsNat, SelectedType DEF ClaimSnapshot, TypeOK, Goto, LockOK
  <1>13. ASSUME TypeOK, CurOK, LockOK, NEW p \in Proc, ClaimMove(p)
        PROVE  TypeOK'
    BY <1>13, PlaceTypes DEF ClaimMove, TypeOK, CurOK, HasRun
  <1>14. ASSUME TypeOK, CurOK, LockOK, NEW p \in Proc, ClaimManifest(p)
        PROVE  TypeOK'
    BY <1>14, AdvanceTypes DEF ClaimManifest, TypeOK, Goto, Phase, CurOK,
       HasRun
  <1>15. ASSUME TypeOK, CurOK, LockOK, NEW p \in Proc, StampAttempt(p)
        PROVE  TypeOK'
    BY <1>15 DEF StampAttempt, TypeOK, Goto
  <1>16. ASSUME TypeOK, CurOK, LockOK, NEW p \in Proc, BuildBundle(p)
        PROVE  TypeOK'
    BY <1>16, ExitTypes DEF BuildBundle, TypeOK, Goto
  <1>17. ASSUME TypeOK, CurOK, LockOK, NEW p \in Proc, PlanAndApply(p)
        PROVE  TypeOK'
    BY <1>17, AdvanceTypes DEF PlanAndApply, TypeOK, Goto, Phase, CurOK,
       HasRun
  <1>18. ASSUME TypeOK, CurOK, LockOK, NEW p \in Proc, CommitWorktree(p)
        PROVE  TypeOK'
    BY <1>18, AdvanceTypes DEF CommitWorktree, TypeOK, Goto, Phase, CurOK,
       HasRun
  <1>19. ASSUME TypeOK, CurOK, LockOK, NEW p \in Proc, Reject(p)
        PROVE  TypeOK'
    BY <1>19 DEF Reject, TypeOK, Goto
  <1>20. ASSUME TypeOK, CurOK, LockOK, NEW p \in Proc, CasPublish(p)
        PROVE  TypeOK'
    BY <1>20 DEF CasPublish, TypeOK, Goto, CurOK, HasRun
  <1>21. ASSUME TypeOK, CurOK, LockOK, NEW p \in Proc, CasConflict(p)
        PROVE  TypeOK'
    BY <1>21 DEF CasConflict, TypeOK, Goto, InRun
  <1>22. ASSUME TypeOK, CurOK, LockOK, NEW p \in Proc, AdvancePublished(p)
        PROVE  TypeOK'
    BY <1>22, AdvanceTypes DEF AdvancePublished, TypeOK, Goto, Phase, CurOK,
       HasRun
  <1>23. ASSUME TypeOK, CurOK, LockOK, NEW p \in Proc, LoadState(p)
        PROVE  TypeOK'
    <2>1. cur[p] \in Run /\ st \in State
      BY <1>23 DEF LoadState, TypeOK, CurOK, HasRun
    <2>2. [st EXCEPT !.runs = @ \cup {cur[p]}] \in State
      BY <2>1 DEF State
    <2>3. mem' \in [Proc -> State]
      BY <2>2, <1>23 DEF LoadState, TypeOK
    <2> QED
      BY <2>3, <1>23 DEF LoadState, TypeOK, Goto, InRun
  <1>24. ASSUME TypeOK, CurOK, LockOK, NEW p \in Proc, Drain(p)
        PROVE  TypeOK'
    <2>1. PICK e \in todo[p] :
            IF spool[e] = Processing(cur[p])
            THEN /\ spool' = [spool EXCEPT ![e] = Processed]
                 /\ todo' = [todo EXCEPT ![p] = @ \ {e}]
                 /\ UNCHANGED <<lock, pc, cur, backlog, snap, mem>>
            ELSE Exit(p) /\ UNCHANGED spool
      BY <1>24 DEF Drain
    <2>2. e \in Event /\ cur[p] \in Run
      BY <1>24 DEF Drain, TypeOK, CurOK, HasRun
    <2>3. CASE spool[e] = Processing(cur[p])
      <3>1. /\ spool' = [spool EXCEPT ![e] = Processed]
            /\ todo' = [todo EXCEPT ![p] = @ \ {e}]
            /\ UNCHANGED <<lock, pc, cur, backlog, snap, mem>>
        BY <2>1, <2>3
      <3>2. todo' \in [Proc -> SUBSET Event]
        BY <3>1, <1>24 DEF TypeOK
      <3> QED
        BY <2>2, <3>1, <3>2, <1>24, PlaceTypes DEF Drain, TypeOK
    <2>4. CASE spool[e] # Processing(cur[p])
      BY <2>1, <2>4, <1>24, ExitTypes DEF Drain, TypeOK
    <2> QED
      BY <2>3, <2>4
  <1>25. ASSUME TypeOK, CurOK, LockOK, NEW p \in Proc, SaveState(p)
        PROVE  TypeOK'
    BY <1>25 DEF SaveState, TypeOK, Goto, State, DrainedKeys, CurOK, HasRun
  <1>26. ASSUME TypeOK, CurOK, LockOK, NEW p \in Proc, AdvanceFinalized(p)
        PROVE  TypeOK'
    BY <1>26, AdvanceTypes, ResumeTypes DEF AdvanceFinalized, TypeOK, Phase,
       CurOK, HasRun
  <1>27. ASSUME TypeOK, CurOK, LockOK, NEW p \in Proc, FailRecord(p)
        PROVE  TypeOK'
    BY <1>27 DEF FailRecord, TypeOK, Goto, InRun, CurOK, HasRun
  <1>28. ASSUME TypeOK, CurOK, LockOK, NEW p \in Proc, Dispose(p)
        PROVE  TypeOK'
    <2>1. PICK e \in todo[p] :
            IF spool[e] = Processing(cur[p])
            THEN /\ spool' = [spool EXCEPT ![e] = DisposePlace(e, cur[p])]
                 /\ todo' = [todo EXCEPT ![p] = @ \ {e}]
                 /\ UNCHANGED <<lock, pc, cur, backlog, snap, mem>>
            ELSE Exit(p) /\ UNCHANGED spool
      BY <1>28 DEF Dispose
    <2>2. e \in Event /\ cur[p] \in Run
      BY <1>28 DEF Dispose, TypeOK, CurOK, HasRun
    <2>3. CASE spool[e] = Processing(cur[p])
      <3>1. /\ spool' = [spool EXCEPT ![e] = DisposePlace(e, cur[p])]
            /\ todo' = [todo EXCEPT ![p] = @ \ {e}]
            /\ UNCHANGED <<lock, pc, cur, backlog, snap, mem>>
        BY <2>1, <2>3
      <3>2. todo' \in [Proc -> SUBSET Event]
        BY <3>1, <1>28 DEF TypeOK
      <3> QED
        BY <2>2, <3>1, <3>2, <1>28, PlaceTypes DEF Dispose, TypeOK
    <2>4. CASE spool[e] # Processing(cur[p])
      BY <2>1, <2>4, <1>28, ExitTypes DEF Dispose, TypeOK
    <2> QED
      BY <2>3, <2>4
  <1>29. ASSUME TypeOK, CurOK, LockOK, NEW p \in Proc, FailLoad(p)
        PROVE  TypeOK'
    BY <1>29 DEF FailLoad, TypeOK, Goto
  <1>30. ASSUME TypeOK, CurOK, LockOK, NEW p \in Proc, FailSave(p)
        PROVE  TypeOK'
    BY <1>30 DEF FailSave, TypeOK, Goto
  <1>31. ASSUME TypeOK, CurOK, LockOK, NEW p \in Proc, ReturnEvent(p)
        PROVE  TypeOK'
    BY <1>31, PlaceTypes DEF ReturnEvent, TypeOK, CurOK, HasRun
  <1>32. ASSUME TypeOK, CurOK, LockOK, NEW p \in Proc, RemoveRun(p)
        PROVE  TypeOK'
    BY <1>32, ResumeTypes DEF RemoveRun, TypeOK, NoManifest, Manifest,
       Phase, Destroyed, Place
  <1>33. ASSUME TypeOK, CurOK, LockOK, UNCHANGED vars
        PROVE  TypeOK'
    BY <1>33 DEF vars, TypeOK
  <1> QED
    BY <1>1, <1>2, <1>3, <1>4, <1>5, <1>6, <1>7, <1>8, <1>9, <1>10, <1>11,
       <1>12, <1>13, <1>14, <1>15, <1>16, <1>17, <1>18, <1>19, <1>20, <1>21,
       <1>22, <1>23, <1>24, <1>25, <1>26, <1>27, <1>28, <1>29, <1>30, <1>31,
       <1>32, <1>33 DEF Next, Environment, Step, Recover, Claim, Consolidate, Finalize, GiveBack

\* Every variable of every behaviour has its type, for any number of
\* processes: no handler writes a phase, a place or a record of another
\* shape (the manifest, event and state files of DATA-MODEL).
THEOREM TypeCorrect == Spec => []TypeOK
  <1>1. Init => CurOK /\ LockOK
    BY DEF Init, CurOK, HasRun, LockOK, Locked
  <1> QED
    BY <1>1, TypeInit, CurStep, LockStep, TypeStep, PTL DEF Spec

-----------------------------------------------------------------------------
(* Safety: what the spool and the state file may never say, proved for any *)
(* number of curating processes, crashes, foreign commits and runs.  Even  *)
(* with recoveries that take no lock, no event is destroyed, and nothing   *)
(* is drained or recorded as published without a commit on the branch.     *)

\* Git decides: whatever a manifest, the state file, or a copy of either
\* says is published is on the branch.
GitOnDisk ==
    /\ \A r \in Run : manifest[r].phase \in {"published", "finalized"}
                          => r \in published
    /\ st.runs \subseteq published
GitInMemory ==
    \A p \in Proc :
        /\ \A r \in Run : snap[p][r].phase \in {"published", "finalized"}
                              => r \in published
        /\ mem[p].runs \subseteq published
        /\ pc[p] \in {"publish", "load", "drain", "finalize"}
               => cur[p] \in published

\* A run directory holds only events of the run's batch, and no batch is
\* attached to a run id that was not minted.
BatchOK ==
    /\ \A e \in Event, r \in Run :
          spool[e] = Processing(r) => e \in job[r].events
    /\ \A r \in Run : r >= nextRun => job[r].events = {}
ClaimInBatch ==
    \A p \in Proc : pc[p] = "claim" => todo[p] \subseteq job[cur[p]].events

\* A run being claimed has no manifest yet, so no other process knows it.
MintedOK ==
    /\ \A p \in Proc : cur[p] < nextRun /\ \A r \in backlog[p] : r < nextRun
    /\ \A r \in Run : r >= nextRun => manifest[r].phase = "none"
ClaimHidden ==
    \A q \in Proc : pc[q] = "claim" => manifest[cur[q]].phase = "none"
ClaimPrivate ==
    \A q \in Proc, p \in Proc : pc[q] = "claim" /\ p # q =>
        cur[p] # cur[q] /\ cur[q] \notin backlog[p]

\* Before a run directory is removed, every event in it is on the list of
\* those still to be moved out.
Emptying(p) == pc[p] \in {"dispose", "failsave", "clear", "return"}
DisposalOK ==
    \A p \in Proc, e \in Event :
        Emptying(p) /\ spool[e] = Processing(cur[p])
            => e \in todo[p]

-----------------------------------------------------------------------------
\* What leaving a run, or moving on to the next manifest, does to the locals.
LEMMA LeaveEffect ==
    ASSUME TypeOK, NEW p \in Proc, Exit(p) \/ Resume(p)
    PROVE  /\ pc'[p] \in {"idle", "recover"}
           /\ cur'[p] = 0
           /\ todo'[p] = {}
           /\ backlog'[p] \subseteq backlog[p]
           /\ \A r \in Run : snap'[p][r] \in {snap[p][r], NoManifest}
           /\ mem'[p].runs \subseteq st.runs
           /\ \A q \in Proc \ {p} :
                 /\ pc'[q] = pc[q] /\ cur'[q] = cur[q]
                 /\ todo'[q] = todo[q] /\ backlog'[q] = backlog[q]
                 /\ snap'[q] = snap[q] /\ mem'[q] = mem[q]
  <1>1. CASE Exit(p)
    BY <1>1 DEF TypeOK, Exit, Goto, NoSnapshot, NewState
  <1>2. CASE Resume(p) /\ ~Exit(p)
    BY <1>2 DEF TypeOK, Resume, Goto
  <1> QED
    BY <1>1, <1>2

\* The places are told apart by their directory and run.
LEMMA PlacesDiffer ==
    ASSUME NEW r \in Run, NEW s \in Run, NEW e \in Event
    PROVE  /\ Processing(r) = Processing(s) => r = s
           /\ Processing(r) \notin {Unwritten, Writing, Inbox, Processed,
                                    Destroyed, Failed(s), ReturnPlace(e, s),
                                    DisposePlace(e, s)}
           /\ Destroyed \notin {Unwritten, Writing, Inbox, Processed,
                                Processing(r), Failed(s), ReturnPlace(e, s),
                                DisposePlace(e, s)}
           /\ Processed \notin {Unwritten, Writing, Inbox, Destroyed,
                                Processing(r), Failed(s), ReturnPlace(e, s),
                                DisposePlace(e, s)}
  BY DEF Processing, Unwritten, Writing, Inbox, Processed, Destroyed, Failed,
         ReturnPlace, DisposePlace, Place

\* Leaving keeps what the remaining locals of p, and the locals of every
\* other process, say about git, batches, claims and disposal.
LEMMA LeaveGit ==
    ASSUME TypeOK, GitOnDisk, GitInMemory, NEW p \in Proc,
           Exit(p) \/ Resume(p), published' = published
    PROVE  GitInMemory'
  <1> SUFFICES ASSUME NEW q \in Proc
               PROVE  /\ \A r \in Run :
                            snap'[q][r].phase \in {"published", "finalized"}
                                => r \in published
                      /\ mem'[q].runs \subseteq published
                      /\ pc'[q] \in {"publish", "load", "drain", "finalize"}
                             => cur'[q] \in published
    BY DEF GitInMemory
  <1>1. CASE q = p
    BY <1>1, LeaveEffect DEF GitInMemory, GitOnDisk, NoManifest
  <1>2. CASE q # p
    BY <1>2, LeaveEffect DEF GitInMemory
  <1> QED
    BY <1>1, <1>2

LEMMA LeaveClaim ==
    ASSUME TypeOK, CurOK, ClaimPrivate, NEW p \in Proc, Exit(p) \/ Resume(p)
    PROVE  ClaimPrivate'
  <1> SUFFICES ASSUME NEW q \in Proc, NEW o \in Proc, pc'[q] = "claim", o # q
               PROVE  cur'[o] # cur'[q] /\ cur'[q] \notin backlog'[o]
    BY DEF ClaimPrivate
  <1>1. q # p /\ pc[q] = "claim" /\ cur'[q] = cur[q] /\ cur[q] \in Run
    BY LeaveEffect DEF CurOK, HasRun
  <1>2. /\ cur'[o] \in {0, cur[o]}
        /\ backlog'[o] \subseteq backlog[o]
    BY LeaveEffect
  <1> QED
    BY <1>1, <1>2, RunIsNat DEF ClaimPrivate

LEMMA LeaveMinted ==
    ASSUME TypeOK, MintedOK, NEW p \in Proc, Exit(p) \/ Resume(p),
           nextRun' = nextRun
    PROVE  \A q \in Proc : cur'[q] < nextRun'
                           /\ \A r \in backlog'[q] : r < nextRun'
  <1> SUFFICES ASSUME NEW q \in Proc
               PROVE  cur'[q] < nextRun /\ \A r \in backlog'[q] : r < nextRun
    OBVIOUS
  <1>1. /\ cur'[q] \in {0, cur[q]}
        /\ backlog'[q] \subseteq backlog[q]
    BY LeaveEffect
  <1> QED
    BY <1>1 DEF MintedOK, TypeOK

LEMMA LeaveDisposal ==
    ASSUME TypeOK, CurOK, DisposalOK, NEW p \in Proc,
           Exit(p) \/ Resume(p),
           \A e \in Event, r \in Run :
               spool'[e] = Processing(r) => spool[e] = Processing(r)
    PROVE  DisposalOK'
  <1> SUFFICES ASSUME NEW q \in Proc, NEW e \in Event,
                      Emptying(q)',
                      spool'[e] = Processing(cur'[q])
               PROVE  e \in todo'[q]
    BY DEF DisposalOK, Emptying, Processing, Place
  <1>1. q # p
    BY LeaveEffect DEF Emptying
  <1>2. Emptying(q) /\ cur'[q] = cur[q] /\ todo'[q] = todo[q]
    BY <1>1, LeaveEffect DEF Emptying
  <1>3. cur[q] \in Run
    BY <1>2 DEF CurOK, HasRun, Emptying
  <1>4. spool[e] = Processing(cur[q])
    BY <1>2, <1>3
  <1> QED
    BY <1>2, <1>4 DEF DisposalOK, Emptying

LEMMA LeaveHidden ==
    ASSUME TypeOK, ClaimHidden, NEW p \in Proc, Exit(p) \/ Resume(p),
           \A q \in Proc \ {p} :
               pc[q] = "claim" => manifest'[cur[q]] = manifest[cur[q]]
    PROVE  ClaimHidden'
  <1> SUFFICES ASSUME NEW q \in Proc, pc'[q] = "claim"
               PROVE  manifest'[cur'[q]].phase = "none"
    BY DEF ClaimHidden
  <1>1. q # p /\ pc[q] = "claim" /\ cur'[q] = cur[q]
    BY LeaveEffect
  <1> QED
    BY <1>1 DEF ClaimHidden

\* Rewriting the manifest of a process's own run touches no unminted run.
LEMMA MintedManifest ==
    ASSUME TypeOK, CurOK, MintedOK, NEW p \in Proc, HasRun(p), NEW m,
           manifest' = [manifest EXCEPT ![cur[p]] = m], nextRun' = nextRun
    PROVE  \A r \in Run : r >= nextRun' => manifest'[r].phase = "none"
  <1> SUFFICES ASSUME NEW r \in Run, r >= nextRun
               PROVE  manifest'[r].phase = "none"
    OBVIOUS
  <1>1. r # cur[p]
    BY DEF MintedOK, TypeOK, Run
  <1> QED
    BY <1>1 DEF MintedOK, TypeOK

\* One event of _fail's loop leaves the run directory, or nothing moves.
LEMMA DisposeMoves ==
    ASSUME TypeOK, CurOK, NEW p \in Proc, Dispose(p)
    PROVE  \/ Exit(p) /\ spool' = spool
           \/ \E e \in Event : \E d \in {Inbox, Failed(cur[p])} :
                 /\ spool' = [spool EXCEPT ![e] = d]
                 /\ todo' = [todo EXCEPT ![p] = @ \ {e}]
                 /\ UNCHANGED <<pc, cur>>
  <1>1. \A e \in Event : DisposePlace(e, cur[p]) \in {Inbox, Failed(cur[p])}
    BY DEF DisposePlace, ReturnPlace
  <1>2. todo[p] \subseteq Event
    BY DEF TypeOK
  <1> QED
    BY <1>1, <1>2 DEF Dispose

LEMMA GitDiskStep ==
    TypeOK /\ CurOK /\ LockOK /\ GitOnDisk /\ GitInMemory /\ [Next]_vars => GitOnDisk'
  <1>1. ASSUME TypeOK, CurOK, LockOK, GitOnDisk, GitInMemory,
               NEW e \in Event, CheckKey(e)
        PROVE  GitOnDisk'
    BY <1>1 DEF CheckKey, TypeOK, GitOnDisk, GitInMemory
  <1>2. ASSUME TypeOK, CurOK, LockOK, GitOnDisk, GitInMemory,
               NEW e \in Event, Append(e)
        PROVE  GitOnDisk'
    BY <1>2 DEF Append, TypeOK, GitOnDisk, GitInMemory
  <1>3. ASSUME TypeOK, CurOK, LockOK, GitOnDisk, GitInMemory, ForeignCommit
        PROVE  GitOnDisk'
    BY <1>3 DEF ForeignCommit, TypeOK, GitOnDisk, GitInMemory
  <1>4. ASSUME TypeOK, CurOK, LockOK, GitOnDisk, GitInMemory,
               NEW p \in Proc, Crash(p)
        PROVE  GitOnDisk'
    BY <1>4 DEF Crash, TypeOK, GitOnDisk, GitInMemory
  <1>5. ASSUME TypeOK, CurOK, LockOK, GitOnDisk, GitInMemory,
               NEW p \in Proc, RecoverBegin(p)
        PROVE  GitOnDisk'
    BY <1>5 DEF RecoverBegin, TypeOK, GitOnDisk, GitInMemory
  <1>6. ASSUME TypeOK, CurOK, LockOK, GitOnDisk, GitInMemory,
               NEW p \in Proc, RecoverFinalize(p)
        PROVE  GitOnDisk'
    BY <1>6 DEF RecoverFinalize, TypeOK, GitOnDisk, GitInMemory
  <1>7. ASSUME TypeOK, CurOK, LockOK, GitOnDisk, GitInMemory,
               NEW p \in Proc, RecoverReturn(p)
        PROVE  GitOnDisk'
    BY <1>7 DEF RecoverReturn, TypeOK, GitOnDisk, GitInMemory
  <1>8. ASSUME TypeOK, CurOK, LockOK, GitOnDisk, GitInMemory,
               NEW p \in Proc, RecoverEnd(p)
        PROVE  GitOnDisk'
    BY <1>8 DEF RecoverEnd, TypeOK, GitOnDisk, GitInMemory
  <1>9. ASSUME TypeOK, CurOK, LockOK, GitOnDisk, GitInMemory,
               NEW p \in Proc, NotDue(p)
        PROVE  GitOnDisk'
    BY <1>9 DEF NotDue, TypeOK, GitOnDisk, GitInMemory
  <1>10. ASSUME TypeOK, CurOK, LockOK, GitOnDisk, GitInMemory,
               NEW p \in Proc, Trigger(p)
        PROVE  GitOnDisk'
    BY <1>10 DEF Trigger, TypeOK, GitOnDisk, GitInMemory
  <1>11. ASSUME TypeOK, CurOK, LockOK, GitOnDisk, GitInMemory,
               NEW p \in Proc, ClaimNothing(p)
        PROVE  GitOnDisk'
    BY <1>11 DEF ClaimNothing, TypeOK, GitOnDisk, GitInMemory
  <1>12. ASSUME TypeOK, CurOK, LockOK, GitOnDisk, GitInMemory,
               NEW p \in Proc, ClaimSnapshot(p)
        PROVE  GitOnDisk'
    BY <1>12 DEF ClaimSnapshot, TypeOK, GitOnDisk, GitInMemory
  <1>13. ASSUME TypeOK, CurOK, LockOK, GitOnDisk, GitInMemory,
               NEW p \in Proc, ClaimMove(p)
        PROVE  GitOnDisk'
    BY <1>13 DEF ClaimMove, TypeOK, GitOnDisk, GitInMemory
  <1>14. ASSUME TypeOK, CurOK, LockOK, GitOnDisk, GitInMemory,
               NEW p \in Proc, ClaimManifest(p)
        PROVE  GitOnDisk'
    BY <1>14 DEF ClaimManifest, TypeOK, GitOnDisk, Advance, CurOK, HasRun
  <1>15. ASSUME TypeOK, CurOK, LockOK, GitOnDisk, GitInMemory,
               NEW p \in Proc, StampAttempt(p)
        PROVE  GitOnDisk'
    BY <1>15 DEF StampAttempt, TypeOK, GitOnDisk, GitInMemory
  <1>16. ASSUME TypeOK, CurOK, LockOK, GitOnDisk, GitInMemory,
               NEW p \in Proc, BuildBundle(p)
        PROVE  GitOnDisk'
    BY <1>16 DEF BuildBundle, TypeOK, GitOnDisk, GitInMemory
  <1>17. ASSUME TypeOK, CurOK, LockOK, GitOnDisk, GitInMemory,
               NEW p \in Proc, PlanAndApply(p)
        PROVE  GitOnDisk'
    BY <1>17 DEF PlanAndApply, TypeOK, GitOnDisk, Advance, CurOK, HasRun
  <1>18. ASSUME TypeOK, CurOK, LockOK, GitOnDisk, GitInMemory,
               NEW p \in Proc, CommitWorktree(p)
        PROVE  GitOnDisk'
    BY <1>18 DEF CommitWorktree, TypeOK, GitOnDisk, Advance, CurOK, HasRun
  <1>19. ASSUME TypeOK, CurOK, LockOK, GitOnDisk, GitInMemory,
               NEW p \in Proc, Reject(p)
        PROVE  GitOnDisk'
    BY <1>19 DEF Reject, TypeOK, GitOnDisk, GitInMemory
  <1>20. ASSUME TypeOK, CurOK, LockOK, GitOnDisk, GitInMemory,
               NEW p \in Proc, CasPublish(p)
        PROVE  GitOnDisk'
    BY <1>20 DEF CasPublish, TypeOK, GitOnDisk, GitInMemory
  <1>21. ASSUME TypeOK, CurOK, LockOK, GitOnDisk, GitInMemory,
               NEW p \in Proc, CasConflict(p)
        PROVE  GitOnDisk'
    BY <1>21 DEF CasConflict, TypeOK, GitOnDisk, GitInMemory
  <1>22. ASSUME TypeOK, CurOK, LockOK, GitOnDisk, GitInMemory,
               NEW p \in Proc, AdvancePublished(p)
        PROVE  GitOnDisk'
    BY <1>22 DEF AdvancePublished, TypeOK, GitOnDisk, GitInMemory, Advance,
       CurOK, HasRun
  <1>23. ASSUME TypeOK, CurOK, LockOK, GitOnDisk, GitInMemory,
               NEW p \in Proc, LoadState(p)
        PROVE  GitOnDisk'
    BY <1>23 DEF LoadState, TypeOK, GitOnDisk, GitInMemory
  <1>24. ASSUME TypeOK, CurOK, LockOK, GitOnDisk, GitInMemory,
               NEW p \in Proc, Drain(p)
        PROVE  GitOnDisk'
    BY <1>24 DEF Drain, TypeOK, GitOnDisk, GitInMemory
  <1>25. ASSUME TypeOK, CurOK, LockOK, GitOnDisk, GitInMemory,
               NEW p \in Proc, SaveState(p)
        PROVE  GitOnDisk'
    BY <1>25 DEF SaveState, TypeOK, GitOnDisk, GitInMemory
  <1>26. ASSUME TypeOK, CurOK, LockOK, GitOnDisk, GitInMemory,
               NEW p \in Proc, AdvanceFinalized(p)
        PROVE  GitOnDisk'
    BY <1>26 DEF AdvanceFinalized, TypeOK, GitOnDisk, GitInMemory, Advance,
       CurOK, HasRun
  <1>27. ASSUME TypeOK, CurOK, LockOK, GitOnDisk, GitInMemory,
               NEW p \in Proc, FailRecord(p)
        PROVE  GitOnDisk'
    BY <1>27 DEF FailRecord, TypeOK, GitOnDisk, GitInMemory
  <1>28. ASSUME TypeOK, CurOK, LockOK, GitOnDisk, GitInMemory,
               NEW p \in Proc, Dispose(p)
        PROVE  GitOnDisk'
    BY <1>28 DEF Dispose, TypeOK, GitOnDisk, GitInMemory
  <1>29. ASSUME TypeOK, CurOK, LockOK, GitOnDisk, GitInMemory,
               NEW p \in Proc, FailLoad(p)
        PROVE  GitOnDisk'
    BY <1>29 DEF FailLoad, TypeOK, GitOnDisk, GitInMemory
  <1>30. ASSUME TypeOK, CurOK, LockOK, GitOnDisk, GitInMemory,
               NEW p \in Proc, FailSave(p)
        PROVE  GitOnDisk'
    BY <1>30 DEF FailSave, TypeOK, GitOnDisk, GitInMemory
  <1>31. ASSUME TypeOK, CurOK, LockOK, GitOnDisk, GitInMemory,
               NEW p \in Proc, ReturnEvent(p)
        PROVE  GitOnDisk'
    BY <1>31 DEF ReturnEvent, TypeOK, GitOnDisk, GitInMemory
  <1>32. ASSUME TypeOK, CurOK, LockOK, GitOnDisk, GitInMemory,
               NEW p \in Proc, RemoveRun(p)
        PROVE  GitOnDisk'
    BY <1>32 DEF RemoveRun, TypeOK, GitOnDisk, NoManifest
  <1>33. ASSUME TypeOK, CurOK, LockOK, GitOnDisk, GitInMemory, UNCHANGED vars
        PROVE  GitOnDisk'
    BY <1>33 DEF vars, TypeOK, GitOnDisk
  <1> QED
    BY <1>1, <1>2, <1>3, <1>4, <1>5, <1>6, <1>7, <1>8, <1>9, <1>10, <1>11,
       <1>12, <1>13, <1>14, <1>15, <1>16, <1>17, <1>18, <1>19, <1>20, <1>21,
       <1>22, <1>23, <1>24, <1>25, <1>26, <1>27, <1>28, <1>29, <1>30, <1>31,
       <1>32, <1>33 DEF Next, Environment, Step, Recover, Claim, Consolidate, Finalize, GiveBack

LEMMA GitMemoryStep ==
    TypeOK /\ CurOK /\ LockOK /\ GitOnDisk /\ GitInMemory /\ [Next]_vars => GitInMemory'
  <1>1. ASSUME TypeOK, CurOK, LockOK, GitOnDisk, GitInMemory,
               NEW e \in Event, CheckKey(e)
        PROVE  GitInMemory'
    BY <1>1 DEF CheckKey, TypeOK, GitInMemory, Goto
  <1>2. ASSUME TypeOK, CurOK, LockOK, GitOnDisk, GitInMemory,
               NEW e \in Event, Append(e)
        PROVE  GitInMemory'
    BY <1>2 DEF Append, TypeOK, GitInMemory, Goto
  <1>3. ASSUME TypeOK, CurOK, LockOK, GitOnDisk, GitInMemory, ForeignCommit
        PROVE  GitInMemory'
    BY <1>3 DEF ForeignCommit, TypeOK, GitInMemory, Goto
  <1>4. ASSUME TypeOK, CurOK, LockOK, GitOnDisk, GitInMemory,
               NEW p \in Proc, Crash(p)
        PROVE  GitInMemory'
    BY <1>4, LeaveGit DEF Crash
  <1>5. ASSUME TypeOK, CurOK, LockOK, GitOnDisk, GitInMemory,
               NEW p \in Proc, RecoverBegin(p)
        PROVE  GitInMemory'
    BY <1>5 DEF RecoverBegin, TypeOK, GitInMemory, GitOnDisk, Goto
  <1>6. ASSUME TypeOK, CurOK, LockOK, GitOnDisk, GitInMemory,
               NEW p \in Proc, RecoverFinalize(p)
        PROVE  GitInMemory'
    BY <1>6 DEF RecoverFinalize, TypeOK, GitInMemory, GitOnDisk,
       IsPublished, Goto
  <1>7. ASSUME TypeOK, CurOK, LockOK, GitOnDisk, GitInMemory,
               NEW p \in Proc, RecoverReturn(p)
        PROVE  GitInMemory'
    BY <1>7 DEF RecoverReturn, TypeOK, GitInMemory, Goto
  <1>8. ASSUME TypeOK, CurOK, LockOK, GitOnDisk, GitInMemory,
               NEW p \in Proc, RecoverEnd(p)
        PROVE  GitInMemory'
    BY <1>8 DEF RecoverEnd, TypeOK, GitInMemory, NoSnapshot, NoManifest,
       NewState, Goto
  <1>9. ASSUME TypeOK, CurOK, LockOK, GitOnDisk, GitInMemory,
               NEW p \in Proc, NotDue(p)
        PROVE  GitInMemory'
    BY <1>9, LeaveGit DEF NotDue
  <1>10. ASSUME TypeOK, CurOK, LockOK, GitOnDisk, GitInMemory,
               NEW p \in Proc, Trigger(p)
        PROVE  GitInMemory'
    <2>1. CASE Exit(p)
      BY <1>10, <2>1, LeaveGit DEF Trigger
    <2>2. CASE ~Exit(p)
      BY <1>10, <2>2 DEF Trigger, TypeOK, GitInMemory, Goto
    <2> QED
      BY <2>1, <2>2
  <1>11. ASSUME TypeOK, CurOK, LockOK, GitOnDisk, GitInMemory,
               NEW p \in Proc, ClaimNothing(p)
        PROVE  GitInMemory'
    BY <1>11, LeaveGit DEF ClaimNothing
  <1>12. ASSUME TypeOK, CurOK, LockOK, GitOnDisk, GitInMemory,
               NEW p \in Proc, ClaimSnapshot(p)
        PROVE  GitInMemory'
    BY <1>12 DEF ClaimSnapshot, TypeOK, GitInMemory, GitOnDisk, Goto
  <1>13. ASSUME TypeOK, CurOK, LockOK, GitOnDisk, GitInMemory,
               NEW p \in Proc, ClaimMove(p)
        PROVE  GitInMemory'
    BY <1>13 DEF ClaimMove, TypeOK, GitInMemory, Goto
  <1>14. ASSUME TypeOK, CurOK, LockOK, GitOnDisk, GitInMemory,
               NEW p \in Proc, ClaimManifest(p)
        PROVE  GitInMemory'
    BY <1>14 DEF ClaimManifest, TypeOK, GitInMemory, Goto
  <1>15. ASSUME TypeOK, CurOK, LockOK, GitOnDisk, GitInMemory,
               NEW p \in Proc, StampAttempt(p)
        PROVE  GitInMemory'
    BY <1>15 DEF StampAttempt, TypeOK, GitInMemory, Goto
  <1>16. ASSUME TypeOK, CurOK, LockOK, GitOnDisk, GitInMemory,
               NEW p \in Proc, BuildBundle(p)
        PROVE  GitInMemory'
    <2>1. CASE Exit(p)
      BY <1>16, <2>1, LeaveGit DEF BuildBundle
    <2>2. CASE ~Exit(p)
      BY <1>16, <2>2 DEF BuildBundle, TypeOK, GitInMemory, Goto
    <2> QED
      BY <2>1, <2>2
  <1>17. ASSUME TypeOK, CurOK, LockOK, GitOnDisk, GitInMemory,
               NEW p \in Proc, PlanAndApply(p)
        PROVE  GitInMemory'
    BY <1>17 DEF PlanAndApply, TypeOK, GitInMemory, Goto
  <1>18. ASSUME TypeOK, CurOK, LockOK, GitOnDisk, GitInMemory,
               NEW p \in Proc, CommitWorktree(p)
        PROVE  GitInMemory'
    BY <1>18 DEF CommitWorktree, TypeOK, GitInMemory, Goto
  <1>19. ASSUME TypeOK, CurOK, LockOK, GitOnDisk, GitInMemory,
               NEW p \in Proc, Reject(p)
        PROVE  GitInMemory'
    BY <1>19 DEF Reject, TypeOK, GitInMemory, Goto
  <1>20. ASSUME TypeOK, CurOK, LockOK, GitOnDisk, GitInMemory,
               NEW p \in Proc, CasPublish(p)
        PROVE  GitInMemory'
    BY <1>20 DEF CasPublish, TypeOK, GitInMemory, Goto
  <1>21. ASSUME TypeOK, CurOK, LockOK, GitOnDisk, GitInMemory,
               NEW p \in Proc, CasConflict(p)
        PROVE  GitInMemory'
    BY <1>21 DEF CasConflict, TypeOK, GitInMemory, Goto
  <1>22. ASSUME TypeOK, CurOK, LockOK, GitOnDisk, GitInMemory,
               NEW p \in Proc, AdvancePublished(p)
        PROVE  GitInMemory'
    BY <1>22 DEF AdvancePublished, TypeOK, GitInMemory, Goto
  <1>23. ASSUME TypeOK, CurOK, LockOK, GitOnDisk, GitInMemory,
               NEW p \in Proc, LoadState(p)
        PROVE  GitInMemory'
    BY <1>23 DEF LoadState, TypeOK, GitInMemory, GitOnDisk, Goto
  <1>24. ASSUME TypeOK, CurOK, LockOK, GitOnDisk, GitInMemory,
               NEW p \in Proc, Drain(p)
        PROVE  GitInMemory'
    <2>1. CASE Exit(p)
      BY <1>24, <2>1, LeaveGit DEF Drain
    <2>2. CASE ~Exit(p)
      BY <1>24, <2>2 DEF Drain, TypeOK, GitInMemory, Goto
    <2> QED
      BY <2>1, <2>2
  <1>25. ASSUME TypeOK, CurOK, LockOK, GitOnDisk, GitInMemory,
               NEW p \in Proc, SaveState(p)
        PROVE  GitInMemory'
    BY <1>25 DEF SaveState, TypeOK, GitInMemory, Goto
  <1>26. ASSUME TypeOK, CurOK, LockOK, GitOnDisk, GitInMemory,
               NEW p \in Proc, AdvanceFinalized(p)
        PROVE  GitInMemory'
    BY <1>26, LeaveGit DEF AdvanceFinalized
  <1>27. ASSUME TypeOK, CurOK, LockOK, GitOnDisk, GitInMemory,
               NEW p \in Proc, FailRecord(p)
        PROVE  GitInMemory'
    BY <1>27 DEF FailRecord, TypeOK, GitInMemory, Goto
  <1>28. ASSUME TypeOK, CurOK, LockOK, GitOnDisk, GitInMemory,
               NEW p \in Proc, Dispose(p)
        PROVE  GitInMemory'
    <2>1. CASE Exit(p)
      BY <1>28, <2>1, LeaveGit DEF Dispose
    <2>2. CASE ~Exit(p)
      BY <1>28, <2>2 DEF Dispose, TypeOK, GitInMemory, Goto
    <2> QED
      BY <2>1, <2>2
  <1>29. ASSUME TypeOK, CurOK, LockOK, GitOnDisk, GitInMemory,
               NEW p \in Proc, FailLoad(p)
        PROVE  GitInMemory'
    BY <1>29 DEF FailLoad, TypeOK, GitInMemory, GitOnDisk, Goto
  <1>30. ASSUME TypeOK, CurOK, LockOK, GitOnDisk, GitInMemory,
               NEW p \in Proc, FailSave(p)
        PROVE  GitInMemory'
    BY <1>30 DEF FailSave, TypeOK, GitInMemory, Goto
  <1>31. ASSUME TypeOK, CurOK, LockOK, GitOnDisk, GitInMemory,
               NEW p \in Proc, ReturnEvent(p)
        PROVE  GitInMemory'
    BY <1>31 DEF ReturnEvent, TypeOK, GitInMemory, Goto
  <1>32. ASSUME TypeOK, CurOK, LockOK, GitOnDisk, GitInMemory,
               NEW p \in Proc, RemoveRun(p)
        PROVE  GitInMemory'
    BY <1>32, LeaveGit DEF RemoveRun
  <1>33. ASSUME TypeOK, CurOK, LockOK, GitOnDisk, GitInMemory, UNCHANGED vars
        PROVE  GitInMemory'
    BY <1>33 DEF vars, TypeOK, GitInMemory
  <1> QED
    BY <1>1, <1>2, <1>3, <1>4, <1>5, <1>6, <1>7, <1>8, <1>9, <1>10, <1>11,
       <1>12, <1>13, <1>14, <1>15, <1>16, <1>17, <1>18, <1>19, <1>20, <1>21,
       <1>22, <1>23, <1>24, <1>25, <1>26, <1>27, <1>28, <1>29, <1>30, <1>31,
       <1>32, <1>33 DEF Next, Environment, Step, Recover, Claim, Consolidate, Finalize, GiveBack

\* Where one event of a drain, or of _fail's loop, can go.
LEMMA DrainTo ==
    ASSUME TypeOK, NEW p \in Proc, Drain(p)
    PROVE  \A x \in Event : spool'[x] \in {spool[x], Processed}
  <1>1. PICK e \in todo[p] :
          spool' = [spool EXCEPT ![e] = Processed] \/ spool' = spool
    BY DEF Drain
  <1> QED
    BY <1>1 DEF TypeOK

LEMMA DisposeTo ==
    ASSUME TypeOK, CurOK, NEW p \in Proc, Dispose(p)
    PROVE  /\ cur[p] \in Run
           /\ \A x \in Event : spool'[x] \in {spool[x], Inbox, Failed(cur[p])}
  <1>1. CASE spool' = spool
    BY <1>1 DEF Dispose, CurOK, HasRun
  <1>2. ASSUME NEW e \in Event, NEW d \in {Inbox, Failed(cur[p])},
               spool' = [spool EXCEPT ![e] = d]
        PROVE  \A x \in Event : spool'[x] \in {spool[x], d}
    BY <1>2 DEF TypeOK
  <1>3. cur[p] \in Run
    BY DEF Dispose, CurOK, HasRun
  <1> QED
    BY <1>1, <1>2, <1>3, DisposeMoves

\* Draining, disposing, returning and removing only take events out of run
\* directories.
LEMMA GiveBackEmpties ==
    ASSUME TypeOK, CurOK, NEW p \in Proc,
           Drain(p) \/ Dispose(p) \/ ReturnEvent(p) \/ RemoveRun(p)
    PROVE  \A x \in Event, r \in Run :
               spool'[x] = Processing(r) => spool[x] = Processing(r)
  <1>1. CASE Drain(p)
    BY <1>1, DrainTo, PlacesDiffer
  <1>2. CASE Dispose(p)
    BY <1>2, DisposeTo, PlacesDiffer
  <1>3. CASE ReturnEvent(p)
    BY <1>3 DEF ReturnEvent, TypeOK, ReturnPlace, Inbox, Failed, Processing,
       Place
  <1>4. CASE RemoveRun(p)
    BY <1>4 DEF RemoveRun, TypeOK, Destroyed, Processing, Place
  <1> QED
    BY <1>1, <1>2, <1>3, <1>4

LEMMA BatchStep ==
    TypeOK /\ CurOK /\ LockOK /\ BatchOK /\ ClaimInBatch /\ [Next]_vars => BatchOK'
  <1>1. ASSUME TypeOK, CurOK, LockOK, BatchOK, ClaimInBatch,
               NEW e \in Event, CheckKey(e)
        PROVE  BatchOK'
    BY <1>1 DEF CheckKey, TypeOK, BatchOK, Writing, Processing, Place
  <1>2. ASSUME TypeOK, CurOK, LockOK, BatchOK, ClaimInBatch,
               NEW e \in Event, Append(e)
        PROVE  BatchOK'
    BY <1>2 DEF Append, TypeOK, BatchOK, Inbox, Processing, Place
  <1>3. ASSUME TypeOK, CurOK, LockOK, BatchOK, ClaimInBatch, ForeignCommit
        PROVE  BatchOK'
    BY <1>3 DEF ForeignCommit, TypeOK, BatchOK
  <1>4. ASSUME TypeOK, CurOK, LockOK, BatchOK, ClaimInBatch, NEW p \in Proc,
               Crash(p)
        PROVE  BatchOK'
    BY <1>4 DEF Crash, TypeOK, BatchOK
  <1>5. ASSUME TypeOK, CurOK, LockOK, BatchOK, ClaimInBatch, NEW p \in Proc,
               RecoverBegin(p)
        PROVE  BatchOK'
    BY <1>5 DEF RecoverBegin, TypeOK, BatchOK
  <1>6. ASSUME TypeOK, CurOK, LockOK, BatchOK, ClaimInBatch, NEW p \in Proc,
               RecoverFinalize(p)
        PROVE  BatchOK'
    BY <1>6 DEF RecoverFinalize, TypeOK, BatchOK
  <1>7. ASSUME TypeOK, CurOK, LockOK, BatchOK, ClaimInBatch, NEW p \in Proc,
               RecoverReturn(p)
        PROVE  BatchOK'
    BY <1>7 DEF RecoverReturn, TypeOK, BatchOK
  <1>8. ASSUME TypeOK, CurOK, LockOK, BatchOK, ClaimInBatch, NEW p \in Proc,
               RecoverEnd(p)
        PROVE  BatchOK'
    BY <1>8 DEF RecoverEnd, TypeOK, BatchOK
  <1>9. ASSUME TypeOK, CurOK, LockOK, BatchOK, ClaimInBatch, NEW p \in Proc,
               NotDue(p)
        PROVE  BatchOK'
    BY <1>9 DEF NotDue, TypeOK, BatchOK
  <1>10. ASSUME TypeOK, CurOK, LockOK, BatchOK, ClaimInBatch,
               NEW p \in Proc, Trigger(p)
        PROVE  BatchOK'
    BY <1>10 DEF Trigger, TypeOK, BatchOK
  <1>11. ASSUME TypeOK, CurOK, LockOK, BatchOK, ClaimInBatch,
               NEW p \in Proc, ClaimNothing(p)
        PROVE  BatchOK'
    BY <1>11 DEF ClaimNothing, TypeOK, BatchOK
  <1>12. ASSUME TypeOK, CurOK, LockOK, BatchOK, ClaimInBatch,
               NEW p \in Proc, ClaimSnapshot(p)
        PROVE  BatchOK'
    <2>1. nextRun \in Run /\ nextRun' = nextRun + 1 /\ nextRun \in Nat
      BY <1>12 DEF ClaimSnapshot, TypeOK, LockOK
    <2>2. /\ spool' = spool
          /\ \A r \in Run : r # nextRun => job'[r] = job[r]
          /\ job[nextRun].events = {}
      BY <2>1, <1>12 DEF ClaimSnapshot, TypeOK, BatchOK
    <2>3. \A e \in Event, r \in Run :
            spool'[e] = Processing(r) => e \in job'[r].events
      BY <2>2, <1>12 DEF BatchOK
    <2>4. ASSUME NEW r \in Run, r >= nextRun' PROVE job'[r].events = {}
      <3>1. r # nextRun /\ r >= nextRun
        BY <2>1, <2>4 DEF Run
      <3> QED
        BY <3>1, <2>2, <1>12 DEF BatchOK
    <2> QED
      BY <2>3, <2>4 DEF BatchOK
  <1>13. ASSUME TypeOK, CurOK, LockOK, BatchOK, ClaimInBatch,
               NEW p \in Proc, ClaimMove(p)
        PROVE  BatchOK'
    BY <1>13 DEF ClaimMove, TypeOK, BatchOK, ClaimInBatch, CurOK, HasRun,
       Processing, Place
  <1>14. ASSUME TypeOK, CurOK, LockOK, BatchOK, ClaimInBatch,
               NEW p \in Proc, ClaimManifest(p)
        PROVE  BatchOK'
    BY <1>14 DEF ClaimManifest, TypeOK, BatchOK
  <1>15. ASSUME TypeOK, CurOK, LockOK, BatchOK, ClaimInBatch,
               NEW p \in Proc, StampAttempt(p)
        PROVE  BatchOK'
    BY <1>15 DEF StampAttempt, TypeOK, BatchOK
  <1>16. ASSUME TypeOK, CurOK, LockOK, BatchOK, ClaimInBatch,
               NEW p \in Proc, BuildBundle(p)
        PROVE  BatchOK'
    BY <1>16 DEF BuildBundle, TypeOK, BatchOK
  <1>17. ASSUME TypeOK, CurOK, LockOK, BatchOK, ClaimInBatch,
               NEW p \in Proc, PlanAndApply(p)
        PROVE  BatchOK'
    BY <1>17 DEF PlanAndApply, TypeOK, BatchOK
  <1>18. ASSUME TypeOK, CurOK, LockOK, BatchOK, ClaimInBatch,
               NEW p \in Proc, CommitWorktree(p)
        PROVE  BatchOK'
    BY <1>18 DEF CommitWorktree, TypeOK, BatchOK
  <1>19. ASSUME TypeOK, CurOK, LockOK, BatchOK, ClaimInBatch,
               NEW p \in Proc, Reject(p)
        PROVE  BatchOK'
    BY <1>19 DEF Reject, TypeOK, BatchOK
  <1>20. ASSUME TypeOK, CurOK, LockOK, BatchOK, ClaimInBatch,
               NEW p \in Proc, CasPublish(p)
        PROVE  BatchOK'
    BY <1>20 DEF CasPublish, TypeOK, BatchOK
  <1>21. ASSUME TypeOK, CurOK, LockOK, BatchOK, ClaimInBatch,
               NEW p \in Proc, CasConflict(p)
        PROVE  BatchOK'
    BY <1>21 DEF CasConflict, TypeOK, BatchOK
  <1>22. ASSUME TypeOK, CurOK, LockOK, BatchOK, ClaimInBatch,
               NEW p \in Proc, AdvancePublished(p)
        PROVE  BatchOK'
    BY <1>22 DEF AdvancePublished, TypeOK, BatchOK
  <1>23. ASSUME TypeOK, CurOK, LockOK, BatchOK, ClaimInBatch,
               NEW p \in Proc, LoadState(p)
        PROVE  BatchOK'
    BY <1>23 DEF LoadState, TypeOK, BatchOK
  <1>24. ASSUME TypeOK, CurOK, LockOK, BatchOK, ClaimInBatch,
               NEW p \in Proc, Drain(p)
        PROVE  BatchOK'
    BY <1>24, GiveBackEmpties DEF Drain, BatchOK
  <1>25. ASSUME TypeOK, CurOK, LockOK, BatchOK, ClaimInBatch,
               NEW p \in Proc, SaveState(p)
        PROVE  BatchOK'
    BY <1>25 DEF SaveState, TypeOK, BatchOK
  <1>26. ASSUME TypeOK, CurOK, LockOK, BatchOK, ClaimInBatch,
               NEW p \in Proc, AdvanceFinalized(p)
        PROVE  BatchOK'
    BY <1>26 DEF AdvanceFinalized, TypeOK, BatchOK
  <1>27. ASSUME TypeOK, CurOK, LockOK, BatchOK, ClaimInBatch,
               NEW p \in Proc, FailRecord(p)
        PROVE  BatchOK'
    BY <1>27 DEF FailRecord, TypeOK, BatchOK
  <1>28. ASSUME TypeOK, CurOK, LockOK, BatchOK, ClaimInBatch,
               NEW p \in Proc, Dispose(p)
        PROVE  BatchOK'
    BY <1>28, GiveBackEmpties DEF Dispose, BatchOK
  <1>29. ASSUME TypeOK, CurOK, LockOK, BatchOK, ClaimInBatch,
               NEW p \in Proc, FailLoad(p)
        PROVE  BatchOK'
    BY <1>29 DEF FailLoad, TypeOK, BatchOK
  <1>30. ASSUME TypeOK, CurOK, LockOK, BatchOK, ClaimInBatch,
               NEW p \in Proc, FailSave(p)
        PROVE  BatchOK'
    BY <1>30 DEF FailSave, TypeOK, BatchOK
  <1>31. ASSUME TypeOK, CurOK, LockOK, BatchOK, ClaimInBatch,
               NEW p \in Proc, ReturnEvent(p)
        PROVE  BatchOK'
    BY <1>31, GiveBackEmpties DEF ReturnEvent, BatchOK
  <1>32. ASSUME TypeOK, CurOK, LockOK, BatchOK, ClaimInBatch,
               NEW p \in Proc, RemoveRun(p)
        PROVE  BatchOK'
    BY <1>32, GiveBackEmpties DEF RemoveRun, BatchOK
  <1>33. ASSUME TypeOK, CurOK, LockOK, BatchOK, ClaimInBatch, UNCHANGED vars
        PROVE  BatchOK'
    BY <1>33 DEF vars, TypeOK, BatchOK
  <1> QED
    BY <1>1, <1>2, <1>3, <1>4, <1>5, <1>6, <1>7, <1>8, <1>9, <1>10, <1>11,
       <1>12, <1>13, <1>14, <1>15, <1>16, <1>17, <1>18, <1>19, <1>20, <1>21,
       <1>22, <1>23, <1>24, <1>25, <1>26, <1>27, <1>28, <1>29, <1>30, <1>31,
       <1>32, <1>33 DEF Next, Environment, Step, Recover, Claim, Consolidate, Finalize, GiveBack

LEMMA ClaimBatchStep ==
    TypeOK /\ CurOK /\ LockOK /\ BatchOK /\ ClaimInBatch /\ [Next]_vars => ClaimInBatch'
  <1>1. ASSUME TypeOK, CurOK, LockOK, BatchOK, ClaimInBatch,
               NEW e \in Event, CheckKey(e)
        PROVE  ClaimInBatch'
    BY <1>1 DEF CheckKey, TypeOK, ClaimInBatch, Goto
  <1>2. ASSUME TypeOK, CurOK, LockOK, BatchOK, ClaimInBatch,
               NEW e \in Event, Append(e)
        PROVE  ClaimInBatch'
    BY <1>2 DEF Append, TypeOK, ClaimInBatch, Goto
  <1>3. ASSUME TypeOK, CurOK, LockOK, BatchOK, ClaimInBatch, ForeignCommit
        PROVE  ClaimInBatch'
    BY <1>3 DEF ForeignCommit, TypeOK, ClaimInBatch, Goto
  <1>4. ASSUME TypeOK, CurOK, LockOK, BatchOK, ClaimInBatch, NEW p \in Proc,
               Crash(p)
        PROVE  ClaimInBatch'
    BY <1>4, LeaveEffect DEF Crash, TypeOK, ClaimInBatch
  <1>5. ASSUME TypeOK, CurOK, LockOK, BatchOK, ClaimInBatch, NEW p \in Proc,
               RecoverBegin(p)
        PROVE  ClaimInBatch'
    BY <1>5 DEF RecoverBegin, TypeOK, ClaimInBatch, Goto
  <1>6. ASSUME TypeOK, CurOK, LockOK, BatchOK, ClaimInBatch, NEW p \in Proc,
               RecoverFinalize(p)
        PROVE  ClaimInBatch'
    BY <1>6 DEF RecoverFinalize, TypeOK, ClaimInBatch, Goto
  <1>7. ASSUME TypeOK, CurOK, LockOK, BatchOK, ClaimInBatch, NEW p \in Proc,
               RecoverReturn(p)
        PROVE  ClaimInBatch'
    BY <1>7 DEF RecoverReturn, TypeOK, ClaimInBatch, Goto
  <1>8. ASSUME TypeOK, CurOK, LockOK, BatchOK, ClaimInBatch, NEW p \in Proc,
               RecoverEnd(p)
        PROVE  ClaimInBatch'
    BY <1>8 DEF RecoverEnd, TypeOK, ClaimInBatch, Goto
  <1>9. ASSUME TypeOK, CurOK, LockOK, BatchOK, ClaimInBatch, NEW p \in Proc,
               NotDue(p)
        PROVE  ClaimInBatch'
    BY <1>9, LeaveEffect DEF NotDue, TypeOK, ClaimInBatch
  <1>10. ASSUME TypeOK, CurOK, LockOK, BatchOK, ClaimInBatch,
               NEW p \in Proc, Trigger(p)
        PROVE  ClaimInBatch'
    <2>1. CASE Exit(p)
      BY <1>10, <2>1, LeaveEffect DEF Trigger, TypeOK,
         ClaimInBatch
    <2>2. CASE ~Exit(p)
      BY <1>10, <2>2 DEF Trigger, TypeOK, ClaimInBatch, Goto
    <2> QED
      BY <2>1, <2>2
  <1>11. ASSUME TypeOK, CurOK, LockOK, BatchOK, ClaimInBatch,
               NEW p \in Proc, ClaimNothing(p)
        PROVE  ClaimInBatch'
    BY <1>11, LeaveEffect DEF ClaimNothing, TypeOK, ClaimInBatch
  <1>12. ASSUME TypeOK, CurOK, LockOK, BatchOK, ClaimInBatch,
               NEW p \in Proc, ClaimSnapshot(p)
        PROVE  ClaimInBatch'
    <2>1. nextRun \in Run /\ nextRun' = nextRun + 1 /\ nextRun \in Nat
      BY <1>12 DEF ClaimSnapshot, TypeOK, LockOK
    <2>2. /\ spool' = spool
          /\ \A r \in Run : r # nextRun => job'[r] = job[r]
          /\ job[nextRun].events = {}
      BY <2>1, <1>12 DEF ClaimSnapshot, TypeOK, BatchOK
    <2>3. ASSUME NEW q \in Proc, pc'[q] = "claim"
          PROVE  todo'[q] \subseteq job'[cur'[q]].events
      <3>1. CASE q = p
        BY <2>1, <3>1, <1>12 DEF ClaimSnapshot, TypeOK
      <3>2. CASE q # p
        BY <2>3, <3>2, <1>12 DEF ClaimSnapshot, TypeOK, LockOK, Locked, Goto
      <3> QED
        BY <3>1, <3>2
    <2> QED
      BY <2>3 DEF ClaimInBatch
  <1>13. ASSUME TypeOK, CurOK, LockOK, BatchOK, ClaimInBatch,
               NEW p \in Proc, ClaimMove(p)
        PROVE  ClaimInBatch'
    BY <1>13 DEF ClaimMove, TypeOK, ClaimInBatch, Goto
  <1>14. ASSUME TypeOK, CurOK, LockOK, BatchOK, ClaimInBatch,
               NEW p \in Proc, ClaimManifest(p)
        PROVE  ClaimInBatch'
    BY <1>14 DEF ClaimManifest, TypeOK, ClaimInBatch, Goto
  <1>15. ASSUME TypeOK, CurOK, LockOK, BatchOK, ClaimInBatch,
               NEW p \in Proc, StampAttempt(p)
        PROVE  ClaimInBatch'
    BY <1>15 DEF StampAttempt, TypeOK, ClaimInBatch, Goto
  <1>16. ASSUME TypeOK, CurOK, LockOK, BatchOK, ClaimInBatch,
               NEW p \in Proc, BuildBundle(p)
        PROVE  ClaimInBatch'
    <2>1. CASE Exit(p)
      BY <1>16, <2>1, LeaveEffect DEF BuildBundle, TypeOK,
         ClaimInBatch
    <2>2. CASE ~Exit(p)
      BY <1>16, <2>2 DEF BuildBundle, TypeOK, ClaimInBatch, Goto
    <2> QED
      BY <2>1, <2>2
  <1>17. ASSUME TypeOK, CurOK, LockOK, BatchOK, ClaimInBatch,
               NEW p \in Proc, PlanAndApply(p)
        PROVE  ClaimInBatch'
    BY <1>17 DEF PlanAndApply, TypeOK, ClaimInBatch, Goto
  <1>18. ASSUME TypeOK, CurOK, LockOK, BatchOK, ClaimInBatch,
               NEW p \in Proc, CommitWorktree(p)
        PROVE  ClaimInBatch'
    BY <1>18 DEF CommitWorktree, TypeOK, ClaimInBatch, Goto
  <1>19. ASSUME TypeOK, CurOK, LockOK, BatchOK, ClaimInBatch,
               NEW p \in Proc, Reject(p)
        PROVE  ClaimInBatch'
    BY <1>19 DEF Reject, TypeOK, ClaimInBatch, Goto
  <1>20. ASSUME TypeOK, CurOK, LockOK, BatchOK, ClaimInBatch,
               NEW p \in Proc, CasPublish(p)
        PROVE  ClaimInBatch'
    BY <1>20 DEF CasPublish, TypeOK, ClaimInBatch, Goto
  <1>21. ASSUME TypeOK, CurOK, LockOK, BatchOK, ClaimInBatch,
               NEW p \in Proc, CasConflict(p)
        PROVE  ClaimInBatch'
    BY <1>21 DEF CasConflict, TypeOK, ClaimInBatch, Goto
  <1>22. ASSUME TypeOK, CurOK, LockOK, BatchOK, ClaimInBatch,
               NEW p \in Proc, AdvancePublished(p)
        PROVE  ClaimInBatch'
    BY <1>22 DEF AdvancePublished, TypeOK, ClaimInBatch, Goto
  <1>23. ASSUME TypeOK, CurOK, LockOK, BatchOK, ClaimInBatch,
               NEW p \in Proc, LoadState(p)
        PROVE  ClaimInBatch'
    BY <1>23 DEF LoadState, TypeOK, ClaimInBatch, Goto
  <1>24. ASSUME TypeOK, CurOK, LockOK, BatchOK, ClaimInBatch,
               NEW p \in Proc, Drain(p)
        PROVE  ClaimInBatch'
    <2>1. CASE Exit(p)
      BY <1>24, <2>1, LeaveEffect DEF Drain, TypeOK,
         ClaimInBatch
    <2>2. CASE ~Exit(p)
      BY <1>24, <2>2 DEF Drain, TypeOK, ClaimInBatch, Goto
    <2> QED
      BY <2>1, <2>2
  <1>25. ASSUME TypeOK, CurOK, LockOK, BatchOK, ClaimInBatch,
               NEW p \in Proc, SaveState(p)
        PROVE  ClaimInBatch'
    BY <1>25 DEF SaveState, TypeOK, ClaimInBatch, Goto
  <1>26. ASSUME TypeOK, CurOK, LockOK, BatchOK, ClaimInBatch,
               NEW p \in Proc, AdvanceFinalized(p)
        PROVE  ClaimInBatch'
    BY <1>26, LeaveEffect DEF AdvanceFinalized, TypeOK, ClaimInBatch
  <1>27. ASSUME TypeOK, CurOK, LockOK, BatchOK, ClaimInBatch,
               NEW p \in Proc, FailRecord(p)
        PROVE  ClaimInBatch'
    BY <1>27 DEF FailRecord, TypeOK, ClaimInBatch, Goto
  <1>28. ASSUME TypeOK, CurOK, LockOK, BatchOK, ClaimInBatch,
               NEW p \in Proc, Dispose(p)
        PROVE  ClaimInBatch'
    <2>1. CASE Exit(p)
      BY <1>28, <2>1, LeaveEffect DEF Dispose, TypeOK,
         ClaimInBatch
    <2>2. CASE ~Exit(p)
      BY <1>28, <2>2 DEF Dispose, TypeOK, ClaimInBatch, Goto
    <2> QED
      BY <2>1, <2>2
  <1>29. ASSUME TypeOK, CurOK, LockOK, BatchOK, ClaimInBatch,
               NEW p \in Proc, FailLoad(p)
        PROVE  ClaimInBatch'
    BY <1>29 DEF FailLoad, TypeOK, ClaimInBatch, Goto
  <1>30. ASSUME TypeOK, CurOK, LockOK, BatchOK, ClaimInBatch,
               NEW p \in Proc, FailSave(p)
        PROVE  ClaimInBatch'
    BY <1>30 DEF FailSave, TypeOK, ClaimInBatch, Goto
  <1>31. ASSUME TypeOK, CurOK, LockOK, BatchOK, ClaimInBatch,
               NEW p \in Proc, ReturnEvent(p)
        PROVE  ClaimInBatch'
    BY <1>31 DEF ReturnEvent, TypeOK, ClaimInBatch, Goto
  <1>32. ASSUME TypeOK, CurOK, LockOK, BatchOK, ClaimInBatch,
               NEW p \in Proc, RemoveRun(p)
        PROVE  ClaimInBatch'
    BY <1>32, LeaveEffect DEF RemoveRun, TypeOK, ClaimInBatch
  <1>33. ASSUME TypeOK, CurOK, LockOK, BatchOK, ClaimInBatch, UNCHANGED vars
        PROVE  ClaimInBatch'
    BY <1>33 DEF vars, TypeOK, ClaimInBatch
  <1> QED
    BY <1>1, <1>2, <1>3, <1>4, <1>5, <1>6, <1>7, <1>8, <1>9, <1>10, <1>11,
       <1>12, <1>13, <1>14, <1>15, <1>16, <1>17, <1>18, <1>19, <1>20, <1>21,
       <1>22, <1>23, <1>24, <1>25, <1>26, <1>27, <1>28, <1>29, <1>30, <1>31,
       <1>32, <1>33 DEF Next, Environment, Step, Recover, Claim, Consolidate, Finalize, GiveBack

LEMMA MintedStep ==
    TypeOK /\ CurOK /\ LockOK /\ MintedOK /\ [Next]_vars => MintedOK'
  <1>1. ASSUME TypeOK, CurOK, LockOK, MintedOK, NEW e \in Event, CheckKey(e)
        PROVE  MintedOK'
    BY <1>1 DEF CheckKey, TypeOK, MintedOK, Goto
  <1>2. ASSUME TypeOK, CurOK, LockOK, MintedOK, NEW e \in Event, Append(e)
        PROVE  MintedOK'
    BY <1>2 DEF Append, TypeOK, MintedOK, Goto
  <1>3. ASSUME TypeOK, CurOK, LockOK, MintedOK, ForeignCommit
        PROVE  MintedOK'
    BY <1>3 DEF ForeignCommit, TypeOK, MintedOK, Goto
  <1>4. ASSUME TypeOK, CurOK, LockOK, MintedOK, NEW p \in Proc, Crash(p)
        PROVE  MintedOK'
    BY <1>4, LeaveMinted DEF Crash, TypeOK, MintedOK
  <1>5. ASSUME TypeOK, CurOK, LockOK, MintedOK, NEW p \in Proc,
               RecoverBegin(p)
        PROVE  MintedOK'
    BY <1>5 DEF RecoverBegin, TypeOK, MintedOK, InFlight, Run
  <1>6. ASSUME TypeOK, CurOK, LockOK, MintedOK, NEW p \in Proc,
               RecoverFinalize(p)
        PROVE  MintedOK'
    BY <1>6 DEF RecoverFinalize, TypeOK, MintedOK, Goto
  <1>7. ASSUME TypeOK, CurOK, LockOK, MintedOK, NEW p \in Proc,
               RecoverReturn(p)
        PROVE  MintedOK'
    BY <1>7 DEF RecoverReturn, TypeOK, MintedOK, Goto
  <1>8. ASSUME TypeOK, CurOK, LockOK, MintedOK, NEW p \in Proc,
               RecoverEnd(p)
        PROVE  MintedOK'
    BY <1>8 DEF RecoverEnd, TypeOK, MintedOK, Goto
  <1>9. ASSUME TypeOK, CurOK, LockOK, MintedOK, NEW p \in Proc, NotDue(p)
        PROVE  MintedOK'
    BY <1>9, LeaveMinted DEF NotDue, TypeOK, MintedOK
  <1>10. ASSUME TypeOK, CurOK, LockOK, MintedOK, NEW p \in Proc, Trigger(p)
        PROVE  MintedOK'
    <2>1. CASE Exit(p)
      BY <1>10, <2>1, LeaveMinted DEF Trigger, MintedOK
    <2>2. CASE ~Exit(p)
      BY <1>10, <2>2 DEF Trigger, TypeOK, MintedOK, Goto
    <2> QED
      BY <2>1, <2>2
  <1>11. ASSUME TypeOK, CurOK, LockOK, MintedOK, NEW p \in Proc,
               ClaimNothing(p)
        PROVE  MintedOK'
    BY <1>11, LeaveMinted DEF ClaimNothing, TypeOK, MintedOK
  <1>12. ASSUME TypeOK, CurOK, LockOK, MintedOK, NEW p \in Proc,
               ClaimSnapshot(p)
        PROVE  MintedOK'
    <2>1. nextRun \in Nat /\ nextRun' = nextRun + 1 /\ manifest' = manifest
      BY <1>12 DEF ClaimSnapshot, TypeOK
    <2>2. \A q \in Proc : cur'[q] \in {cur[q], nextRun} /\ backlog'[q] = backlog[q]
      BY <1>12 DEF ClaimSnapshot, TypeOK
    <2>3. Run \subseteq Nat /\ \A q \in Proc : cur[q] \in Nat
                           /\ backlog[q] \subseteq Nat
      <3>1. \A q \in Proc : cur[q] \in {0} \cup Run /\ backlog[q] \subseteq Run
        BY <1>12 DEF TypeOK
      <3>2. Run \subseteq Nat
        BY RunIsNat
      <3>3. ASSUME NEW q \in Proc PROVE cur[q] \in Nat
        <4>1. CASE cur[q] = 0
          BY <4>1
        <4>2. CASE cur[q] \in Run
          BY <4>2, <3>2
        <4> QED
          BY <3>1, <4>1, <4>2
      <3>4. \A q \in Proc : backlog[q] \subseteq Nat
        BY <3>1, <3>2
      <3> QED
        BY <3>2, <3>3, <3>4
    <2>4. \A n \in Nat : /\ n < nextRun => n < nextRun'
                         /\ n >= nextRun' => n >= nextRun
      BY <2>1
    <2>5. nextRun < nextRun'
      BY <2>1
    <2>6. \A q \in Proc : cur'[q] < nextRun' /\ \A r \in backlog'[q] : r < nextRun'
      BY <2>2, <2>3, <2>4, <2>5, <1>12 DEF MintedOK
    <2>7. \A r \in Run : r >= nextRun' => manifest'[r].phase = "none"
      BY <2>1, <2>3, <2>4, <1>12 DEF MintedOK
    <2> QED
      BY <2>6, <2>7 DEF MintedOK
  <1>13. ASSUME TypeOK, CurOK, LockOK, MintedOK, NEW p \in Proc,
               ClaimMove(p)
        PROVE  MintedOK'
    BY <1>13 DEF ClaimMove, TypeOK, MintedOK, Goto
  <1>14. ASSUME TypeOK, CurOK, LockOK, MintedOK, NEW p \in Proc,
               ClaimManifest(p)
        PROVE  MintedOK'
    BY <1>14, MintedManifest DEF ClaimManifest, TypeOK, MintedOK, Advance,
       HasRun
  <1>15. ASSUME TypeOK, CurOK, LockOK, MintedOK, NEW p \in Proc,
               StampAttempt(p)
        PROVE  MintedOK'
    BY <1>15 DEF StampAttempt, TypeOK, MintedOK, Goto
  <1>16. ASSUME TypeOK, CurOK, LockOK, MintedOK, NEW p \in Proc,
               BuildBundle(p)
        PROVE  MintedOK'
    <2>1. CASE Exit(p)
      BY <1>16, <2>1, LeaveMinted DEF BuildBundle, MintedOK
    <2>2. CASE ~Exit(p)
      BY <1>16, <2>2 DEF BuildBundle, TypeOK, MintedOK, Goto
    <2> QED
      BY <2>1, <2>2
  <1>17. ASSUME TypeOK, CurOK, LockOK, MintedOK, NEW p \in Proc,
               PlanAndApply(p)
        PROVE  MintedOK'
    BY <1>17, MintedManifest DEF PlanAndApply, TypeOK, MintedOK, Advance,
       HasRun
  <1>18. ASSUME TypeOK, CurOK, LockOK, MintedOK, NEW p \in Proc,
               CommitWorktree(p)
        PROVE  MintedOK'
    BY <1>18, MintedManifest DEF CommitWorktree, TypeOK, MintedOK, Advance,
       HasRun
  <1>19. ASSUME TypeOK, CurOK, LockOK, MintedOK, NEW p \in Proc, Reject(p)
        PROVE  MintedOK'
    BY <1>19 DEF Reject, TypeOK, MintedOK, Goto
  <1>20. ASSUME TypeOK, CurOK, LockOK, MintedOK, NEW p \in Proc,
               CasPublish(p)
        PROVE  MintedOK'
    BY <1>20 DEF CasPublish, TypeOK, MintedOK, Goto
  <1>21. ASSUME TypeOK, CurOK, LockOK, MintedOK, NEW p \in Proc,
               CasConflict(p)
        PROVE  MintedOK'
    BY <1>21 DEF CasConflict, TypeOK, MintedOK, Goto
  <1>22. ASSUME TypeOK, CurOK, LockOK, MintedOK, NEW p \in Proc,
               AdvancePublished(p)
        PROVE  MintedOK'
    BY <1>22, MintedManifest DEF AdvancePublished, TypeOK, MintedOK,
       Advance, HasRun
  <1>23. ASSUME TypeOK, CurOK, LockOK, MintedOK, NEW p \in Proc,
               LoadState(p)
        PROVE  MintedOK'
    BY <1>23 DEF LoadState, TypeOK, MintedOK, Goto
  <1>24. ASSUME TypeOK, CurOK, LockOK, MintedOK, NEW p \in Proc, Drain(p)
        PROVE  MintedOK'
    <2>1. CASE Exit(p)
      BY <1>24, <2>1, LeaveMinted DEF Drain, MintedOK
    <2>2. CASE ~Exit(p)
      BY <1>24, <2>2 DEF Drain, TypeOK, MintedOK, Goto
    <2> QED
      BY <2>1, <2>2
  <1>25. ASSUME TypeOK, CurOK, LockOK, MintedOK, NEW p \in Proc,
               SaveState(p)
        PROVE  MintedOK'
    BY <1>25 DEF SaveState, TypeOK, MintedOK, Goto
  <1>26. ASSUME TypeOK, CurOK, LockOK, MintedOK, NEW p \in Proc,
               AdvanceFinalized(p)
        PROVE  MintedOK'
    BY <1>26, LeaveMinted, MintedManifest DEF AdvanceFinalized, TypeOK,
       MintedOK, Advance, HasRun
  <1>27. ASSUME TypeOK, CurOK, LockOK, MintedOK, NEW p \in Proc,
               FailRecord(p)
        PROVE  MintedOK'
    BY <1>27 DEF FailRecord, TypeOK, MintedOK, Goto
  <1>28. ASSUME TypeOK, CurOK, LockOK, MintedOK, NEW p \in Proc, Dispose(p)
        PROVE  MintedOK'
    <2>1. CASE Exit(p)
      BY <1>28, <2>1, LeaveMinted DEF Dispose, MintedOK
    <2>2. CASE ~Exit(p)
      BY <1>28, <2>2 DEF Dispose, TypeOK, MintedOK, Goto
    <2> QED
      BY <2>1, <2>2
  <1>29. ASSUME TypeOK, CurOK, LockOK, MintedOK, NEW p \in Proc, FailLoad(p)
        PROVE  MintedOK'
    BY <1>29 DEF FailLoad, TypeOK, MintedOK, Goto
  <1>30. ASSUME TypeOK, CurOK, LockOK, MintedOK, NEW p \in Proc, FailSave(p)
        PROVE  MintedOK'
    BY <1>30 DEF FailSave, TypeOK, MintedOK, Goto
  <1>31. ASSUME TypeOK, CurOK, LockOK, MintedOK, NEW p \in Proc,
               ReturnEvent(p)
        PROVE  MintedOK'
    BY <1>31 DEF ReturnEvent, TypeOK, MintedOK, Goto
  <1>32. ASSUME TypeOK, CurOK, LockOK, MintedOK, NEW p \in Proc,
               RemoveRun(p)
        PROVE  MintedOK'
    BY <1>32, LeaveMinted, MintedManifest DEF RemoveRun, TypeOK, MintedOK,
       HasRun
  <1>33. ASSUME TypeOK, CurOK, LockOK, MintedOK, UNCHANGED vars
        PROVE  MintedOK'
    BY <1>33 DEF vars, TypeOK, MintedOK
  <1> QED
    BY <1>1, <1>2, <1>3, <1>4, <1>5, <1>6, <1>7, <1>8, <1>9, <1>10, <1>11,
       <1>12, <1>13, <1>14, <1>15, <1>16, <1>17, <1>18, <1>19, <1>20, <1>21,
       <1>22, <1>23, <1>24, <1>25, <1>26, <1>27, <1>28, <1>29, <1>30, <1>31,
       <1>32, <1>33 DEF Next, Environment, Step, Recover, Claim, Consolidate, Finalize, GiveBack

LEMMA ClaimHiddenStep ==
    TypeOK /\ CurOK /\ LockOK /\ MintedOK /\ ClaimHidden /\ ClaimPrivate /\ [Next]_vars => ClaimHidden'
  <1>1. ASSUME TypeOK, CurOK, LockOK, MintedOK, ClaimHidden, ClaimPrivate,
               NEW e \in Event, CheckKey(e)
        PROVE  ClaimHidden'
    BY <1>1 DEF CheckKey, TypeOK, ClaimHidden, Goto
  <1>2. ASSUME TypeOK, CurOK, LockOK, MintedOK, ClaimHidden, ClaimPrivate,
               NEW e \in Event, Append(e)
        PROVE  ClaimHidden'
    BY <1>2 DEF Append, TypeOK, ClaimHidden, Goto
  <1>3. ASSUME TypeOK, CurOK, LockOK, MintedOK, ClaimHidden, ClaimPrivate,
               ForeignCommit
        PROVE  ClaimHidden'
    BY <1>3 DEF ForeignCommit, TypeOK, ClaimHidden, Goto
  <1>4. ASSUME TypeOK, CurOK, LockOK, MintedOK, ClaimHidden, ClaimPrivate,
               NEW p \in Proc, Crash(p)
        PROVE  ClaimHidden'
    BY <1>4, LeaveHidden DEF Crash
  <1>5. ASSUME TypeOK, CurOK, LockOK, MintedOK, ClaimHidden, ClaimPrivate,
               NEW p \in Proc, RecoverBegin(p)
        PROVE  ClaimHidden'
    BY <1>5 DEF RecoverBegin, TypeOK, ClaimHidden, Goto
  <1>6. ASSUME TypeOK, CurOK, LockOK, MintedOK, ClaimHidden, ClaimPrivate,
               NEW p \in Proc, RecoverFinalize(p)
        PROVE  ClaimHidden'
    BY <1>6 DEF RecoverFinalize, TypeOK, ClaimHidden, Goto
  <1>7. ASSUME TypeOK, CurOK, LockOK, MintedOK, ClaimHidden, ClaimPrivate,
               NEW p \in Proc, RecoverReturn(p)
        PROVE  ClaimHidden'
    BY <1>7 DEF RecoverReturn, TypeOK, ClaimHidden, Goto
  <1>8. ASSUME TypeOK, CurOK, LockOK, MintedOK, ClaimHidden, ClaimPrivate,
               NEW p \in Proc, RecoverEnd(p)
        PROVE  ClaimHidden'
    BY <1>8 DEF RecoverEnd, TypeOK, ClaimHidden, Goto
  <1>9. ASSUME TypeOK, CurOK, LockOK, MintedOK, ClaimHidden, ClaimPrivate,
               NEW p \in Proc, NotDue(p)
        PROVE  ClaimHidden'
    BY <1>9, LeaveHidden DEF NotDue
  <1>10. ASSUME TypeOK, CurOK, LockOK, MintedOK, ClaimHidden, ClaimPrivate,
               NEW p \in Proc, Trigger(p)
        PROVE  ClaimHidden'
    <2>1. CASE Exit(p)
      BY <1>10, <2>1, LeaveHidden DEF Trigger
    <2>2. CASE ~Exit(p)
      BY <1>10, <2>2 DEF Trigger, TypeOK, ClaimHidden, Goto
    <2> QED
      BY <2>1, <2>2
  <1>11. ASSUME TypeOK, CurOK, LockOK, MintedOK, ClaimHidden, ClaimPrivate,
               NEW p \in Proc, ClaimNothing(p)
        PROVE  ClaimHidden'
    BY <1>11, LeaveHidden DEF ClaimNothing
  <1>12. ASSUME TypeOK, CurOK, LockOK, MintedOK, ClaimHidden, ClaimPrivate,
               NEW p \in Proc, ClaimSnapshot(p)
        PROVE  ClaimHidden'
    BY <1>12 DEF ClaimSnapshot, TypeOK, ClaimHidden, MintedOK, LockOK, Goto
  <1>13. ASSUME TypeOK, CurOK, LockOK, MintedOK, ClaimHidden, ClaimPrivate,
               NEW p \in Proc, ClaimMove(p)
        PROVE  ClaimHidden'
    BY <1>13 DEF ClaimMove, TypeOK, ClaimHidden, Goto
  <1>14. ASSUME TypeOK, CurOK, LockOK, MintedOK, ClaimHidden, ClaimPrivate,
               NEW p \in Proc, ClaimManifest(p)
        PROVE  ClaimHidden'
    BY <1>14 DEF ClaimManifest, TypeOK, ClaimHidden, ClaimPrivate, Advance,
       CurOK, HasRun, Goto
  <1>15. ASSUME TypeOK, CurOK, LockOK, MintedOK, ClaimHidden, ClaimPrivate,
               NEW p \in Proc, StampAttempt(p)
        PROVE  ClaimHidden'
    BY <1>15 DEF StampAttempt, TypeOK, ClaimHidden, Goto
  <1>16. ASSUME TypeOK, CurOK, LockOK, MintedOK, ClaimHidden, ClaimPrivate,
               NEW p \in Proc, BuildBundle(p)
        PROVE  ClaimHidden'
    <2>1. CASE Exit(p)
      BY <1>16, <2>1, LeaveHidden DEF BuildBundle
    <2>2. CASE ~Exit(p)
      BY <1>16, <2>2 DEF BuildBundle, TypeOK, ClaimHidden, Goto
    <2> QED
      BY <2>1, <2>2
  <1>17. ASSUME TypeOK, CurOK, LockOK, MintedOK, ClaimHidden, ClaimPrivate,
               NEW p \in Proc, PlanAndApply(p)
        PROVE  ClaimHidden'
    BY <1>17 DEF PlanAndApply, TypeOK, ClaimHidden, ClaimPrivate, Advance,
       CurOK, HasRun, Goto
  <1>18. ASSUME TypeOK, CurOK, LockOK, MintedOK, ClaimHidden, ClaimPrivate,
               NEW p \in Proc, CommitWorktree(p)
        PROVE  ClaimHidden'
    BY <1>18 DEF CommitWorktree, TypeOK, ClaimHidden, ClaimPrivate, Advance,
       CurOK, HasRun, Goto
  <1>19. ASSUME TypeOK, CurOK, LockOK, MintedOK, ClaimHidden, ClaimPrivate,
               NEW p \in Proc, Reject(p)
        PROVE  ClaimHidden'
    BY <1>19 DEF Reject, TypeOK, ClaimHidden, Goto
  <1>20. ASSUME TypeOK, CurOK, LockOK, MintedOK, ClaimHidden, ClaimPrivate,
               NEW p \in Proc, CasPublish(p)
        PROVE  ClaimHidden'
    BY <1>20 DEF CasPublish, TypeOK, ClaimHidden, Goto
  <1>21. ASSUME TypeOK, CurOK, LockOK, MintedOK, ClaimHidden, ClaimPrivate,
               NEW p \in Proc, CasConflict(p)
        PROVE  ClaimHidden'
    BY <1>21 DEF CasConflict, TypeOK, ClaimHidden, Goto
  <1>22. ASSUME TypeOK, CurOK, LockOK, MintedOK, ClaimHidden, ClaimPrivate,
               NEW p \in Proc, AdvancePublished(p)
        PROVE  ClaimHidden'
    BY <1>22 DEF AdvancePublished, TypeOK, ClaimHidden, ClaimPrivate,
       Advance, CurOK, HasRun, Goto
  <1>23. ASSUME TypeOK, CurOK, LockOK, MintedOK, ClaimHidden, ClaimPrivate,
               NEW p \in Proc, LoadState(p)
        PROVE  ClaimHidden'
    BY <1>23 DEF LoadState, TypeOK, ClaimHidden, Goto
  <1>24. ASSUME TypeOK, CurOK, LockOK, MintedOK, ClaimHidden, ClaimPrivate,
               NEW p \in Proc, Drain(p)
        PROVE  ClaimHidden'
    <2>1. CASE Exit(p)
      BY <1>24, <2>1, LeaveHidden DEF Drain
    <2>2. CASE ~Exit(p)
      BY <1>24, <2>2 DEF Drain, TypeOK, ClaimHidden, Goto
    <2> QED
      BY <2>1, <2>2
  <1>25. ASSUME TypeOK, CurOK, LockOK, MintedOK, ClaimHidden, ClaimPrivate,
               NEW p \in Proc, SaveState(p)
        PROVE  ClaimHidden'
    BY <1>25 DEF SaveState, TypeOK, ClaimHidden, Goto
  <1>26. ASSUME TypeOK, CurOK, LockOK, MintedOK, ClaimHidden, ClaimPrivate,
               NEW p \in Proc, AdvanceFinalized(p)
        PROVE  ClaimHidden'
    BY <1>26, LeaveHidden DEF AdvanceFinalized, TypeOK, ClaimPrivate,
       Advance, CurOK, HasRun
  <1>27. ASSUME TypeOK, CurOK, LockOK, MintedOK, ClaimHidden, ClaimPrivate,
               NEW p \in Proc, FailRecord(p)
        PROVE  ClaimHidden'
    BY <1>27 DEF FailRecord, TypeOK, ClaimHidden, Goto
  <1>28. ASSUME TypeOK, CurOK, LockOK, MintedOK, ClaimHidden, ClaimPrivate,
               NEW p \in Proc, Dispose(p)
        PROVE  ClaimHidden'
    <2>1. CASE Exit(p)
      BY <1>28, <2>1, LeaveHidden DEF Dispose
    <2>2. CASE ~Exit(p)
      BY <1>28, <2>2 DEF Dispose, TypeOK, ClaimHidden, Goto
    <2> QED
      BY <2>1, <2>2
  <1>29. ASSUME TypeOK, CurOK, LockOK, MintedOK, ClaimHidden, ClaimPrivate,
               NEW p \in Proc, FailLoad(p)
        PROVE  ClaimHidden'
    BY <1>29 DEF FailLoad, TypeOK, ClaimHidden, Goto
  <1>30. ASSUME TypeOK, CurOK, LockOK, MintedOK, ClaimHidden, ClaimPrivate,
               NEW p \in Proc, FailSave(p)
        PROVE  ClaimHidden'
    BY <1>30 DEF FailSave, TypeOK, ClaimHidden, Goto
  <1>31. ASSUME TypeOK, CurOK, LockOK, MintedOK, ClaimHidden, ClaimPrivate,
               NEW p \in Proc, ReturnEvent(p)
        PROVE  ClaimHidden'
    BY <1>31 DEF ReturnEvent, TypeOK, ClaimHidden, Goto
  <1>32. ASSUME TypeOK, CurOK, LockOK, MintedOK, ClaimHidden, ClaimPrivate,
               NEW p \in Proc, RemoveRun(p)
        PROVE  ClaimHidden'
    BY <1>32, LeaveHidden DEF RemoveRun, TypeOK, ClaimPrivate, CurOK, HasRun
  <1>33. ASSUME TypeOK, CurOK, LockOK, MintedOK, ClaimHidden, ClaimPrivate, UNCHANGED vars
        PROVE  ClaimHidden'
    BY <1>33 DEF vars, TypeOK, ClaimHidden
  <1> QED
    BY <1>1, <1>2, <1>3, <1>4, <1>5, <1>6, <1>7, <1>8, <1>9, <1>10, <1>11,
       <1>12, <1>13, <1>14, <1>15, <1>16, <1>17, <1>18, <1>19, <1>20, <1>21,
       <1>22, <1>23, <1>24, <1>25, <1>26, <1>27, <1>28, <1>29, <1>30, <1>31,
       <1>32, <1>33 DEF Next, Environment, Step, Recover, Claim, Consolidate, Finalize, GiveBack

LEMMA ClaimPrivateStep ==
    TypeOK /\ CurOK /\ LockOK /\ MintedOK /\ ClaimHidden /\ ClaimPrivate /\ [Next]_vars => ClaimPrivate'
  <1>1. ASSUME TypeOK, CurOK, LockOK, MintedOK, ClaimHidden, ClaimPrivate,
               NEW e \in Event, CheckKey(e)
        PROVE  ClaimPrivate'
    BY <1>1 DEF CheckKey, TypeOK, ClaimPrivate, Goto
  <1>2. ASSUME TypeOK, CurOK, LockOK, MintedOK, ClaimHidden, ClaimPrivate,
               NEW e \in Event, Append(e)
        PROVE  ClaimPrivate'
    BY <1>2 DEF Append, TypeOK, ClaimPrivate, Goto
  <1>3. ASSUME TypeOK, CurOK, LockOK, MintedOK, ClaimHidden, ClaimPrivate,
               ForeignCommit
        PROVE  ClaimPrivate'
    BY <1>3 DEF ForeignCommit, TypeOK, ClaimPrivate, Goto
  <1>4. ASSUME TypeOK, CurOK, LockOK, MintedOK, ClaimHidden, ClaimPrivate,
               NEW p \in Proc, Crash(p)
        PROVE  ClaimPrivate'
    BY <1>4, LeaveClaim DEF Crash
  <1>5. ASSUME TypeOK, CurOK, LockOK, MintedOK, ClaimHidden, ClaimPrivate,
               NEW p \in Proc, RecoverBegin(p)
        PROVE  ClaimPrivate'
    BY <1>5 DEF RecoverBegin, TypeOK, ClaimPrivate, ClaimHidden, InFlight,
       Goto
  <1>6. ASSUME TypeOK, CurOK, LockOK, MintedOK, ClaimHidden, ClaimPrivate,
               NEW p \in Proc, RecoverFinalize(p)
        PROVE  ClaimPrivate'
    BY <1>6, RunIsNat DEF RecoverFinalize, TypeOK, ClaimPrivate, Goto
  <1>7. ASSUME TypeOK, CurOK, LockOK, MintedOK, ClaimHidden, ClaimPrivate,
               NEW p \in Proc, RecoverReturn(p)
        PROVE  ClaimPrivate'
    BY <1>7, RunIsNat DEF RecoverReturn, TypeOK, ClaimPrivate, Goto
  <1>8. ASSUME TypeOK, CurOK, LockOK, MintedOK, ClaimHidden, ClaimPrivate,
               NEW p \in Proc, RecoverEnd(p)
        PROVE  ClaimPrivate'
    BY <1>8 DEF RecoverEnd, TypeOK, ClaimPrivate, Goto
  <1>9. ASSUME TypeOK, CurOK, LockOK, MintedOK, ClaimHidden, ClaimPrivate,
               NEW p \in Proc, NotDue(p)
        PROVE  ClaimPrivate'
    BY <1>9, LeaveClaim DEF NotDue
  <1>10. ASSUME TypeOK, CurOK, LockOK, MintedOK, ClaimHidden, ClaimPrivate,
               NEW p \in Proc, Trigger(p)
        PROVE  ClaimPrivate'
    <2>1. CASE Exit(p)
      BY <1>10, <2>1, LeaveClaim DEF Trigger
    <2>2. CASE ~Exit(p)
      BY <1>10, <2>2 DEF Trigger, TypeOK, ClaimPrivate, Goto
    <2> QED
      BY <2>1, <2>2
  <1>11. ASSUME TypeOK, CurOK, LockOK, MintedOK, ClaimHidden, ClaimPrivate,
               NEW p \in Proc, ClaimNothing(p)
        PROVE  ClaimPrivate'
    BY <1>11, LeaveClaim DEF ClaimNothing
  <1>12. ASSUME TypeOK, CurOK, LockOK, MintedOK, ClaimHidden, ClaimPrivate,
               NEW p \in Proc, ClaimSnapshot(p)
        PROVE  ClaimPrivate'
    BY <1>12 DEF ClaimSnapshot, TypeOK, ClaimPrivate, MintedOK, LockOK, Goto
  <1>13. ASSUME TypeOK, CurOK, LockOK, MintedOK, ClaimHidden, ClaimPrivate,
               NEW p \in Proc, ClaimMove(p)
        PROVE  ClaimPrivate'
    BY <1>13 DEF ClaimMove, TypeOK, ClaimPrivate, Goto
  <1>14. ASSUME TypeOK, CurOK, LockOK, MintedOK, ClaimHidden, ClaimPrivate,
               NEW p \in Proc, ClaimManifest(p)
        PROVE  ClaimPrivate'
    BY <1>14 DEF ClaimManifest, TypeOK, ClaimPrivate, Goto
  <1>15. ASSUME TypeOK, CurOK, LockOK, MintedOK, ClaimHidden, ClaimPrivate,
               NEW p \in Proc, StampAttempt(p)
        PROVE  ClaimPrivate'
    BY <1>15 DEF StampAttempt, TypeOK, ClaimPrivate, Goto
  <1>16. ASSUME TypeOK, CurOK, LockOK, MintedOK, ClaimHidden, ClaimPrivate,
               NEW p \in Proc, BuildBundle(p)
        PROVE  ClaimPrivate'
    <2>1. CASE Exit(p)
      BY <1>16, <2>1, LeaveClaim DEF BuildBundle
    <2>2. CASE ~Exit(p)
      BY <1>16, <2>2 DEF BuildBundle, TypeOK, ClaimPrivate, Goto
    <2> QED
      BY <2>1, <2>2
  <1>17. ASSUME TypeOK, CurOK, LockOK, MintedOK, ClaimHidden, ClaimPrivate,
               NEW p \in Proc, PlanAndApply(p)
        PROVE  ClaimPrivate'
    BY <1>17 DEF PlanAndApply, TypeOK, ClaimPrivate, Goto
  <1>18. ASSUME TypeOK, CurOK, LockOK, MintedOK, ClaimHidden, ClaimPrivate,
               NEW p \in Proc, CommitWorktree(p)
        PROVE  ClaimPrivate'
    BY <1>18 DEF CommitWorktree, TypeOK, ClaimPrivate, Goto
  <1>19. ASSUME TypeOK, CurOK, LockOK, MintedOK, ClaimHidden, ClaimPrivate,
               NEW p \in Proc, Reject(p)
        PROVE  ClaimPrivate'
    BY <1>19 DEF Reject, TypeOK, ClaimPrivate, Goto
  <1>20. ASSUME TypeOK, CurOK, LockOK, MintedOK, ClaimHidden, ClaimPrivate,
               NEW p \in Proc, CasPublish(p)
        PROVE  ClaimPrivate'
    BY <1>20 DEF CasPublish, TypeOK, ClaimPrivate, Goto
  <1>21. ASSUME TypeOK, CurOK, LockOK, MintedOK, ClaimHidden, ClaimPrivate,
               NEW p \in Proc, CasConflict(p)
        PROVE  ClaimPrivate'
    BY <1>21 DEF CasConflict, TypeOK, ClaimPrivate, Goto
  <1>22. ASSUME TypeOK, CurOK, LockOK, MintedOK, ClaimHidden, ClaimPrivate,
               NEW p \in Proc, AdvancePublished(p)
        PROVE  ClaimPrivate'
    BY <1>22 DEF AdvancePublished, TypeOK, ClaimPrivate, Goto
  <1>23. ASSUME TypeOK, CurOK, LockOK, MintedOK, ClaimHidden, ClaimPrivate,
               NEW p \in Proc, LoadState(p)
        PROVE  ClaimPrivate'
    BY <1>23 DEF LoadState, TypeOK, ClaimPrivate, Goto
  <1>24. ASSUME TypeOK, CurOK, LockOK, MintedOK, ClaimHidden, ClaimPrivate,
               NEW p \in Proc, Drain(p)
        PROVE  ClaimPrivate'
    <2>1. CASE Exit(p)
      BY <1>24, <2>1, LeaveClaim DEF Drain
    <2>2. CASE ~Exit(p)
      BY <1>24, <2>2 DEF Drain, TypeOK, ClaimPrivate, Goto
    <2> QED
      BY <2>1, <2>2
  <1>25. ASSUME TypeOK, CurOK, LockOK, MintedOK, ClaimHidden, ClaimPrivate,
               NEW p \in Proc, SaveState(p)
        PROVE  ClaimPrivate'
    BY <1>25 DEF SaveState, TypeOK, ClaimPrivate, Goto
  <1>26. ASSUME TypeOK, CurOK, LockOK, MintedOK, ClaimHidden, ClaimPrivate,
               NEW p \in Proc, AdvanceFinalized(p)
        PROVE  ClaimPrivate'
    BY <1>26, LeaveClaim DEF AdvanceFinalized
  <1>27. ASSUME TypeOK, CurOK, LockOK, MintedOK, ClaimHidden, ClaimPrivate,
               NEW p \in Proc, FailRecord(p)
        PROVE  ClaimPrivate'
    BY <1>27 DEF FailRecord, TypeOK, ClaimPrivate, Goto
  <1>28. ASSUME TypeOK, CurOK, LockOK, MintedOK, ClaimHidden, ClaimPrivate,
               NEW p \in Proc, Dispose(p)
        PROVE  ClaimPrivate'
    <2>1. CASE Exit(p)
      BY <1>28, <2>1, LeaveClaim DEF Dispose
    <2>2. CASE ~Exit(p)
      BY <1>28, <2>2 DEF Dispose, TypeOK, ClaimPrivate, Goto
    <2> QED
      BY <2>1, <2>2
  <1>29. ASSUME TypeOK, CurOK, LockOK, MintedOK, ClaimHidden, ClaimPrivate,
               NEW p \in Proc, FailLoad(p)
        PROVE  ClaimPrivate'
    BY <1>29 DEF FailLoad, TypeOK, ClaimPrivate, Goto
  <1>30. ASSUME TypeOK, CurOK, LockOK, MintedOK, ClaimHidden, ClaimPrivate,
               NEW p \in Proc, FailSave(p)
        PROVE  ClaimPrivate'
    BY <1>30 DEF FailSave, TypeOK, ClaimPrivate, Goto
  <1>31. ASSUME TypeOK, CurOK, LockOK, MintedOK, ClaimHidden, ClaimPrivate,
               NEW p \in Proc, ReturnEvent(p)
        PROVE  ClaimPrivate'
    BY <1>31 DEF ReturnEvent, TypeOK, ClaimPrivate, Goto
  <1>32. ASSUME TypeOK, CurOK, LockOK, MintedOK, ClaimHidden, ClaimPrivate,
               NEW p \in Proc, RemoveRun(p)
        PROVE  ClaimPrivate'
    BY <1>32, LeaveClaim DEF RemoveRun
  <1>33. ASSUME TypeOK, CurOK, LockOK, MintedOK, ClaimHidden, ClaimPrivate, UNCHANGED vars
        PROVE  ClaimPrivate'
    BY <1>33 DEF vars, TypeOK, ClaimPrivate
  <1> QED
    BY <1>1, <1>2, <1>3, <1>4, <1>5, <1>6, <1>7, <1>8, <1>9, <1>10, <1>11,
       <1>12, <1>13, <1>14, <1>15, <1>16, <1>17, <1>18, <1>19, <1>20, <1>21,
       <1>22, <1>23, <1>24, <1>25, <1>26, <1>27, <1>28, <1>29, <1>30, <1>31,
       <1>32, <1>33 DEF Next, Environment, Step, Recover, Claim, Consolidate, Finalize, GiveBack

LEMMA DisposalStep ==
    TypeOK /\ CurOK /\ LockOK /\ ClaimPrivate /\ DisposalOK /\ [Next]_vars => DisposalOK'
  <1>1. ASSUME TypeOK, CurOK, LockOK, ClaimPrivate, DisposalOK,
               NEW e \in Event, CheckKey(e)
        PROVE  DisposalOK'
    BY <1>1 DEF CheckKey, TypeOK, DisposalOK, Emptying, Writing, Processing,
       Place
  <1>2. ASSUME TypeOK, CurOK, LockOK, ClaimPrivate, DisposalOK,
               NEW e \in Event, Append(e)
        PROVE  DisposalOK'
    BY <1>2 DEF Append, TypeOK, DisposalOK, Emptying, Inbox, Processing,
       Place
  <1>3. ASSUME TypeOK, CurOK, LockOK, ClaimPrivate, DisposalOK,
               ForeignCommit
        PROVE  DisposalOK'
    BY <1>3 DEF ForeignCommit, TypeOK, DisposalOK, Emptying, Goto
  <1>4. ASSUME TypeOK, CurOK, LockOK, ClaimPrivate, DisposalOK,
               NEW p \in Proc, Crash(p)
        PROVE  DisposalOK'
    BY <1>4, LeaveDisposal DEF Crash
  <1>5. ASSUME TypeOK, CurOK, LockOK, ClaimPrivate, DisposalOK,
               NEW p \in Proc, RecoverBegin(p)
        PROVE  DisposalOK'
    BY <1>5 DEF RecoverBegin, TypeOK, DisposalOK, Emptying, Goto
  <1>6. ASSUME TypeOK, CurOK, LockOK, ClaimPrivate, DisposalOK,
               NEW p \in Proc, RecoverFinalize(p)
        PROVE  DisposalOK'
    BY <1>6 DEF RecoverFinalize, TypeOK, DisposalOK, Emptying, Goto
  <1>7. ASSUME TypeOK, CurOK, LockOK, ClaimPrivate, DisposalOK,
               NEW p \in Proc, RecoverReturn(p)
        PROVE  DisposalOK'
    BY <1>7 DEF RecoverReturn, TypeOK, DisposalOK, Emptying, InRun, Goto
  <1>8. ASSUME TypeOK, CurOK, LockOK, ClaimPrivate, DisposalOK,
               NEW p \in Proc, RecoverEnd(p)
        PROVE  DisposalOK'
    BY <1>8 DEF RecoverEnd, TypeOK, DisposalOK, Emptying, Goto
  <1>9. ASSUME TypeOK, CurOK, LockOK, ClaimPrivate, DisposalOK,
               NEW p \in Proc, NotDue(p)
        PROVE  DisposalOK'
    BY <1>9, LeaveDisposal DEF NotDue
  <1>10. ASSUME TypeOK, CurOK, LockOK, ClaimPrivate, DisposalOK,
               NEW p \in Proc, Trigger(p)
        PROVE  DisposalOK'
    <2>1. CASE Exit(p)
      BY <1>10, <2>1, LeaveDisposal DEF Trigger
    <2>2. CASE ~Exit(p)
      BY <1>10, <2>2 DEF Trigger, TypeOK, DisposalOK, Emptying, Goto
    <2> QED
      BY <2>1, <2>2
  <1>11. ASSUME TypeOK, CurOK, LockOK, ClaimPrivate, DisposalOK,
               NEW p \in Proc, ClaimNothing(p)
        PROVE  DisposalOK'
    BY <1>11, LeaveDisposal DEF ClaimNothing
  <1>12. ASSUME TypeOK, CurOK, LockOK, ClaimPrivate, DisposalOK,
               NEW p \in Proc, ClaimSnapshot(p)
        PROVE  DisposalOK'
    BY <1>12 DEF ClaimSnapshot, TypeOK, DisposalOK, Emptying, Goto
  <1>13. ASSUME TypeOK, CurOK, LockOK, ClaimPrivate, DisposalOK,
               NEW p \in Proc, ClaimMove(p)
        PROVE  DisposalOK'
    BY <1>13 DEF ClaimMove, TypeOK, DisposalOK, Emptying, ClaimPrivate,
       Processing, Place
  <1>14. ASSUME TypeOK, CurOK, LockOK, ClaimPrivate, DisposalOK,
               NEW p \in Proc, ClaimManifest(p)
        PROVE  DisposalOK'
    BY <1>14 DEF ClaimManifest, TypeOK, DisposalOK, Emptying, Goto
  <1>15. ASSUME TypeOK, CurOK, LockOK, ClaimPrivate, DisposalOK,
               NEW p \in Proc, StampAttempt(p)
        PROVE  DisposalOK'
    BY <1>15 DEF StampAttempt, TypeOK, DisposalOK, Emptying, Goto
  <1>16. ASSUME TypeOK, CurOK, LockOK, ClaimPrivate, DisposalOK,
               NEW p \in Proc, BuildBundle(p)
        PROVE  DisposalOK'
    <2>1. CASE Exit(p)
      BY <1>16, <2>1, LeaveDisposal DEF BuildBundle
    <2>2. CASE ~Exit(p)
      BY <1>16, <2>2 DEF BuildBundle, TypeOK, DisposalOK, Emptying, Goto
    <2> QED
      BY <2>1, <2>2
  <1>17. ASSUME TypeOK, CurOK, LockOK, ClaimPrivate, DisposalOK,
               NEW p \in Proc, PlanAndApply(p)
        PROVE  DisposalOK'
    BY <1>17 DEF PlanAndApply, TypeOK, DisposalOK, Emptying, Goto
  <1>18. ASSUME TypeOK, CurOK, LockOK, ClaimPrivate, DisposalOK,
               NEW p \in Proc, CommitWorktree(p)
        PROVE  DisposalOK'
    BY <1>18 DEF CommitWorktree, TypeOK, DisposalOK, Emptying, Goto
  <1>19. ASSUME TypeOK, CurOK, LockOK, ClaimPrivate, DisposalOK,
               NEW p \in Proc, Reject(p)
        PROVE  DisposalOK'
    BY <1>19 DEF Reject, TypeOK, DisposalOK, Emptying, Goto
  <1>20. ASSUME TypeOK, CurOK, LockOK, ClaimPrivate, DisposalOK,
               NEW p \in Proc, CasPublish(p)
        PROVE  DisposalOK'
    BY <1>20 DEF CasPublish, TypeOK, DisposalOK, Emptying, Goto
  <1>21. ASSUME TypeOK, CurOK, LockOK, ClaimPrivate, DisposalOK,
               NEW p \in Proc, CasConflict(p)
        PROVE  DisposalOK'
    BY <1>21 DEF CasConflict, TypeOK, DisposalOK, Emptying, InRun, Goto
  <1>22. ASSUME TypeOK, CurOK, LockOK, ClaimPrivate, DisposalOK,
               NEW p \in Proc, AdvancePublished(p)
        PROVE  DisposalOK'
    BY <1>22 DEF AdvancePublished, TypeOK, DisposalOK, Emptying, Goto
  <1>23. ASSUME TypeOK, CurOK, LockOK, ClaimPrivate, DisposalOK,
               NEW p \in Proc, LoadState(p)
        PROVE  DisposalOK'
    BY <1>23 DEF LoadState, TypeOK, DisposalOK, Emptying, Goto
  <1>24. ASSUME TypeOK, CurOK, LockOK, ClaimPrivate, DisposalOK,
               NEW p \in Proc, Drain(p)
        PROVE  DisposalOK'
    <2>1. CASE Exit(p)
      BY <1>24, <2>1, LeaveDisposal, GiveBackEmpties
    <2>2. CASE ~Exit(p)
      <3> SUFFICES ASSUME NEW q \in Proc, NEW x \in Event,
                          Emptying(q)',
                          spool'[x] = Processing(cur'[q])
                   PROVE  x \in todo'[q]
        BY DEF DisposalOK, Emptying
      <3>1. PICK e \in todo[p] :
              /\ todo' = [todo EXCEPT ![p] = @ \ {e}]
              /\ UNCHANGED <<pc, cur>>
        BY <1>24, <2>2 DEF Drain
      <3>2. q # p /\ todo'[q] = todo[q]
        BY <3>1, <1>24 DEF Drain, TypeOK, Emptying
      <3>3. cur[q] \in Run
        BY <3>1, <1>24 DEF CurOK, HasRun, Emptying
      <3>4. spool[x] = Processing(cur[q])
        BY <3>1, <3>3, <1>24, GiveBackEmpties
      <3> QED
        BY <3>1, <3>2, <3>4, <1>24 DEF DisposalOK, Emptying
    <2> QED
      BY <2>1, <2>2
  <1>25. ASSUME TypeOK, CurOK, LockOK, ClaimPrivate, DisposalOK,
               NEW p \in Proc, SaveState(p)
        PROVE  DisposalOK'
    BY <1>25 DEF SaveState, TypeOK, DisposalOK, Emptying, Goto
  <1>26. ASSUME TypeOK, CurOK, LockOK, ClaimPrivate, DisposalOK,
               NEW p \in Proc, AdvanceFinalized(p)
        PROVE  DisposalOK'
    BY <1>26, LeaveDisposal DEF AdvanceFinalized
  <1>27. ASSUME TypeOK, CurOK, LockOK, ClaimPrivate, DisposalOK,
               NEW p \in Proc, FailRecord(p)
        PROVE  DisposalOK'
    BY <1>27 DEF FailRecord, TypeOK, DisposalOK, Emptying, InRun, Goto
  <1>28. ASSUME TypeOK, CurOK, LockOK, ClaimPrivate, DisposalOK,
               NEW p \in Proc, Dispose(p)
        PROVE  DisposalOK'
    <2>1. CASE Exit(p)
      BY <1>28, <2>1, LeaveDisposal, GiveBackEmpties
    <2>2. CASE ~Exit(p)
      <3> SUFFICES ASSUME NEW q \in Proc, NEW x \in Event,
                          Emptying(q)',
                          spool'[x] = Processing(cur'[q])
                   PROVE  x \in todo'[q]
        BY DEF DisposalOK, Emptying
      <3>1. PICK e \in Event, d \in {Inbox, Failed(cur[p])} :
              /\ spool' = [spool EXCEPT ![e] = d]
              /\ todo' = [todo EXCEPT ![p] = @ \ {e}]
              /\ UNCHANGED <<pc, cur>>
        BY <1>28, <2>2, DisposeMoves
      <3>2. cur[q] \in Run /\ cur[p] \in Run
        BY <3>1, <1>28 DEF CurOK, HasRun, Emptying, Dispose
      <3>3. x # e
        BY <3>1, <3>2, <1>28, PlacesDiffer DEF TypeOK
      <3>4. spool[x] = Processing(cur[q])
        BY <3>1, <3>2, <1>28, GiveBackEmpties
      <3>5. x \in todo[q]
        BY <3>1, <3>4, <1>28 DEF DisposalOK, Emptying
      <3> QED
        BY <3>1, <3>3, <3>5, <1>28 DEF TypeOK
    <2> QED
      BY <2>1, <2>2
  <1>29. ASSUME TypeOK, CurOK, LockOK, ClaimPrivate, DisposalOK,
               NEW p \in Proc, FailLoad(p)
        PROVE  DisposalOK'
    BY <1>29 DEF FailLoad, TypeOK, DisposalOK, Emptying, Goto
  <1>30. ASSUME TypeOK, CurOK, LockOK, ClaimPrivate, DisposalOK,
               NEW p \in Proc, FailSave(p)
        PROVE  DisposalOK'
    BY <1>30 DEF FailSave, TypeOK, DisposalOK, Emptying, Goto
  <1>31. ASSUME TypeOK, CurOK, LockOK, ClaimPrivate, DisposalOK,
               NEW p \in Proc, ReturnEvent(p)
        PROVE  DisposalOK'
    BY <1>31 DEF ReturnEvent, TypeOK, DisposalOK, Emptying, ReturnPlace,
       Inbox, Failed, Processing, Place
  <1>32. ASSUME TypeOK, CurOK, LockOK, ClaimPrivate, DisposalOK,
               NEW p \in Proc, RemoveRun(p)
        PROVE  DisposalOK'
    BY <1>32, LeaveDisposal DEF RemoveRun, TypeOK, Destroyed, Processing,
       Place
  <1>33. ASSUME TypeOK, CurOK, LockOK, ClaimPrivate, DisposalOK, UNCHANGED vars
        PROVE  DisposalOK'
    BY <1>33 DEF vars, TypeOK, DisposalOK, Emptying
  <1> QED
    BY <1>1, <1>2, <1>3, <1>4, <1>5, <1>6, <1>7, <1>8, <1>9, <1>10, <1>11,
       <1>12, <1>13, <1>14, <1>15, <1>16, <1>17, <1>18, <1>19, <1>20, <1>21,
       <1>22, <1>23, <1>24, <1>25, <1>26, <1>27, <1>28, <1>29, <1>30, <1>31,
       <1>32, <1>33 DEF Next, Environment, Step, Recover, Claim, Consolidate, Finalize, GiveBack

LEMMA DestroyedStep ==
    TypeOK /\ CurOK /\ LockOK /\ DisposalOK /\ NoEventDestroyed /\ [Next]_vars => NoEventDestroyed'
  <1>1. ASSUME TypeOK, CurOK, LockOK, DisposalOK, NoEventDestroyed,
               NEW e \in Event, CheckKey(e)
        PROVE  NoEventDestroyed'
    BY <1>1 DEF CheckKey, TypeOK, NoEventDestroyed, Writing, Destroyed,
       Place
  <1>2. ASSUME TypeOK, CurOK, LockOK, DisposalOK, NoEventDestroyed,
               NEW e \in Event, Append(e)
        PROVE  NoEventDestroyed'
    BY <1>2 DEF Append, TypeOK, NoEventDestroyed, Inbox, Destroyed, Place
  <1>3. ASSUME TypeOK, CurOK, LockOK, DisposalOK, NoEventDestroyed,
               ForeignCommit
        PROVE  NoEventDestroyed'
    BY <1>3 DEF ForeignCommit, TypeOK, NoEventDestroyed
  <1>4. ASSUME TypeOK, CurOK, LockOK, DisposalOK, NoEventDestroyed,
               NEW p \in Proc, Crash(p)
        PROVE  NoEventDestroyed'
    BY <1>4 DEF Crash, TypeOK, NoEventDestroyed
  <1>5. ASSUME TypeOK, CurOK, LockOK, DisposalOK, NoEventDestroyed,
               NEW p \in Proc, RecoverBegin(p)
        PROVE  NoEventDestroyed'
    BY <1>5 DEF RecoverBegin, TypeOK, NoEventDestroyed
  <1>6. ASSUME TypeOK, CurOK, LockOK, DisposalOK, NoEventDestroyed,
               NEW p \in Proc, RecoverFinalize(p)
        PROVE  NoEventDestroyed'
    BY <1>6 DEF RecoverFinalize, TypeOK, NoEventDestroyed
  <1>7. ASSUME TypeOK, CurOK, LockOK, DisposalOK, NoEventDestroyed,
               NEW p \in Proc, RecoverReturn(p)
        PROVE  NoEventDestroyed'
    BY <1>7 DEF RecoverReturn, TypeOK, NoEventDestroyed
  <1>8. ASSUME TypeOK, CurOK, LockOK, DisposalOK, NoEventDestroyed,
               NEW p \in Proc, RecoverEnd(p)
        PROVE  NoEventDestroyed'
    BY <1>8 DEF RecoverEnd, TypeOK, NoEventDestroyed
  <1>9. ASSUME TypeOK, CurOK, LockOK, DisposalOK, NoEventDestroyed,
               NEW p \in Proc, NotDue(p)
        PROVE  NoEventDestroyed'
    BY <1>9 DEF NotDue, TypeOK, NoEventDestroyed
  <1>10. ASSUME TypeOK, CurOK, LockOK, DisposalOK, NoEventDestroyed,
               NEW p \in Proc, Trigger(p)
        PROVE  NoEventDestroyed'
    BY <1>10 DEF Trigger, TypeOK, NoEventDestroyed
  <1>11. ASSUME TypeOK, CurOK, LockOK, DisposalOK, NoEventDestroyed,
               NEW p \in Proc, ClaimNothing(p)
        PROVE  NoEventDestroyed'
    BY <1>11 DEF ClaimNothing, TypeOK, NoEventDestroyed
  <1>12. ASSUME TypeOK, CurOK, LockOK, DisposalOK, NoEventDestroyed,
               NEW p \in Proc, ClaimSnapshot(p)
        PROVE  NoEventDestroyed'
    BY <1>12 DEF ClaimSnapshot, TypeOK, NoEventDestroyed
  <1>13. ASSUME TypeOK, CurOK, LockOK, DisposalOK, NoEventDestroyed,
               NEW p \in Proc, ClaimMove(p)
        PROVE  NoEventDestroyed'
    BY <1>13 DEF ClaimMove, TypeOK, NoEventDestroyed, Processing, Destroyed,
       Place
  <1>14. ASSUME TypeOK, CurOK, LockOK, DisposalOK, NoEventDestroyed,
               NEW p \in Proc, ClaimManifest(p)
        PROVE  NoEventDestroyed'
    BY <1>14 DEF ClaimManifest, TypeOK, NoEventDestroyed
  <1>15. ASSUME TypeOK, CurOK, LockOK, DisposalOK, NoEventDestroyed,
               NEW p \in Proc, StampAttempt(p)
        PROVE  NoEventDestroyed'
    BY <1>15 DEF StampAttempt, TypeOK, NoEventDestroyed
  <1>16. ASSUME TypeOK, CurOK, LockOK, DisposalOK, NoEventDestroyed,
               NEW p \in Proc, BuildBundle(p)
        PROVE  NoEventDestroyed'
    BY <1>16 DEF BuildBundle, TypeOK, NoEventDestroyed
  <1>17. ASSUME TypeOK, CurOK, LockOK, DisposalOK, NoEventDestroyed,
               NEW p \in Proc, PlanAndApply(p)
        PROVE  NoEventDestroyed'
    BY <1>17 DEF PlanAndApply, TypeOK, NoEventDestroyed
  <1>18. ASSUME TypeOK, CurOK, LockOK, DisposalOK, NoEventDestroyed,
               NEW p \in Proc, CommitWorktree(p)
        PROVE  NoEventDestroyed'
    BY <1>18 DEF CommitWorktree, TypeOK, NoEventDestroyed
  <1>19. ASSUME TypeOK, CurOK, LockOK, DisposalOK, NoEventDestroyed,
               NEW p \in Proc, Reject(p)
        PROVE  NoEventDestroyed'
    BY <1>19 DEF Reject, TypeOK, NoEventDestroyed
  <1>20. ASSUME TypeOK, CurOK, LockOK, DisposalOK, NoEventDestroyed,
               NEW p \in Proc, CasPublish(p)
        PROVE  NoEventDestroyed'
    BY <1>20 DEF CasPublish, TypeOK, NoEventDestroyed
  <1>21. ASSUME TypeOK, CurOK, LockOK, DisposalOK, NoEventDestroyed,
               NEW p \in Proc, CasConflict(p)
        PROVE  NoEventDestroyed'
    BY <1>21 DEF CasConflict, TypeOK, NoEventDestroyed
  <1>22. ASSUME TypeOK, CurOK, LockOK, DisposalOK, NoEventDestroyed,
               NEW p \in Proc, AdvancePublished(p)
        PROVE  NoEventDestroyed'
    BY <1>22 DEF AdvancePublished, TypeOK, NoEventDestroyed
  <1>23. ASSUME TypeOK, CurOK, LockOK, DisposalOK, NoEventDestroyed,
               NEW p \in Proc, LoadState(p)
        PROVE  NoEventDestroyed'
    BY <1>23 DEF LoadState, TypeOK, NoEventDestroyed
  <1>24. ASSUME TypeOK, CurOK, LockOK, DisposalOK, NoEventDestroyed,
               NEW p \in Proc, Drain(p)
        PROVE  NoEventDestroyed'
    BY <1>24, DrainTo DEF Drain, NoEventDestroyed, Processed, Destroyed,
       Place
  <1>25. ASSUME TypeOK, CurOK, LockOK, DisposalOK, NoEventDestroyed,
               NEW p \in Proc, SaveState(p)
        PROVE  NoEventDestroyed'
    BY <1>25 DEF SaveState, TypeOK, NoEventDestroyed
  <1>26. ASSUME TypeOK, CurOK, LockOK, DisposalOK, NoEventDestroyed,
               NEW p \in Proc, AdvanceFinalized(p)
        PROVE  NoEventDestroyed'
    BY <1>26 DEF AdvanceFinalized, TypeOK, NoEventDestroyed
  <1>27. ASSUME TypeOK, CurOK, LockOK, DisposalOK, NoEventDestroyed,
               NEW p \in Proc, FailRecord(p)
        PROVE  NoEventDestroyed'
    BY <1>27 DEF FailRecord, TypeOK, NoEventDestroyed
  <1>28. ASSUME TypeOK, CurOK, LockOK, DisposalOK, NoEventDestroyed,
               NEW p \in Proc, Dispose(p)
        PROVE  NoEventDestroyed'
    BY <1>28, DisposeTo DEF Dispose, NoEventDestroyed, Inbox, Failed,
       Destroyed, Place
  <1>29. ASSUME TypeOK, CurOK, LockOK, DisposalOK, NoEventDestroyed,
               NEW p \in Proc, FailLoad(p)
        PROVE  NoEventDestroyed'
    BY <1>29 DEF FailLoad, TypeOK, NoEventDestroyed
  <1>30. ASSUME TypeOK, CurOK, LockOK, DisposalOK, NoEventDestroyed,
               NEW p \in Proc, FailSave(p)
        PROVE  NoEventDestroyed'
    BY <1>30 DEF FailSave, TypeOK, NoEventDestroyed
  <1>31. ASSUME TypeOK, CurOK, LockOK, DisposalOK, NoEventDestroyed,
               NEW p \in Proc, ReturnEvent(p)
        PROVE  NoEventDestroyed'
    BY <1>31 DEF ReturnEvent, TypeOK, NoEventDestroyed, ReturnPlace, Inbox,
       Failed, Destroyed, Place
  <1>32. ASSUME TypeOK, CurOK, LockOK, DisposalOK, NoEventDestroyed,
               NEW p \in Proc, RemoveRun(p)
        PROVE  NoEventDestroyed'
    BY <1>32 DEF RemoveRun, TypeOK, NoEventDestroyed, DisposalOK, Emptying
  <1>33. ASSUME TypeOK, CurOK, LockOK, DisposalOK, NoEventDestroyed, UNCHANGED vars
        PROVE  NoEventDestroyed'
    BY <1>33 DEF vars, TypeOK, NoEventDestroyed
  <1> QED
    BY <1>1, <1>2, <1>3, <1>4, <1>5, <1>6, <1>7, <1>8, <1>9, <1>10, <1>11,
       <1>12, <1>13, <1>14, <1>15, <1>16, <1>17, <1>18, <1>19, <1>20, <1>21,
       <1>22, <1>23, <1>24, <1>25, <1>26, <1>27, <1>28, <1>29, <1>30, <1>31,
       <1>32, <1>33 DEF Next, Environment, Step, Recover, Claim, Consolidate, Finalize, GiveBack

LEMMA ProcessedStep ==
    TypeOK /\ CurOK /\ LockOK /\ GitInMemory /\ BatchOK /\ ProcessedIsPublished /\ [Next]_vars => ProcessedIsPublished'
  <1>1. ASSUME TypeOK, CurOK, LockOK, GitInMemory, BatchOK,
               ProcessedIsPublished, NEW e \in Event, CheckKey(e)
        PROVE  ProcessedIsPublished'
    BY <1>1 DEF CheckKey, TypeOK, ProcessedIsPublished, Writing, Processed,
       Place
  <1>2. ASSUME TypeOK, CurOK, LockOK, GitInMemory, BatchOK,
               ProcessedIsPublished, NEW e \in Event, Append(e)
        PROVE  ProcessedIsPublished'
    BY <1>2 DEF Append, TypeOK, ProcessedIsPublished, Inbox, Processed,
       Place
  <1>3. ASSUME TypeOK, CurOK, LockOK, GitInMemory, BatchOK,
               ProcessedIsPublished, ForeignCommit
        PROVE  ProcessedIsPublished'
    BY <1>3 DEF ForeignCommit, TypeOK, ProcessedIsPublished
  <1>4. ASSUME TypeOK, CurOK, LockOK, GitInMemory, BatchOK,
               ProcessedIsPublished, NEW p \in Proc, Crash(p)
        PROVE  ProcessedIsPublished'
    BY <1>4 DEF Crash, TypeOK, ProcessedIsPublished
  <1>5. ASSUME TypeOK, CurOK, LockOK, GitInMemory, BatchOK,
               ProcessedIsPublished, NEW p \in Proc, RecoverBegin(p)
        PROVE  ProcessedIsPublished'
    BY <1>5 DEF RecoverBegin, TypeOK, ProcessedIsPublished
  <1>6. ASSUME TypeOK, CurOK, LockOK, GitInMemory, BatchOK,
               ProcessedIsPublished, NEW p \in Proc, RecoverFinalize(p)
        PROVE  ProcessedIsPublished'
    BY <1>6 DEF RecoverFinalize, TypeOK, ProcessedIsPublished
  <1>7. ASSUME TypeOK, CurOK, LockOK, GitInMemory, BatchOK,
               ProcessedIsPublished, NEW p \in Proc, RecoverReturn(p)
        PROVE  ProcessedIsPublished'
    BY <1>7 DEF RecoverReturn, TypeOK, ProcessedIsPublished
  <1>8. ASSUME TypeOK, CurOK, LockOK, GitInMemory, BatchOK,
               ProcessedIsPublished, NEW p \in Proc, RecoverEnd(p)
        PROVE  ProcessedIsPublished'
    BY <1>8 DEF RecoverEnd, TypeOK, ProcessedIsPublished
  <1>9. ASSUME TypeOK, CurOK, LockOK, GitInMemory, BatchOK,
               ProcessedIsPublished, NEW p \in Proc, NotDue(p)
        PROVE  ProcessedIsPublished'
    BY <1>9 DEF NotDue, TypeOK, ProcessedIsPublished
  <1>10. ASSUME TypeOK, CurOK, LockOK, GitInMemory, BatchOK,
               ProcessedIsPublished, NEW p \in Proc, Trigger(p)
        PROVE  ProcessedIsPublished'
    BY <1>10 DEF Trigger, TypeOK, ProcessedIsPublished
  <1>11. ASSUME TypeOK, CurOK, LockOK, GitInMemory, BatchOK,
               ProcessedIsPublished, NEW p \in Proc, ClaimNothing(p)
        PROVE  ProcessedIsPublished'
    BY <1>11 DEF ClaimNothing, TypeOK, ProcessedIsPublished
  <1>12. ASSUME TypeOK, CurOK, LockOK, GitInMemory, BatchOK,
               ProcessedIsPublished, NEW p \in Proc, ClaimSnapshot(p)
        PROVE  ProcessedIsPublished'
    BY <1>12 DEF ClaimSnapshot, TypeOK, ProcessedIsPublished, BatchOK,
       LockOK
  <1>13. ASSUME TypeOK, CurOK, LockOK, GitInMemory, BatchOK,
               ProcessedIsPublished, NEW p \in Proc, ClaimMove(p)
        PROVE  ProcessedIsPublished'
    BY <1>13 DEF ClaimMove, TypeOK, ProcessedIsPublished, Processing,
       Processed, Place
  <1>14. ASSUME TypeOK, CurOK, LockOK, GitInMemory, BatchOK,
               ProcessedIsPublished, NEW p \in Proc, ClaimManifest(p)
        PROVE  ProcessedIsPublished'
    BY <1>14 DEF ClaimManifest, TypeOK, ProcessedIsPublished
  <1>15. ASSUME TypeOK, CurOK, LockOK, GitInMemory, BatchOK,
               ProcessedIsPublished, NEW p \in Proc, StampAttempt(p)
        PROVE  ProcessedIsPublished'
    BY <1>15 DEF StampAttempt, TypeOK, ProcessedIsPublished
  <1>16. ASSUME TypeOK, CurOK, LockOK, GitInMemory, BatchOK,
               ProcessedIsPublished, NEW p \in Proc, BuildBundle(p)
        PROVE  ProcessedIsPublished'
    BY <1>16 DEF BuildBundle, TypeOK, ProcessedIsPublished
  <1>17. ASSUME TypeOK, CurOK, LockOK, GitInMemory, BatchOK,
               ProcessedIsPublished, NEW p \in Proc, PlanAndApply(p)
        PROVE  ProcessedIsPublished'
    BY <1>17 DEF PlanAndApply, TypeOK, ProcessedIsPublished
  <1>18. ASSUME TypeOK, CurOK, LockOK, GitInMemory, BatchOK,
               ProcessedIsPublished, NEW p \in Proc, CommitWorktree(p)
        PROVE  ProcessedIsPublished'
    BY <1>18 DEF CommitWorktree, TypeOK, ProcessedIsPublished
  <1>19. ASSUME TypeOK, CurOK, LockOK, GitInMemory, BatchOK,
               ProcessedIsPublished, NEW p \in Proc, Reject(p)
        PROVE  ProcessedIsPublished'
    BY <1>19 DEF Reject, TypeOK, ProcessedIsPublished
  <1>20. ASSUME TypeOK, CurOK, LockOK, GitInMemory, BatchOK,
               ProcessedIsPublished, NEW p \in Proc, CasPublish(p)
        PROVE  ProcessedIsPublished'
    BY <1>20 DEF CasPublish, TypeOK, ProcessedIsPublished
  <1>21. ASSUME TypeOK, CurOK, LockOK, GitInMemory, BatchOK,
               ProcessedIsPublished, NEW p \in Proc, CasConflict(p)
        PROVE  ProcessedIsPublished'
    BY <1>21 DEF CasConflict, TypeOK, ProcessedIsPublished
  <1>22. ASSUME TypeOK, CurOK, LockOK, GitInMemory, BatchOK,
               ProcessedIsPublished, NEW p \in Proc, AdvancePublished(p)
        PROVE  ProcessedIsPublished'
    BY <1>22 DEF AdvancePublished, TypeOK, ProcessedIsPublished
  <1>23. ASSUME TypeOK, CurOK, LockOK, GitInMemory, BatchOK,
               ProcessedIsPublished, NEW p \in Proc, LoadState(p)
        PROVE  ProcessedIsPublished'
    BY <1>23 DEF LoadState, TypeOK, ProcessedIsPublished
  <1>24. ASSUME TypeOK, CurOK, LockOK, GitInMemory, BatchOK,
               ProcessedIsPublished, NEW p \in Proc, Drain(p)
        PROVE  ProcessedIsPublished'
    <2>1. cur[p] \in Run /\ cur[p] \in published
      BY <1>24 DEF Drain, CurOK, HasRun, GitInMemory
    <2>2. PICK e \in todo[p] :
            \/ spool' = spool
            \/ /\ spool[e] = Processing(cur[p])
               /\ spool' = [spool EXCEPT ![e] = Processed]
      BY <1>24 DEF Drain
    <2>3. e \in Event /\ UNCHANGED <<job, published>>
      BY <1>24 DEF Drain, TypeOK
    <2>4. CASE spool' = spool
      BY <2>3, <2>4, <1>24 DEF ProcessedIsPublished
    <2>5. CASE spool[e] = Processing(cur[p])
               /\ spool' = [spool EXCEPT ![e] = Processed]
      <3>1. e \in job[cur[p]].events
        BY <2>1, <2>3, <2>5, <1>24 DEF BatchOK
      <3>2. \A x \in Event : x # e => spool'[x] = spool[x]
        BY <2>5, <1>24 DEF TypeOK
      <3> QED
        BY <2>1, <2>3, <3>1, <3>2, <1>24 DEF ProcessedIsPublished
    <2> QED
      BY <2>2, <2>4, <2>5
  <1>25. ASSUME TypeOK, CurOK, LockOK, GitInMemory, BatchOK,
               ProcessedIsPublished, NEW p \in Proc, SaveState(p)
        PROVE  ProcessedIsPublished'
    BY <1>25 DEF SaveState, TypeOK, ProcessedIsPublished
  <1>26. ASSUME TypeOK, CurOK, LockOK, GitInMemory, BatchOK,
               ProcessedIsPublished, NEW p \in Proc, AdvanceFinalized(p)
        PROVE  ProcessedIsPublished'
    BY <1>26 DEF AdvanceFinalized, TypeOK, ProcessedIsPublished
  <1>27. ASSUME TypeOK, CurOK, LockOK, GitInMemory, BatchOK,
               ProcessedIsPublished, NEW p \in Proc, FailRecord(p)
        PROVE  ProcessedIsPublished'
    BY <1>27 DEF FailRecord, TypeOK, ProcessedIsPublished
  <1>28. ASSUME TypeOK, CurOK, LockOK, GitInMemory, BatchOK,
               ProcessedIsPublished, NEW p \in Proc, Dispose(p)
        PROVE  ProcessedIsPublished'
    BY <1>28, DisposeTo DEF Dispose, ProcessedIsPublished, Inbox, Failed,
       Processed, Place
  <1>29. ASSUME TypeOK, CurOK, LockOK, GitInMemory, BatchOK,
               ProcessedIsPublished, NEW p \in Proc, FailLoad(p)
        PROVE  ProcessedIsPublished'
    BY <1>29 DEF FailLoad, TypeOK, ProcessedIsPublished
  <1>30. ASSUME TypeOK, CurOK, LockOK, GitInMemory, BatchOK,
               ProcessedIsPublished, NEW p \in Proc, FailSave(p)
        PROVE  ProcessedIsPublished'
    BY <1>30 DEF FailSave, TypeOK, ProcessedIsPublished
  <1>31. ASSUME TypeOK, CurOK, LockOK, GitInMemory, BatchOK,
               ProcessedIsPublished, NEW p \in Proc, ReturnEvent(p)
        PROVE  ProcessedIsPublished'
    BY <1>31 DEF ReturnEvent, TypeOK, ProcessedIsPublished, ReturnPlace,
       Inbox, Failed, Processed, Place
  <1>32. ASSUME TypeOK, CurOK, LockOK, GitInMemory, BatchOK,
               ProcessedIsPublished, NEW p \in Proc, RemoveRun(p)
        PROVE  ProcessedIsPublished'
    BY <1>32 DEF RemoveRun, TypeOK, ProcessedIsPublished, Destroyed,
       Processed, Place
  <1>33. ASSUME TypeOK, CurOK, LockOK, GitInMemory, BatchOK, ProcessedIsPublished, UNCHANGED vars
        PROVE  ProcessedIsPublished'
    BY <1>33 DEF vars, TypeOK, ProcessedIsPublished
  <1> QED
    BY <1>1, <1>2, <1>3, <1>4, <1>5, <1>6, <1>7, <1>8, <1>9, <1>10, <1>11,
       <1>12, <1>13, <1>14, <1>15, <1>16, <1>17, <1>18, <1>19, <1>20, <1>21,
       <1>22, <1>23, <1>24, <1>25, <1>26, <1>27, <1>28, <1>29, <1>30, <1>31,
       <1>32, <1>33 DEF Next, Environment, Step, Recover, Claim, Consolidate, Finalize, GiveBack

-----------------------------------------------------------------------------
IInv ==
    /\ TypeOK /\ CurOK /\ LockOK
    /\ GitOnDisk /\ GitInMemory
    /\ BatchOK /\ ClaimInBatch
    /\ MintedOK /\ ClaimHidden /\ ClaimPrivate
    /\ DisposalOK
    /\ NoEventDestroyed /\ ProcessedIsPublished

LEMMA IInvInit == Init => IInv
  <1> SUFFICES ASSUME Init PROVE IInv
    OBVIOUS
  <1>1. TypeOK
    BY TypeInit
  <1>2. CurOK /\ LockOK /\ ClaimInBatch /\ ClaimHidden /\ ClaimPrivate
        /\ DisposalOK
    BY DEF Init, CurOK, HasRun, LockOK, Locked, ClaimInBatch, ClaimHidden,
       ClaimPrivate, DisposalOK, Emptying
  <1>3. GitOnDisk /\ GitInMemory /\ MintedOK
    BY DEF Init, GitOnDisk, GitInMemory, NoManifest, NoSnapshot, NewState,
       MintedOK
  <1>4. BatchOK /\ NoEventDestroyed /\ ProcessedIsPublished
    BY DEF Init, BatchOK, NoEventDestroyed, ProcessedIsPublished, Unwritten,
       Processing, Processed, Destroyed, Place
  <1> QED
    BY <1>1, <1>2, <1>3, <1>4 DEF IInv

LEMMA IInvStep == IInv /\ [Next]_vars => IInv'
  BY TypeStep, CurStep, LockStep, GitDiskStep, GitMemoryStep, BatchStep,
     ClaimBatchStep, MintedStep, ClaimHiddenStep, ClaimPrivateStep,
     DisposalStep, DestroyedStep, ProcessedStep
     DEF IInv

LEMMA IInvAlways == Spec => []IInv
  BY IInvInit, IInvStep, PTL DEF Spec

\* However many processes curate, recover, fail and crash at once, no
\* removal of a run directory takes an event with it: _fail,
\* _return_to_inbox and the conflict path move every event out first, and
\* nothing enters the directory of a run another process may know.
THEOREM EventsSurvive == Spec => []NoEventDestroyed
  <1>1. IInv => NoEventDestroyed
    BY DEF IInv
  <1> QED
    BY <1>1, IInvAlways, PTL

\* However many processes, an event in processed/ is in the batch of a run
\* whose commit is on the curated branch.
THEOREM DrainedAfterCommit == Spec => []ProcessedIsPublished
  <1>1. IInv => ProcessedIsPublished
    BY DEF IInv
  <1> QED
    BY <1>1, IInvAlways, PTL

\* However many processes overwrite it with stale copies, state.json never
\* records a run whose commit is not on the curated branch.
THEOREM RecordedAfterCommit == Spec => []RecordedIsPublished
  <1>1. IInv => RecordedIsPublished
    BY DEF IInv, GitOnDisk, RecordedIsPublished
  <1> QED
    BY <1>1, IInvAlways, PTL

\* Both together: however many processes, neither the spool nor state.json
\* ever runs ahead of the branch.
THEOREM CommitFirst == Spec => []PublishedFirst
  <1>1. ProcessedIsPublished /\ RecordedIsPublished => PublishedFirst
    BY DEF PublishedFirst
  <1> QED
    BY <1>1, DrainedAfterCommit, RecordedAfterCommit, PTL
-----------------------------------------------------------------------------
(***************************************************************************)
(* The retry budget of curator.max_attempts: an event the inbox would take *)
(* back is terminal only after MaxAttempts recorded failures, and a run    *)
(* that produced a commit charges none.                                    *)
(***************************************************************************)

\* An error record, once written, names exactly the batch of its run.
RecordsOK == \A r \in Run : records[r] \in {{}, job[r].events}

\* Only the holder of the lock can commit or fail a run, and until it does,
\* the run has neither a commit nor an error record.
UnmintedOK == \A r \in Run : r >= nextRun => r \notin published
ShaOK == \A r \in Run : manifest[r].phase = "none" => ~manifest[r].sha
Undecided(p) ==
    pc[p] \in {"claim", "stamp", "bundle", "plan", "gates", "fail"}
Unfailed(p) ==
    pc[p] \in {"claim", "stamp", "bundle", "plan", "gates", "cas"}
DecisionOK ==
    \A p \in Proc :
        /\ Undecided(p) => cur[p] \notin published /\ ~manifest[cur[p]].sha
        /\ Unfailed(p) => records[cur[p]] = {}

LEMMA RunFinite == IsFiniteSet(Run)
  BY FS_Interval, BoundAssumption DEF Run

LEMMA AttemptsType ==
    ASSUME NEW e \in Event PROVE Attempts(e) \in Nat
  <1>1. IsFiniteSet({r \in Run : e \in records[r]})
    BY RunFinite, FS_Subset
  <1> QED
    BY <1>1, FS_CardinalityType DEF Attempts

LEMMA RecordsStep ==
    TypeOK /\ CurOK /\ LockOK /\ BatchOK /\ RecordsOK /\ [Next]_vars => RecordsOK'
  <1>1. ASSUME TypeOK, CurOK, LockOK, BatchOK, RecordsOK, NEW e \in Event,
               CheckKey(e)
        PROVE  RecordsOK'
    BY <1>1 DEF CheckKey, TypeOK, RecordsOK
  <1>2. ASSUME TypeOK, CurOK, LockOK, BatchOK, RecordsOK, NEW e \in Event,
               Append(e)
        PROVE  RecordsOK'
    BY <1>2 DEF Append, TypeOK, RecordsOK
  <1>3. ASSUME TypeOK, CurOK, LockOK, BatchOK, RecordsOK, ForeignCommit
        PROVE  RecordsOK'
    BY <1>3 DEF ForeignCommit, TypeOK, RecordsOK
  <1>4. ASSUME TypeOK, CurOK, LockOK, BatchOK, RecordsOK, NEW p \in Proc,
               Crash(p)
        PROVE  RecordsOK'
    BY <1>4 DEF Crash, TypeOK, RecordsOK
  <1>5. ASSUME TypeOK, CurOK, LockOK, BatchOK, RecordsOK, NEW p \in Proc,
               RecoverBegin(p)
        PROVE  RecordsOK'
    BY <1>5 DEF RecoverBegin, TypeOK, RecordsOK
  <1>6. ASSUME TypeOK, CurOK, LockOK, BatchOK, RecordsOK, NEW p \in Proc,
               RecoverFinalize(p)
        PROVE  RecordsOK'
    BY <1>6 DEF RecoverFinalize, TypeOK, RecordsOK
  <1>7. ASSUME TypeOK, CurOK, LockOK, BatchOK, RecordsOK, NEW p \in Proc,
               RecoverReturn(p)
        PROVE  RecordsOK'
    BY <1>7 DEF RecoverReturn, TypeOK, RecordsOK
  <1>8. ASSUME TypeOK, CurOK, LockOK, BatchOK, RecordsOK, NEW p \in Proc,
               RecoverEnd(p)
        PROVE  RecordsOK'
    BY <1>8 DEF RecoverEnd, TypeOK, RecordsOK
  <1>9. ASSUME TypeOK, CurOK, LockOK, BatchOK, RecordsOK, NEW p \in Proc,
               NotDue(p)
        PROVE  RecordsOK'
    BY <1>9 DEF NotDue, TypeOK, RecordsOK
  <1>10. ASSUME TypeOK, CurOK, LockOK, BatchOK, RecordsOK, NEW p \in Proc,
               Trigger(p)
        PROVE  RecordsOK'
    BY <1>10 DEF Trigger, TypeOK, RecordsOK
  <1>11. ASSUME TypeOK, CurOK, LockOK, BatchOK, RecordsOK, NEW p \in Proc,
               ClaimNothing(p)
        PROVE  RecordsOK'
    BY <1>11 DEF ClaimNothing, TypeOK, RecordsOK
  <1>12. ASSUME TypeOK, CurOK, LockOK, BatchOK, RecordsOK, NEW p \in Proc,
               ClaimSnapshot(p)
        PROVE  RecordsOK'
    <2>1. nextRun \in Run /\ records' = records
      BY <1>12 DEF ClaimSnapshot, LockOK
    <2>2. nextRun >= nextRun
      BY <1>12 DEF TypeOK
    <2>3. job[nextRun].events = {}
      BY <2>1, <2>2, <1>12 DEF BatchOK
    <2>4. records[nextRun] = {}
      BY <2>1, <2>3, <1>12 DEF RecordsOK
    <2>5. \A r \in Run \ {nextRun} : job'[r] = job[r]
      BY <1>12 DEF ClaimSnapshot, TypeOK
    <2> QED
      BY <2>1, <2>4, <2>5, <1>12 DEF RecordsOK
  <1>13. ASSUME TypeOK, CurOK, LockOK, BatchOK, RecordsOK, NEW p \in Proc,
               ClaimMove(p)
        PROVE  RecordsOK'
    BY <1>13 DEF ClaimMove, TypeOK, RecordsOK
  <1>14. ASSUME TypeOK, CurOK, LockOK, BatchOK, RecordsOK, NEW p \in Proc,
               ClaimManifest(p)
        PROVE  RecordsOK'
    BY <1>14 DEF ClaimManifest, TypeOK, RecordsOK
  <1>15. ASSUME TypeOK, CurOK, LockOK, BatchOK, RecordsOK, NEW p \in Proc,
               StampAttempt(p)
        PROVE  RecordsOK'
    BY <1>15 DEF StampAttempt, TypeOK, RecordsOK
  <1>16. ASSUME TypeOK, CurOK, LockOK, BatchOK, RecordsOK, NEW p \in Proc,
               BuildBundle(p)
        PROVE  RecordsOK'
    BY <1>16 DEF BuildBundle, TypeOK, RecordsOK
  <1>17. ASSUME TypeOK, CurOK, LockOK, BatchOK, RecordsOK, NEW p \in Proc,
               PlanAndApply(p)
        PROVE  RecordsOK'
    BY <1>17 DEF PlanAndApply, TypeOK, RecordsOK
  <1>18. ASSUME TypeOK, CurOK, LockOK, BatchOK, RecordsOK, NEW p \in Proc,
               CommitWorktree(p)
        PROVE  RecordsOK'
    BY <1>18 DEF CommitWorktree, TypeOK, RecordsOK
  <1>19. ASSUME TypeOK, CurOK, LockOK, BatchOK, RecordsOK, NEW p \in Proc,
               Reject(p)
        PROVE  RecordsOK'
    BY <1>19 DEF Reject, TypeOK, RecordsOK
  <1>20. ASSUME TypeOK, CurOK, LockOK, BatchOK, RecordsOK, NEW p \in Proc,
               CasPublish(p)
        PROVE  RecordsOK'
    BY <1>20 DEF CasPublish, TypeOK, RecordsOK
  <1>21. ASSUME TypeOK, CurOK, LockOK, BatchOK, RecordsOK, NEW p \in Proc,
               CasConflict(p)
        PROVE  RecordsOK'
    BY <1>21 DEF CasConflict, TypeOK, RecordsOK
  <1>22. ASSUME TypeOK, CurOK, LockOK, BatchOK, RecordsOK, NEW p \in Proc,
               AdvancePublished(p)
        PROVE  RecordsOK'
    BY <1>22 DEF AdvancePublished, TypeOK, RecordsOK
  <1>23. ASSUME TypeOK, CurOK, LockOK, BatchOK, RecordsOK, NEW p \in Proc,
               LoadState(p)
        PROVE  RecordsOK'
    BY <1>23 DEF LoadState, TypeOK, RecordsOK
  <1>24. ASSUME TypeOK, CurOK, LockOK, BatchOK, RecordsOK, NEW p \in Proc,
               Drain(p)
        PROVE  RecordsOK'
    BY <1>24 DEF Drain, TypeOK, RecordsOK
  <1>25. ASSUME TypeOK, CurOK, LockOK, BatchOK, RecordsOK, NEW p \in Proc,
               SaveState(p)
        PROVE  RecordsOK'
    BY <1>25 DEF SaveState, TypeOK, RecordsOK
  <1>26. ASSUME TypeOK, CurOK, LockOK, BatchOK, RecordsOK, NEW p \in Proc,
               AdvanceFinalized(p)
        PROVE  RecordsOK'
    BY <1>26 DEF AdvanceFinalized, TypeOK, RecordsOK
  <1>27. ASSUME TypeOK, CurOK, LockOK, BatchOK, RecordsOK, NEW p \in Proc,
               FailRecord(p)
        PROVE  RecordsOK'
    BY <1>27 DEF FailRecord, TypeOK, RecordsOK, CurOK, HasRun
  <1>28. ASSUME TypeOK, CurOK, LockOK, BatchOK, RecordsOK, NEW p \in Proc,
               Dispose(p)
        PROVE  RecordsOK'
    BY <1>28 DEF Dispose, TypeOK, RecordsOK
  <1>29. ASSUME TypeOK, CurOK, LockOK, BatchOK, RecordsOK, NEW p \in Proc,
               FailLoad(p)
        PROVE  RecordsOK'
    BY <1>29 DEF FailLoad, TypeOK, RecordsOK
  <1>30. ASSUME TypeOK, CurOK, LockOK, BatchOK, RecordsOK, NEW p \in Proc,
               FailSave(p)
        PROVE  RecordsOK'
    BY <1>30 DEF FailSave, TypeOK, RecordsOK
  <1>31. ASSUME TypeOK, CurOK, LockOK, BatchOK, RecordsOK, NEW p \in Proc,
               ReturnEvent(p)
        PROVE  RecordsOK'
    BY <1>31 DEF ReturnEvent, TypeOK, RecordsOK
  <1>32. ASSUME TypeOK, CurOK, LockOK, BatchOK, RecordsOK, NEW p \in Proc,
               RemoveRun(p)
        PROVE  RecordsOK'
    BY <1>32 DEF RemoveRun, TypeOK, RecordsOK
  <1>33. ASSUME TypeOK, CurOK, LockOK, BatchOK, RecordsOK, UNCHANGED vars
        PROVE  RecordsOK'
    BY <1>33 DEF vars, TypeOK, RecordsOK
  <1> QED
    BY <1>1, <1>2, <1>3, <1>4, <1>5, <1>6, <1>7, <1>8, <1>9, <1>10, <1>11,
       <1>12, <1>13, <1>14, <1>15, <1>16, <1>17, <1>18, <1>19, <1>20, <1>21,
       <1>22, <1>23, <1>24, <1>25, <1>26, <1>27, <1>28, <1>29, <1>30, <1>31,
       <1>32, <1>33 DEF Next, Environment, Step, Recover, Claim, Consolidate, Finalize, GiveBack

\* Error records accumulate: no step forgets a failure.
LEMMA RecordsGrow ==
    TypeOK /\ CurOK /\ RecordsOK /\ [Next]_vars => \A r \in Run : records[r] \subseteq records'[r]
  <1>1. ASSUME TypeOK, CurOK, RecordsOK, NEW e \in Event, CheckKey(e)
        PROVE  \A r \in Run : records[r] \subseteq records'[r]
    BY <1>1 DEF CheckKey
  <1>2. ASSUME TypeOK, CurOK, RecordsOK, NEW e \in Event, Append(e)
        PROVE  \A r \in Run : records[r] \subseteq records'[r]
    BY <1>2 DEF Append
  <1>3. ASSUME TypeOK, CurOK, RecordsOK, ForeignCommit
        PROVE  \A r \in Run : records[r] \subseteq records'[r]
    BY <1>3 DEF ForeignCommit
  <1>4. ASSUME TypeOK, CurOK, RecordsOK, NEW p \in Proc, Crash(p)
        PROVE  \A r \in Run : records[r] \subseteq records'[r]
    BY <1>4 DEF Crash
  <1>5. ASSUME TypeOK, CurOK, RecordsOK, NEW p \in Proc, RecoverBegin(p)
        PROVE  \A r \in Run : records[r] \subseteq records'[r]
    BY <1>5 DEF RecoverBegin
  <1>6. ASSUME TypeOK, CurOK, RecordsOK, NEW p \in Proc, RecoverFinalize(p)
        PROVE  \A r \in Run : records[r] \subseteq records'[r]
    BY <1>6 DEF RecoverFinalize
  <1>7. ASSUME TypeOK, CurOK, RecordsOK, NEW p \in Proc, RecoverReturn(p)
        PROVE  \A r \in Run : records[r] \subseteq records'[r]
    BY <1>7 DEF RecoverReturn
  <1>8. ASSUME TypeOK, CurOK, RecordsOK, NEW p \in Proc, RecoverEnd(p)
        PROVE  \A r \in Run : records[r] \subseteq records'[r]
    BY <1>8 DEF RecoverEnd
  <1>9. ASSUME TypeOK, CurOK, RecordsOK, NEW p \in Proc, NotDue(p)
        PROVE  \A r \in Run : records[r] \subseteq records'[r]
    BY <1>9 DEF NotDue
  <1>10. ASSUME TypeOK, CurOK, RecordsOK, NEW p \in Proc, Trigger(p)
        PROVE  \A r \in Run : records[r] \subseteq records'[r]
    BY <1>10 DEF Trigger
  <1>11. ASSUME TypeOK, CurOK, RecordsOK, NEW p \in Proc, ClaimNothing(p)
        PROVE  \A r \in Run : records[r] \subseteq records'[r]
    BY <1>11 DEF ClaimNothing
  <1>12. ASSUME TypeOK, CurOK, RecordsOK, NEW p \in Proc, ClaimSnapshot(p)
        PROVE  \A r \in Run : records[r] \subseteq records'[r]
    BY <1>12 DEF ClaimSnapshot
  <1>13. ASSUME TypeOK, CurOK, RecordsOK, NEW p \in Proc, ClaimMove(p)
        PROVE  \A r \in Run : records[r] \subseteq records'[r]
    BY <1>13 DEF ClaimMove
  <1>14. ASSUME TypeOK, CurOK, RecordsOK, NEW p \in Proc, ClaimManifest(p)
        PROVE  \A r \in Run : records[r] \subseteq records'[r]
    BY <1>14 DEF ClaimManifest
  <1>15. ASSUME TypeOK, CurOK, RecordsOK, NEW p \in Proc, StampAttempt(p)
        PROVE  \A r \in Run : records[r] \subseteq records'[r]
    BY <1>15 DEF StampAttempt
  <1>16. ASSUME TypeOK, CurOK, RecordsOK, NEW p \in Proc, BuildBundle(p)
        PROVE  \A r \in Run : records[r] \subseteq records'[r]
    BY <1>16 DEF BuildBundle
  <1>17. ASSUME TypeOK, CurOK, RecordsOK, NEW p \in Proc, PlanAndApply(p)
        PROVE  \A r \in Run : records[r] \subseteq records'[r]
    BY <1>17 DEF PlanAndApply
  <1>18. ASSUME TypeOK, CurOK, RecordsOK, NEW p \in Proc, CommitWorktree(p)
        PROVE  \A r \in Run : records[r] \subseteq records'[r]
    BY <1>18 DEF CommitWorktree
  <1>19. ASSUME TypeOK, CurOK, RecordsOK, NEW p \in Proc, Reject(p)
        PROVE  \A r \in Run : records[r] \subseteq records'[r]
    BY <1>19 DEF Reject
  <1>20. ASSUME TypeOK, CurOK, RecordsOK, NEW p \in Proc, CasPublish(p)
        PROVE  \A r \in Run : records[r] \subseteq records'[r]
    BY <1>20 DEF CasPublish
  <1>21. ASSUME TypeOK, CurOK, RecordsOK, NEW p \in Proc, CasConflict(p)
        PROVE  \A r \in Run : records[r] \subseteq records'[r]
    BY <1>21 DEF CasConflict
  <1>22. ASSUME TypeOK, CurOK, RecordsOK, NEW p \in Proc,
               AdvancePublished(p)
        PROVE  \A r \in Run : records[r] \subseteq records'[r]
    BY <1>22 DEF AdvancePublished
  <1>23. ASSUME TypeOK, CurOK, RecordsOK, NEW p \in Proc, LoadState(p)
        PROVE  \A r \in Run : records[r] \subseteq records'[r]
    BY <1>23 DEF LoadState
  <1>24. ASSUME TypeOK, CurOK, RecordsOK, NEW p \in Proc, Drain(p)
        PROVE  \A r \in Run : records[r] \subseteq records'[r]
    BY <1>24 DEF Drain
  <1>25. ASSUME TypeOK, CurOK, RecordsOK, NEW p \in Proc, SaveState(p)
        PROVE  \A r \in Run : records[r] \subseteq records'[r]
    BY <1>25 DEF SaveState
  <1>26. ASSUME TypeOK, CurOK, RecordsOK, NEW p \in Proc,
               AdvanceFinalized(p)
        PROVE  \A r \in Run : records[r] \subseteq records'[r]
    BY <1>26 DEF AdvanceFinalized
  <1>27. ASSUME TypeOK, CurOK, RecordsOK, NEW p \in Proc, FailRecord(p)
        PROVE  \A r \in Run : records[r] \subseteq records'[r]
    BY <1>27 DEF FailRecord, TypeOK, RecordsOK, CurOK, HasRun
  <1>28. ASSUME TypeOK, CurOK, RecordsOK, NEW p \in Proc, Dispose(p)
        PROVE  \A r \in Run : records[r] \subseteq records'[r]
    BY <1>28 DEF Dispose
  <1>29. ASSUME TypeOK, CurOK, RecordsOK, NEW p \in Proc, FailLoad(p)
        PROVE  \A r \in Run : records[r] \subseteq records'[r]
    BY <1>29 DEF FailLoad
  <1>30. ASSUME TypeOK, CurOK, RecordsOK, NEW p \in Proc, FailSave(p)
        PROVE  \A r \in Run : records[r] \subseteq records'[r]
    BY <1>30 DEF FailSave
  <1>31. ASSUME TypeOK, CurOK, RecordsOK, NEW p \in Proc, ReturnEvent(p)
        PROVE  \A r \in Run : records[r] \subseteq records'[r]
    BY <1>31 DEF ReturnEvent
  <1>32. ASSUME TypeOK, CurOK, RecordsOK, NEW p \in Proc, RemoveRun(p)
        PROVE  \A r \in Run : records[r] \subseteq records'[r]
    BY <1>32 DEF RemoveRun
  <1>33. ASSUME TypeOK, CurOK, RecordsOK, UNCHANGED vars
        PROVE  \A r \in Run : records[r] \subseteq records'[r]
    BY <1>33 DEF vars
  <1> QED
    BY <1>1, <1>2, <1>3, <1>4, <1>5, <1>6, <1>7, <1>8, <1>9, <1>10, <1>11,
       <1>12, <1>13, <1>14, <1>15, <1>16, <1>17, <1>18, <1>19, <1>20, <1>21,
       <1>22, <1>23, <1>24, <1>25, <1>26, <1>27, <1>28, <1>29, <1>30, <1>31,
       <1>32, <1>33 DEF Next, Environment, Step, Recover, Claim, Consolidate, Finalize, GiveBack

LEMMA AttemptsGrow ==
    ASSUME TypeOK, CurOK, RecordsOK, [Next]_vars, NEW e \in Event,
           Attempts(e) >= MaxAttempts
    PROVE  Attempts(e)' >= MaxAttempts
  <1> DEFINE A == {r \in Run : e \in records[r]}
             B == {r \in Run : e \in records'[r]}
  <1>1. A \subseteq B
    BY RecordsGrow
  <1>2. IsFiniteSet(B)
    BY RunFinite, FS_Subset
  <1>3. Cardinality(A) <= Cardinality(B) /\ Cardinality(B) \in Nat
    BY <1>1, <1>2, FS_Subset, FS_CardinalityType
  <1>4. Attempts(e) = Cardinality(A) /\ Attempts(e)' = Cardinality(B)
    BY DEF Attempts
  <1>5. Attempts(e) \in Nat /\ MaxAttempts \in Nat
    BY AttemptsType, BoundAssumption
  <1> QED
    BY <1>3, <1>4, <1>5

\* Only _fail makes an addressable event terminal, and only without budget.
LEMMA NewlyTerminal ==
    TypeOK /\ CurOK /\ RecordsOK /\ [Next]_vars => \A x \in Addressable, r \in Run :
                 spool'[x] = Failed(r) =>
                     spool[x] = Failed(r) \/ Attempts(x) >= MaxAttempts
  <1>1. ASSUME TypeOK, CurOK, RecordsOK, NEW e \in Event, CheckKey(e)
        PROVE  \A x \in Addressable, r \in Run :
                 spool'[x] = Failed(r) =>
                     spool[x] = Failed(r) \/ Attempts(x) >= MaxAttempts
    BY <1>1, AddressableAssumption DEF CheckKey, TypeOK, Writing, Failed,
       Place
  <1>2. ASSUME TypeOK, CurOK, RecordsOK, NEW e \in Event, Append(e)
        PROVE  \A x \in Addressable, r \in Run :
                 spool'[x] = Failed(r) =>
                     spool[x] = Failed(r) \/ Attempts(x) >= MaxAttempts
    BY <1>2, AddressableAssumption DEF Append, TypeOK, Inbox, Failed, Place
  <1>3. ASSUME TypeOK, CurOK, RecordsOK, ForeignCommit
        PROVE  \A x \in Addressable, r \in Run :
                 spool'[x] = Failed(r) =>
                     spool[x] = Failed(r) \/ Attempts(x) >= MaxAttempts
    BY <1>3 DEF ForeignCommit
  <1>4. ASSUME TypeOK, CurOK, RecordsOK, NEW p \in Proc, Crash(p)
        PROVE  \A x \in Addressable, r \in Run :
                 spool'[x] = Failed(r) =>
                     spool[x] = Failed(r) \/ Attempts(x) >= MaxAttempts
    BY <1>4 DEF Crash
  <1>5. ASSUME TypeOK, CurOK, RecordsOK, NEW p \in Proc, RecoverBegin(p)
        PROVE  \A x \in Addressable, r \in Run :
                 spool'[x] = Failed(r) =>
                     spool[x] = Failed(r) \/ Attempts(x) >= MaxAttempts
    BY <1>5 DEF RecoverBegin
  <1>6. ASSUME TypeOK, CurOK, RecordsOK, NEW p \in Proc, RecoverFinalize(p)
        PROVE  \A x \in Addressable, r \in Run :
                 spool'[x] = Failed(r) =>
                     spool[x] = Failed(r) \/ Attempts(x) >= MaxAttempts
    BY <1>6 DEF RecoverFinalize
  <1>7. ASSUME TypeOK, CurOK, RecordsOK, NEW p \in Proc, RecoverReturn(p)
        PROVE  \A x \in Addressable, r \in Run :
                 spool'[x] = Failed(r) =>
                     spool[x] = Failed(r) \/ Attempts(x) >= MaxAttempts
    BY <1>7 DEF RecoverReturn
  <1>8. ASSUME TypeOK, CurOK, RecordsOK, NEW p \in Proc, RecoverEnd(p)
        PROVE  \A x \in Addressable, r \in Run :
                 spool'[x] = Failed(r) =>
                     spool[x] = Failed(r) \/ Attempts(x) >= MaxAttempts
    BY <1>8 DEF RecoverEnd
  <1>9. ASSUME TypeOK, CurOK, RecordsOK, NEW p \in Proc, NotDue(p)
        PROVE  \A x \in Addressable, r \in Run :
                 spool'[x] = Failed(r) =>
                     spool[x] = Failed(r) \/ Attempts(x) >= MaxAttempts
    BY <1>9 DEF NotDue
  <1>10. ASSUME TypeOK, CurOK, RecordsOK, NEW p \in Proc, Trigger(p)
        PROVE  \A x \in Addressable, r \in Run :
                 spool'[x] = Failed(r) =>
                     spool[x] = Failed(r) \/ Attempts(x) >= MaxAttempts
    BY <1>10 DEF Trigger
  <1>11. ASSUME TypeOK, CurOK, RecordsOK, NEW p \in Proc, ClaimNothing(p)
        PROVE  \A x \in Addressable, r \in Run :
                 spool'[x] = Failed(r) =>
                     spool[x] = Failed(r) \/ Attempts(x) >= MaxAttempts
    BY <1>11 DEF ClaimNothing
  <1>12. ASSUME TypeOK, CurOK, RecordsOK, NEW p \in Proc, ClaimSnapshot(p)
        PROVE  \A x \in Addressable, r \in Run :
                 spool'[x] = Failed(r) =>
                     spool[x] = Failed(r) \/ Attempts(x) >= MaxAttempts
    BY <1>12 DEF ClaimSnapshot
  <1>13. ASSUME TypeOK, CurOK, RecordsOK, NEW p \in Proc, ClaimMove(p)
        PROVE  \A x \in Addressable, r \in Run :
                 spool'[x] = Failed(r) =>
                     spool[x] = Failed(r) \/ Attempts(x) >= MaxAttempts
    BY <1>13, AddressableAssumption DEF ClaimMove, TypeOK, Processing,
       Failed, Place
  <1>14. ASSUME TypeOK, CurOK, RecordsOK, NEW p \in Proc, ClaimManifest(p)
        PROVE  \A x \in Addressable, r \in Run :
                 spool'[x] = Failed(r) =>
                     spool[x] = Failed(r) \/ Attempts(x) >= MaxAttempts
    BY <1>14 DEF ClaimManifest
  <1>15. ASSUME TypeOK, CurOK, RecordsOK, NEW p \in Proc, StampAttempt(p)
        PROVE  \A x \in Addressable, r \in Run :
                 spool'[x] = Failed(r) =>
                     spool[x] = Failed(r) \/ Attempts(x) >= MaxAttempts
    BY <1>15 DEF StampAttempt
  <1>16. ASSUME TypeOK, CurOK, RecordsOK, NEW p \in Proc, BuildBundle(p)
        PROVE  \A x \in Addressable, r \in Run :
                 spool'[x] = Failed(r) =>
                     spool[x] = Failed(r) \/ Attempts(x) >= MaxAttempts
    BY <1>16 DEF BuildBundle
  <1>17. ASSUME TypeOK, CurOK, RecordsOK, NEW p \in Proc, PlanAndApply(p)
        PROVE  \A x \in Addressable, r \in Run :
                 spool'[x] = Failed(r) =>
                     spool[x] = Failed(r) \/ Attempts(x) >= MaxAttempts
    BY <1>17 DEF PlanAndApply
  <1>18. ASSUME TypeOK, CurOK, RecordsOK, NEW p \in Proc, CommitWorktree(p)
        PROVE  \A x \in Addressable, r \in Run :
                 spool'[x] = Failed(r) =>
                     spool[x] = Failed(r) \/ Attempts(x) >= MaxAttempts
    BY <1>18 DEF CommitWorktree
  <1>19. ASSUME TypeOK, CurOK, RecordsOK, NEW p \in Proc, Reject(p)
        PROVE  \A x \in Addressable, r \in Run :
                 spool'[x] = Failed(r) =>
                     spool[x] = Failed(r) \/ Attempts(x) >= MaxAttempts
    BY <1>19 DEF Reject
  <1>20. ASSUME TypeOK, CurOK, RecordsOK, NEW p \in Proc, CasPublish(p)
        PROVE  \A x \in Addressable, r \in Run :
                 spool'[x] = Failed(r) =>
                     spool[x] = Failed(r) \/ Attempts(x) >= MaxAttempts
    BY <1>20 DEF CasPublish
  <1>21. ASSUME TypeOK, CurOK, RecordsOK, NEW p \in Proc, CasConflict(p)
        PROVE  \A x \in Addressable, r \in Run :
                 spool'[x] = Failed(r) =>
                     spool[x] = Failed(r) \/ Attempts(x) >= MaxAttempts
    BY <1>21 DEF CasConflict
  <1>22. ASSUME TypeOK, CurOK, RecordsOK, NEW p \in Proc,
               AdvancePublished(p)
        PROVE  \A x \in Addressable, r \in Run :
                 spool'[x] = Failed(r) =>
                     spool[x] = Failed(r) \/ Attempts(x) >= MaxAttempts
    BY <1>22 DEF AdvancePublished
  <1>23. ASSUME TypeOK, CurOK, RecordsOK, NEW p \in Proc, LoadState(p)
        PROVE  \A x \in Addressable, r \in Run :
                 spool'[x] = Failed(r) =>
                     spool[x] = Failed(r) \/ Attempts(x) >= MaxAttempts
    BY <1>23 DEF LoadState
  <1>24. ASSUME TypeOK, CurOK, RecordsOK, NEW p \in Proc, Drain(p)
        PROVE  \A x \in Addressable, r \in Run :
                 spool'[x] = Failed(r) =>
                     spool[x] = Failed(r) \/ Attempts(x) >= MaxAttempts
    BY <1>24, AddressableAssumption DEF Drain, TypeOK, Processed, Failed,
       Place
  <1>25. ASSUME TypeOK, CurOK, RecordsOK, NEW p \in Proc, SaveState(p)
        PROVE  \A x \in Addressable, r \in Run :
                 spool'[x] = Failed(r) =>
                     spool[x] = Failed(r) \/ Attempts(x) >= MaxAttempts
    BY <1>25 DEF SaveState
  <1>26. ASSUME TypeOK, CurOK, RecordsOK, NEW p \in Proc,
               AdvanceFinalized(p)
        PROVE  \A x \in Addressable, r \in Run :
                 spool'[x] = Failed(r) =>
                     spool[x] = Failed(r) \/ Attempts(x) >= MaxAttempts
    BY <1>26 DEF AdvanceFinalized
  <1>27. ASSUME TypeOK, CurOK, RecordsOK, NEW p \in Proc, FailRecord(p)
        PROVE  \A x \in Addressable, r \in Run :
                 spool'[x] = Failed(r) =>
                     spool[x] = Failed(r) \/ Attempts(x) >= MaxAttempts
    BY <1>27 DEF FailRecord
  <1>28. ASSUME TypeOK, CurOK, RecordsOK, NEW p \in Proc, Dispose(p)
        PROVE  \A x \in Addressable, r \in Run :
                 spool'[x] = Failed(r) =>
                     spool[x] = Failed(r) \/ Attempts(x) >= MaxAttempts
    <2> SUFFICES ASSUME NEW x \in Addressable, NEW r \in Run,
                        spool'[x] = Failed(r), spool[x] # Failed(r)
                 PROVE  Attempts(x) >= MaxAttempts
      OBVIOUS
    <2>1. x \in Event
      BY AddressableAssumption
    <2>2. spool'[x] = DisposePlace(x, cur[p])
      BY <1>28, <2>1 DEF Dispose, TypeOK
    <2>3. Inbox # Failed(r)
      BY DEF Inbox, Failed, Place
    <2>4. ~(Attempts(x) < MaxAttempts)
      BY <2>2, <2>3 DEF DisposePlace, ReturnPlace
    <2> QED
      BY <2>1, <2>4, AttemptsType, BoundAssumption
  <1>29. ASSUME TypeOK, CurOK, RecordsOK, NEW p \in Proc, FailLoad(p)
        PROVE  \A x \in Addressable, r \in Run :
                 spool'[x] = Failed(r) =>
                     spool[x] = Failed(r) \/ Attempts(x) >= MaxAttempts
    BY <1>29 DEF FailLoad
  <1>30. ASSUME TypeOK, CurOK, RecordsOK, NEW p \in Proc, FailSave(p)
        PROVE  \A x \in Addressable, r \in Run :
                 spool'[x] = Failed(r) =>
                     spool[x] = Failed(r) \/ Attempts(x) >= MaxAttempts
    BY <1>30 DEF FailSave
  <1>31. ASSUME TypeOK, CurOK, RecordsOK, NEW p \in Proc, ReturnEvent(p)
        PROVE  \A x \in Addressable, r \in Run :
                 spool'[x] = Failed(r) =>
                     spool[x] = Failed(r) \/ Attempts(x) >= MaxAttempts
    BY <1>31, AddressableAssumption DEF ReturnEvent, TypeOK, ReturnPlace,
       Inbox, Failed, Place
  <1>32. ASSUME TypeOK, CurOK, RecordsOK, NEW p \in Proc, RemoveRun(p)
        PROVE  \A x \in Addressable, r \in Run :
                 spool'[x] = Failed(r) =>
                     spool[x] = Failed(r) \/ Attempts(x) >= MaxAttempts
    BY <1>32, AddressableAssumption DEF RemoveRun, TypeOK, Destroyed,
       Failed, Place
  <1>33. ASSUME TypeOK, CurOK, RecordsOK, UNCHANGED vars
        PROVE  \A x \in Addressable, r \in Run :
                 spool'[x] = Failed(r) =>
                     spool[x] = Failed(r) \/ Attempts(x) >= MaxAttempts
    BY <1>33 DEF vars
  <1> QED
    BY <1>1, <1>2, <1>3, <1>4, <1>5, <1>6, <1>7, <1>8, <1>9, <1>10, <1>11,
       <1>12, <1>13, <1>14, <1>15, <1>16, <1>17, <1>18, <1>19, <1>20, <1>21,
       <1>22, <1>23, <1>24, <1>25, <1>26, <1>27, <1>28, <1>29, <1>30, <1>31,
       <1>32, <1>33 DEF Next, Environment, Step, Recover, Claim, Consolidate, Finalize, GiveBack

LEMMA TerminalStep ==
    TypeOK /\ CurOK /\ RecordsOK /\ TerminalOnlyWhenSpent /\ [Next]_vars
        => TerminalOnlyWhenSpent'
  <1> SUFFICES ASSUME TypeOK, CurOK, RecordsOK, TerminalOnlyWhenSpent,
                      [Next]_vars, NEW e \in Addressable, NEW r \in Run,
                      spool'[e] = Failed(r)
               PROVE  Attempts(e)' >= MaxAttempts
    BY DEF TerminalOnlyWhenSpent
  <1>1. e \in Event
    BY AddressableAssumption
  <1>2. Attempts(e) >= MaxAttempts
    BY NewlyTerminal DEF TerminalOnlyWhenSpent
  <1> QED
    BY <1>1, <1>2, AttemptsGrow

LEMMA UnmintedStep ==
    TypeOK /\ CurOK /\ LockOK /\ MintedOK /\ UnmintedOK /\ [Next]_vars => UnmintedOK'
  <1>1. ASSUME TypeOK, CurOK, LockOK, MintedOK, UnmintedOK, NEW e \in Event,
               CheckKey(e)
        PROVE  UnmintedOK'
    BY <1>1 DEF CheckKey, TypeOK, UnmintedOK
  <1>2. ASSUME TypeOK, CurOK, LockOK, MintedOK, UnmintedOK, NEW e \in Event,
               Append(e)
        PROVE  UnmintedOK'
    BY <1>2 DEF Append, TypeOK, UnmintedOK
  <1>3. ASSUME TypeOK, CurOK, LockOK, MintedOK, UnmintedOK, ForeignCommit
        PROVE  UnmintedOK'
    BY <1>3 DEF ForeignCommit, TypeOK, UnmintedOK
  <1>4. ASSUME TypeOK, CurOK, LockOK, MintedOK, UnmintedOK, NEW p \in Proc,
               Crash(p)
        PROVE  UnmintedOK'
    BY <1>4 DEF Crash, TypeOK, UnmintedOK
  <1>5. ASSUME TypeOK, CurOK, LockOK, MintedOK, UnmintedOK, NEW p \in Proc,
               RecoverBegin(p)
        PROVE  UnmintedOK'
    BY <1>5 DEF RecoverBegin, TypeOK, UnmintedOK
  <1>6. ASSUME TypeOK, CurOK, LockOK, MintedOK, UnmintedOK, NEW p \in Proc,
               RecoverFinalize(p)
        PROVE  UnmintedOK'
    BY <1>6 DEF RecoverFinalize, TypeOK, UnmintedOK
  <1>7. ASSUME TypeOK, CurOK, LockOK, MintedOK, UnmintedOK, NEW p \in Proc,
               RecoverReturn(p)
        PROVE  UnmintedOK'
    BY <1>7 DEF RecoverReturn, TypeOK, UnmintedOK
  <1>8. ASSUME TypeOK, CurOK, LockOK, MintedOK, UnmintedOK, NEW p \in Proc,
               RecoverEnd(p)
        PROVE  UnmintedOK'
    BY <1>8 DEF RecoverEnd, TypeOK, UnmintedOK
  <1>9. ASSUME TypeOK, CurOK, LockOK, MintedOK, UnmintedOK, NEW p \in Proc,
               NotDue(p)
        PROVE  UnmintedOK'
    BY <1>9 DEF NotDue, TypeOK, UnmintedOK
  <1>10. ASSUME TypeOK, CurOK, LockOK, MintedOK, UnmintedOK, NEW p \in Proc,
               Trigger(p)
        PROVE  UnmintedOK'
    BY <1>10 DEF Trigger, TypeOK, UnmintedOK
  <1>11. ASSUME TypeOK, CurOK, LockOK, MintedOK, UnmintedOK, NEW p \in Proc,
               ClaimNothing(p)
        PROVE  UnmintedOK'
    BY <1>11 DEF ClaimNothing, TypeOK, UnmintedOK
  <1>12. ASSUME TypeOK, CurOK, LockOK, MintedOK, UnmintedOK, NEW p \in Proc,
               ClaimSnapshot(p)
        PROVE  UnmintedOK'
    BY <1>12 DEF ClaimSnapshot, TypeOK, UnmintedOK, Run
  <1>13. ASSUME TypeOK, CurOK, LockOK, MintedOK, UnmintedOK, NEW p \in Proc,
               ClaimMove(p)
        PROVE  UnmintedOK'
    BY <1>13 DEF ClaimMove, TypeOK, UnmintedOK
  <1>14. ASSUME TypeOK, CurOK, LockOK, MintedOK, UnmintedOK, NEW p \in Proc,
               ClaimManifest(p)
        PROVE  UnmintedOK'
    BY <1>14 DEF ClaimManifest, TypeOK, UnmintedOK
  <1>15. ASSUME TypeOK, CurOK, LockOK, MintedOK, UnmintedOK, NEW p \in Proc,
               StampAttempt(p)
        PROVE  UnmintedOK'
    BY <1>15 DEF StampAttempt, TypeOK, UnmintedOK
  <1>16. ASSUME TypeOK, CurOK, LockOK, MintedOK, UnmintedOK, NEW p \in Proc,
               BuildBundle(p)
        PROVE  UnmintedOK'
    BY <1>16 DEF BuildBundle, TypeOK, UnmintedOK
  <1>17. ASSUME TypeOK, CurOK, LockOK, MintedOK, UnmintedOK, NEW p \in Proc,
               PlanAndApply(p)
        PROVE  UnmintedOK'
    BY <1>17 DEF PlanAndApply, TypeOK, UnmintedOK
  <1>18. ASSUME TypeOK, CurOK, LockOK, MintedOK, UnmintedOK, NEW p \in Proc,
               CommitWorktree(p)
        PROVE  UnmintedOK'
    BY <1>18 DEF CommitWorktree, TypeOK, UnmintedOK
  <1>19. ASSUME TypeOK, CurOK, LockOK, MintedOK, UnmintedOK, NEW p \in Proc,
               Reject(p)
        PROVE  UnmintedOK'
    BY <1>19 DEF Reject, TypeOK, UnmintedOK
  <1>20. ASSUME TypeOK, CurOK, LockOK, MintedOK, UnmintedOK, NEW p \in Proc,
               CasPublish(p)
        PROVE  UnmintedOK'
    BY <1>20 DEF CasPublish, TypeOK, UnmintedOK, MintedOK, Run
  <1>21. ASSUME TypeOK, CurOK, LockOK, MintedOK, UnmintedOK, NEW p \in Proc,
               CasConflict(p)
        PROVE  UnmintedOK'
    BY <1>21 DEF CasConflict, TypeOK, UnmintedOK
  <1>22. ASSUME TypeOK, CurOK, LockOK, MintedOK, UnmintedOK, NEW p \in Proc,
               AdvancePublished(p)
        PROVE  UnmintedOK'
    BY <1>22 DEF AdvancePublished, TypeOK, UnmintedOK
  <1>23. ASSUME TypeOK, CurOK, LockOK, MintedOK, UnmintedOK, NEW p \in Proc,
               LoadState(p)
        PROVE  UnmintedOK'
    BY <1>23 DEF LoadState, TypeOK, UnmintedOK
  <1>24. ASSUME TypeOK, CurOK, LockOK, MintedOK, UnmintedOK, NEW p \in Proc,
               Drain(p)
        PROVE  UnmintedOK'
    BY <1>24 DEF Drain, TypeOK, UnmintedOK
  <1>25. ASSUME TypeOK, CurOK, LockOK, MintedOK, UnmintedOK, NEW p \in Proc,
               SaveState(p)
        PROVE  UnmintedOK'
    BY <1>25 DEF SaveState, TypeOK, UnmintedOK
  <1>26. ASSUME TypeOK, CurOK, LockOK, MintedOK, UnmintedOK, NEW p \in Proc,
               AdvanceFinalized(p)
        PROVE  UnmintedOK'
    BY <1>26 DEF AdvanceFinalized, TypeOK, UnmintedOK
  <1>27. ASSUME TypeOK, CurOK, LockOK, MintedOK, UnmintedOK, NEW p \in Proc,
               FailRecord(p)
        PROVE  UnmintedOK'
    BY <1>27 DEF FailRecord, TypeOK, UnmintedOK
  <1>28. ASSUME TypeOK, CurOK, LockOK, MintedOK, UnmintedOK, NEW p \in Proc,
               Dispose(p)
        PROVE  UnmintedOK'
    BY <1>28 DEF Dispose, TypeOK, UnmintedOK
  <1>29. ASSUME TypeOK, CurOK, LockOK, MintedOK, UnmintedOK, NEW p \in Proc,
               FailLoad(p)
        PROVE  UnmintedOK'
    BY <1>29 DEF FailLoad, TypeOK, UnmintedOK
  <1>30. ASSUME TypeOK, CurOK, LockOK, MintedOK, UnmintedOK, NEW p \in Proc,
               FailSave(p)
        PROVE  UnmintedOK'
    BY <1>30 DEF FailSave, TypeOK, UnmintedOK
  <1>31. ASSUME TypeOK, CurOK, LockOK, MintedOK, UnmintedOK, NEW p \in Proc,
               ReturnEvent(p)
        PROVE  UnmintedOK'
    BY <1>31 DEF ReturnEvent, TypeOK, UnmintedOK
  <1>32. ASSUME TypeOK, CurOK, LockOK, MintedOK, UnmintedOK, NEW p \in Proc,
               RemoveRun(p)
        PROVE  UnmintedOK'
    BY <1>32 DEF RemoveRun, TypeOK, UnmintedOK
  <1>33. ASSUME TypeOK, CurOK, LockOK, MintedOK, UnmintedOK, UNCHANGED vars
        PROVE  UnmintedOK'
    BY <1>33 DEF vars, TypeOK, UnmintedOK
  <1> QED
    BY <1>1, <1>2, <1>3, <1>4, <1>5, <1>6, <1>7, <1>8, <1>9, <1>10, <1>11,
       <1>12, <1>13, <1>14, <1>15, <1>16, <1>17, <1>18, <1>19, <1>20, <1>21,
       <1>22, <1>23, <1>24, <1>25, <1>26, <1>27, <1>28, <1>29, <1>30, <1>31,
       <1>32, <1>33 DEF Next, Environment, Step, Recover, Claim, Consolidate, Finalize, GiveBack

LEMMA ShaStep ==
    TypeOK /\ CurOK /\ LockOK /\ ShaOK /\ [Next]_vars => ShaOK'
  <1>1. ASSUME TypeOK, CurOK, LockOK, ShaOK, NEW e \in Event, CheckKey(e)
        PROVE  ShaOK'
    BY <1>1 DEF CheckKey, TypeOK, ShaOK
  <1>2. ASSUME TypeOK, CurOK, LockOK, ShaOK, NEW e \in Event, Append(e)
        PROVE  ShaOK'
    BY <1>2 DEF Append, TypeOK, ShaOK
  <1>3. ASSUME TypeOK, CurOK, LockOK, ShaOK, ForeignCommit
        PROVE  ShaOK'
    BY <1>3 DEF ForeignCommit, TypeOK, ShaOK
  <1>4. ASSUME TypeOK, CurOK, LockOK, ShaOK, NEW p \in Proc, Crash(p)
        PROVE  ShaOK'
    BY <1>4 DEF Crash, TypeOK, ShaOK
  <1>5. ASSUME TypeOK, CurOK, LockOK, ShaOK, NEW p \in Proc, RecoverBegin(p)
        PROVE  ShaOK'
    BY <1>5 DEF RecoverBegin, TypeOK, ShaOK
  <1>6. ASSUME TypeOK, CurOK, LockOK, ShaOK, NEW p \in Proc,
               RecoverFinalize(p)
        PROVE  ShaOK'
    BY <1>6 DEF RecoverFinalize, TypeOK, ShaOK
  <1>7. ASSUME TypeOK, CurOK, LockOK, ShaOK, NEW p \in Proc,
               RecoverReturn(p)
        PROVE  ShaOK'
    BY <1>7 DEF RecoverReturn, TypeOK, ShaOK
  <1>8. ASSUME TypeOK, CurOK, LockOK, ShaOK, NEW p \in Proc, RecoverEnd(p)
        PROVE  ShaOK'
    BY <1>8 DEF RecoverEnd, TypeOK, ShaOK
  <1>9. ASSUME TypeOK, CurOK, LockOK, ShaOK, NEW p \in Proc, NotDue(p)
        PROVE  ShaOK'
    BY <1>9 DEF NotDue, TypeOK, ShaOK
  <1>10. ASSUME TypeOK, CurOK, LockOK, ShaOK, NEW p \in Proc, Trigger(p)
        PROVE  ShaOK'
    BY <1>10 DEF Trigger, TypeOK, ShaOK
  <1>11. ASSUME TypeOK, CurOK, LockOK, ShaOK, NEW p \in Proc,
               ClaimNothing(p)
        PROVE  ShaOK'
    BY <1>11 DEF ClaimNothing, TypeOK, ShaOK
  <1>12. ASSUME TypeOK, CurOK, LockOK, ShaOK, NEW p \in Proc,
               ClaimSnapshot(p)
        PROVE  ShaOK'
    BY <1>12 DEF ClaimSnapshot, TypeOK, ShaOK
  <1>13. ASSUME TypeOK, CurOK, LockOK, ShaOK, NEW p \in Proc, ClaimMove(p)
        PROVE  ShaOK'
    BY <1>13 DEF ClaimMove, TypeOK, ShaOK
  <1>14. ASSUME TypeOK, CurOK, LockOK, ShaOK, NEW p \in Proc,
               ClaimManifest(p)
        PROVE  ShaOK'
    BY <1>14 DEF ClaimManifest, TypeOK, ShaOK, Advance, CurOK, HasRun
  <1>15. ASSUME TypeOK, CurOK, LockOK, ShaOK, NEW p \in Proc,
               StampAttempt(p)
        PROVE  ShaOK'
    BY <1>15 DEF StampAttempt, TypeOK, ShaOK
  <1>16. ASSUME TypeOK, CurOK, LockOK, ShaOK, NEW p \in Proc, BuildBundle(p)
        PROVE  ShaOK'
    BY <1>16 DEF BuildBundle, TypeOK, ShaOK
  <1>17. ASSUME TypeOK, CurOK, LockOK, ShaOK, NEW p \in Proc,
               PlanAndApply(p)
        PROVE  ShaOK'
    BY <1>17 DEF PlanAndApply, TypeOK, ShaOK, Advance, CurOK, HasRun
  <1>18. ASSUME TypeOK, CurOK, LockOK, ShaOK, NEW p \in Proc,
               CommitWorktree(p)
        PROVE  ShaOK'
    BY <1>18 DEF CommitWorktree, TypeOK, ShaOK, Advance, CurOK, HasRun
  <1>19. ASSUME TypeOK, CurOK, LockOK, ShaOK, NEW p \in Proc, Reject(p)
        PROVE  ShaOK'
    BY <1>19 DEF Reject, TypeOK, ShaOK
  <1>20. ASSUME TypeOK, CurOK, LockOK, ShaOK, NEW p \in Proc, CasPublish(p)
        PROVE  ShaOK'
    BY <1>20 DEF CasPublish, TypeOK, ShaOK
  <1>21. ASSUME TypeOK, CurOK, LockOK, ShaOK, NEW p \in Proc, CasConflict(p)
        PROVE  ShaOK'
    BY <1>21 DEF CasConflict, TypeOK, ShaOK
  <1>22. ASSUME TypeOK, CurOK, LockOK, ShaOK, NEW p \in Proc,
               AdvancePublished(p)
        PROVE  ShaOK'
    BY <1>22 DEF AdvancePublished, TypeOK, ShaOK, Advance, CurOK, HasRun
  <1>23. ASSUME TypeOK, CurOK, LockOK, ShaOK, NEW p \in Proc, LoadState(p)
        PROVE  ShaOK'
    BY <1>23 DEF LoadState, TypeOK, ShaOK
  <1>24. ASSUME TypeOK, CurOK, LockOK, ShaOK, NEW p \in Proc, Drain(p)
        PROVE  ShaOK'
    BY <1>24 DEF Drain, TypeOK, ShaOK
  <1>25. ASSUME TypeOK, CurOK, LockOK, ShaOK, NEW p \in Proc, SaveState(p)
        PROVE  ShaOK'
    BY <1>25 DEF SaveState, TypeOK, ShaOK
  <1>26. ASSUME TypeOK, CurOK, LockOK, ShaOK, NEW p \in Proc,
               AdvanceFinalized(p)
        PROVE  ShaOK'
    BY <1>26 DEF AdvanceFinalized, TypeOK, ShaOK, Advance, CurOK, HasRun
  <1>27. ASSUME TypeOK, CurOK, LockOK, ShaOK, NEW p \in Proc, FailRecord(p)
        PROVE  ShaOK'
    BY <1>27 DEF FailRecord, TypeOK, ShaOK
  <1>28. ASSUME TypeOK, CurOK, LockOK, ShaOK, NEW p \in Proc, Dispose(p)
        PROVE  ShaOK'
    BY <1>28 DEF Dispose, TypeOK, ShaOK
  <1>29. ASSUME TypeOK, CurOK, LockOK, ShaOK, NEW p \in Proc, FailLoad(p)
        PROVE  ShaOK'
    BY <1>29 DEF FailLoad, TypeOK, ShaOK
  <1>30. ASSUME TypeOK, CurOK, LockOK, ShaOK, NEW p \in Proc, FailSave(p)
        PROVE  ShaOK'
    BY <1>30 DEF FailSave, TypeOK, ShaOK
  <1>31. ASSUME TypeOK, CurOK, LockOK, ShaOK, NEW p \in Proc, ReturnEvent(p)
        PROVE  ShaOK'
    BY <1>31 DEF ReturnEvent, TypeOK, ShaOK
  <1>32. ASSUME TypeOK, CurOK, LockOK, ShaOK, NEW p \in Proc, RemoveRun(p)
        PROVE  ShaOK'
    BY <1>32 DEF RemoveRun, TypeOK, ShaOK, NoManifest
  <1>33. ASSUME TypeOK, CurOK, LockOK, ShaOK, UNCHANGED vars
        PROVE  ShaOK'
    BY <1>33 DEF vars, TypeOK, ShaOK
  <1> QED
    BY <1>1, <1>2, <1>3, <1>4, <1>5, <1>6, <1>7, <1>8, <1>9, <1>10, <1>11,
       <1>12, <1>13, <1>14, <1>15, <1>16, <1>17, <1>18, <1>19, <1>20, <1>21,
       <1>22, <1>23, <1>24, <1>25, <1>26, <1>27, <1>28, <1>29, <1>30, <1>31,
       <1>32, <1>33 DEF Next, Environment, Step, Recover, Claim, Consolidate, Finalize, GiveBack

LEMMA LeaveDecision ==
    ASSUME TypeOK, CurOK, DecisionOK, NEW p \in Proc, Exit(p) \/ Resume(p),
           UNCHANGED <<published, records>>,
           \A q \in Proc \ {p} :
               Undecided(q) => manifest'[cur[q]].sha = manifest[cur[q]].sha
    PROVE  DecisionOK'
  <1> SUFFICES ASSUME NEW q \in Proc
               PROVE  /\ Undecided(q)' => cur'[q] \notin published
                                          /\ ~manifest'[cur'[q]].sha
                      /\ Unfailed(q)' => records[cur'[q]] = {}
    BY DEF DecisionOK
  <1>1. CASE q = p
    BY <1>1, LeaveEffect DEF Undecided, Unfailed
  <1>2. CASE q # p
    <2>1. pc'[q] = pc[q] /\ cur'[q] = cur[q]
      BY <1>2, LeaveEffect
    <2> QED
      BY <1>2, <2>1 DEF DecisionOK, Undecided, Unfailed
  <1> QED
    BY <1>1, <1>2

LEMMA DecisionStep ==
    TypeOK /\ CurOK /\ LockOK /\ GitInMemory /\ BatchOK /\ MintedOK /\ RecordsOK /\ UnmintedOK /\ ShaOK /\ DecisionOK /\ [Next]_vars => DecisionOK'
  <1>1. ASSUME TypeOK, CurOK, LockOK, GitInMemory, BatchOK, MintedOK,
               RecordsOK, UnmintedOK, ShaOK, DecisionOK, NEW e \in Event,
               CheckKey(e)
        PROVE  DecisionOK'
    BY <1>1 DEF CheckKey, TypeOK, DecisionOK, Undecided, Unfailed, Goto
  <1>2. ASSUME TypeOK, CurOK, LockOK, GitInMemory, BatchOK, MintedOK,
               RecordsOK, UnmintedOK, ShaOK, DecisionOK, NEW e \in Event,
               Append(e)
        PROVE  DecisionOK'
    BY <1>2 DEF Append, TypeOK, DecisionOK, Undecided, Unfailed, Goto
  <1>3. ASSUME TypeOK, CurOK, LockOK, GitInMemory, BatchOK, MintedOK,
               RecordsOK, UnmintedOK, ShaOK, DecisionOK, ForeignCommit
        PROVE  DecisionOK'
    BY <1>3 DEF ForeignCommit, TypeOK, DecisionOK, Undecided, Unfailed, Goto
  <1>4. ASSUME TypeOK, CurOK, LockOK, GitInMemory, BatchOK, MintedOK,
               RecordsOK, UnmintedOK, ShaOK, DecisionOK, NEW p \in Proc,
               Crash(p)
        PROVE  DecisionOK'
    BY <1>4, LeaveDecision DEF Crash
  <1>5. ASSUME TypeOK, CurOK, LockOK, GitInMemory, BatchOK, MintedOK,
               RecordsOK, UnmintedOK, ShaOK, DecisionOK, NEW p \in Proc,
               RecoverBegin(p)
        PROVE  DecisionOK'
    BY <1>5 DEF RecoverBegin, TypeOK, DecisionOK, Undecided, Unfailed, Goto
  <1>6. ASSUME TypeOK, CurOK, LockOK, GitInMemory, BatchOK, MintedOK,
               RecordsOK, UnmintedOK, ShaOK, DecisionOK, NEW p \in Proc,
               RecoverFinalize(p)
        PROVE  DecisionOK'
    BY <1>6 DEF RecoverFinalize, TypeOK, DecisionOK, Undecided, Unfailed,
       Goto
  <1>7. ASSUME TypeOK, CurOK, LockOK, GitInMemory, BatchOK, MintedOK,
               RecordsOK, UnmintedOK, ShaOK, DecisionOK, NEW p \in Proc,
               RecoverReturn(p)
        PROVE  DecisionOK'
    BY <1>7 DEF RecoverReturn, TypeOK, DecisionOK, Undecided, Unfailed, Goto
  <1>8. ASSUME TypeOK, CurOK, LockOK, GitInMemory, BatchOK, MintedOK,
               RecordsOK, UnmintedOK, ShaOK, DecisionOK, NEW p \in Proc,
               RecoverEnd(p)
        PROVE  DecisionOK'
    BY <1>8 DEF RecoverEnd, TypeOK, DecisionOK, Undecided, Unfailed, Goto
  <1>9. ASSUME TypeOK, CurOK, LockOK, GitInMemory, BatchOK, MintedOK,
               RecordsOK, UnmintedOK, ShaOK, DecisionOK, NEW p \in Proc,
               NotDue(p)
        PROVE  DecisionOK'
    BY <1>9, LeaveDecision DEF NotDue
  <1>10. ASSUME TypeOK, CurOK, LockOK, GitInMemory, BatchOK, MintedOK,
               RecordsOK, UnmintedOK, ShaOK, DecisionOK, NEW p \in Proc,
               Trigger(p)
        PROVE  DecisionOK'
    <2>1. CASE Exit(p)
      BY <1>10, <2>1, LeaveDecision DEF Trigger
    <2>2. CASE ~Exit(p)
      BY <1>10, <2>2 DEF Trigger, TypeOK, DecisionOK, Undecided, Unfailed, Goto
    <2> QED
      BY <2>1, <2>2
  <1>11. ASSUME TypeOK, CurOK, LockOK, GitInMemory, BatchOK, MintedOK,
               RecordsOK, UnmintedOK, ShaOK, DecisionOK, NEW p \in Proc,
               ClaimNothing(p)
        PROVE  DecisionOK'
    BY <1>11, LeaveDecision DEF ClaimNothing
  <1>12. ASSUME TypeOK, CurOK, LockOK, GitInMemory, BatchOK, MintedOK,
               RecordsOK, UnmintedOK, ShaOK, DecisionOK, NEW p \in Proc,
               ClaimSnapshot(p)
        PROVE  DecisionOK'
    <2>1. nextRun \in Run /\ nextRun \in Nat
      BY <1>12 DEF ClaimSnapshot, LockOK, TypeOK
    <2>2. /\ nextRun \notin published
          /\ ~manifest[nextRun].sha
          /\ records[nextRun] = {}
      <3>1. nextRun \notin published
        BY <2>1, <1>12 DEF UnmintedOK
      <3>2. ~manifest[nextRun].sha
        BY <2>1, <1>12 DEF ShaOK, MintedOK
      <3>3. records[nextRun] = {}
        BY <2>1, <1>12 DEF BatchOK, RecordsOK
      <3> QED
        BY <3>1, <3>2, <3>3
    <2>3. UNCHANGED <<published, manifest, records>>
      BY <1>12 DEF ClaimSnapshot
    <2>4. cur'[p] = nextRun
      BY <1>12 DEF ClaimSnapshot, TypeOK
    <2>5. \A q \in Proc \ {p} : pc'[q] = pc[q] /\ cur'[q] = cur[q]
      BY <1>12 DEF ClaimSnapshot, TypeOK, Goto
    <2> QED
      BY <2>2, <2>3, <2>4, <2>5, <1>12 DEF DecisionOK, Undecided, Unfailed
  <1>13. ASSUME TypeOK, CurOK, LockOK, GitInMemory, BatchOK, MintedOK,
               RecordsOK, UnmintedOK, ShaOK, DecisionOK, NEW p \in Proc,
               ClaimMove(p)
        PROVE  DecisionOK'
    BY <1>13 DEF ClaimMove, TypeOK, DecisionOK, Undecided, Unfailed, Goto
  <1>14. ASSUME TypeOK, CurOK, LockOK, GitInMemory, BatchOK, MintedOK,
               RecordsOK, UnmintedOK, ShaOK, DecisionOK, NEW p \in Proc,
               ClaimManifest(p)
        PROVE  DecisionOK'
    BY <1>14 DEF ClaimManifest, TypeOK, DecisionOK, Undecided, Unfailed,
       LockOK, Locked, Advance, CurOK, HasRun, Goto
  <1>15. ASSUME TypeOK, CurOK, LockOK, GitInMemory, BatchOK, MintedOK,
               RecordsOK, UnmintedOK, ShaOK, DecisionOK, NEW p \in Proc,
               StampAttempt(p)
        PROVE  DecisionOK'
    BY <1>15 DEF StampAttempt, TypeOK, DecisionOK, Undecided, Unfailed, Goto
  <1>16. ASSUME TypeOK, CurOK, LockOK, GitInMemory, BatchOK, MintedOK,
               RecordsOK, UnmintedOK, ShaOK, DecisionOK, NEW p \in Proc,
               BuildBundle(p)
        PROVE  DecisionOK'
    <2>1. CASE Exit(p)
      BY <1>16, <2>1, LeaveDecision DEF BuildBundle
    <2>2. CASE ~Exit(p)
      BY <1>16, <2>2 DEF BuildBundle, TypeOK, DecisionOK, Undecided, Unfailed,
         Goto
    <2> QED
      BY <2>1, <2>2
  <1>17. ASSUME TypeOK, CurOK, LockOK, GitInMemory, BatchOK, MintedOK,
               RecordsOK, UnmintedOK, ShaOK, DecisionOK, NEW p \in Proc,
               PlanAndApply(p)
        PROVE  DecisionOK'
    BY <1>17 DEF PlanAndApply, TypeOK, DecisionOK, Undecided, Unfailed,
       LockOK, Locked, Advance, CurOK, HasRun, Goto
  <1>18. ASSUME TypeOK, CurOK, LockOK, GitInMemory, BatchOK, MintedOK,
               RecordsOK, UnmintedOK, ShaOK, DecisionOK, NEW p \in Proc,
               CommitWorktree(p)
        PROVE  DecisionOK'
    BY <1>18 DEF CommitWorktree, TypeOK, DecisionOK, Undecided, Unfailed,
       LockOK, Locked, Advance, CurOK, HasRun, Goto
  <1>19. ASSUME TypeOK, CurOK, LockOK, GitInMemory, BatchOK, MintedOK,
               RecordsOK, UnmintedOK, ShaOK, DecisionOK, NEW p \in Proc,
               Reject(p)
        PROVE  DecisionOK'
    BY <1>19 DEF Reject, TypeOK, DecisionOK, Undecided, Unfailed, Goto
  <1>20. ASSUME TypeOK, CurOK, LockOK, GitInMemory, BatchOK, MintedOK,
               RecordsOK, UnmintedOK, ShaOK, DecisionOK, NEW p \in Proc,
               CasPublish(p)
        PROVE  DecisionOK'
    BY <1>20 DEF CasPublish, TypeOK, DecisionOK, Undecided, Unfailed,
       LockOK, Locked, CurOK, HasRun, Goto
  <1>21. ASSUME TypeOK, CurOK, LockOK, GitInMemory, BatchOK, MintedOK,
               RecordsOK, UnmintedOK, ShaOK, DecisionOK, NEW p \in Proc,
               CasConflict(p)
        PROVE  DecisionOK'
    BY <1>21 DEF CasConflict, TypeOK, DecisionOK, Undecided, Unfailed, Goto
  <1>22. ASSUME TypeOK, CurOK, LockOK, GitInMemory, BatchOK, MintedOK,
               RecordsOK, UnmintedOK, ShaOK, DecisionOK, NEW p \in Proc,
               AdvancePublished(p)
        PROVE  DecisionOK'
    BY <1>22 DEF AdvancePublished, TypeOK, DecisionOK, Undecided, Unfailed,
       LockOK, Locked, Advance, CurOK, HasRun, Goto
  <1>23. ASSUME TypeOK, CurOK, LockOK, GitInMemory, BatchOK, MintedOK,
               RecordsOK, UnmintedOK, ShaOK, DecisionOK, NEW p \in Proc,
               LoadState(p)
        PROVE  DecisionOK'
    BY <1>23 DEF LoadState, TypeOK, DecisionOK, Undecided, Unfailed, Goto
  <1>24. ASSUME TypeOK, CurOK, LockOK, GitInMemory, BatchOK, MintedOK,
               RecordsOK, UnmintedOK, ShaOK, DecisionOK, NEW p \in Proc,
               Drain(p)
        PROVE  DecisionOK'
    <2>1. CASE Exit(p)
      BY <1>24, <2>1, LeaveDecision DEF Drain
    <2>2. CASE ~Exit(p)
      BY <1>24, <2>2 DEF Drain, TypeOK, DecisionOK, Undecided, Unfailed, Goto
    <2> QED
      BY <2>1, <2>2
  <1>25. ASSUME TypeOK, CurOK, LockOK, GitInMemory, BatchOK, MintedOK,
               RecordsOK, UnmintedOK, ShaOK, DecisionOK, NEW p \in Proc,
               SaveState(p)
        PROVE  DecisionOK'
    BY <1>25 DEF SaveState, TypeOK, DecisionOK, Undecided, Unfailed, Goto
  <1>26. ASSUME TypeOK, CurOK, LockOK, GitInMemory, BatchOK, MintedOK,
               RecordsOK, UnmintedOK, ShaOK, DecisionOK, NEW p \in Proc,
               AdvanceFinalized(p)
        PROVE  DecisionOK'
    <2>1. \A q \in Proc : Undecided(q) => cur[q] # cur[p]
      BY <1>26 DEF AdvanceFinalized, DecisionOK, GitInMemory
    <2>2. \A q \in Proc \ {p} :
             Undecided(q) => manifest'[cur[q]].sha = manifest[cur[q]].sha
      BY <2>1, <1>26 DEF AdvanceFinalized, Advance, TypeOK, CurOK, HasRun,
         Undecided
    <2> QED
      BY <2>2, <1>26, LeaveDecision DEF AdvanceFinalized
  <1>27. ASSUME TypeOK, CurOK, LockOK, GitInMemory, BatchOK, MintedOK,
               RecordsOK, UnmintedOK, ShaOK, DecisionOK, NEW p \in Proc,
               FailRecord(p)
        PROVE  DecisionOK'
    BY <1>27 DEF FailRecord, TypeOK, DecisionOK, Undecided, Unfailed,
       LockOK, Locked, CurOK, HasRun, Goto
  <1>28. ASSUME TypeOK, CurOK, LockOK, GitInMemory, BatchOK, MintedOK,
               RecordsOK, UnmintedOK, ShaOK, DecisionOK, NEW p \in Proc,
               Dispose(p)
        PROVE  DecisionOK'
    <2>1. CASE Exit(p)
      BY <1>28, <2>1, LeaveDecision DEF Dispose
    <2>2. CASE ~Exit(p)
      BY <1>28, <2>2 DEF Dispose, TypeOK, DecisionOK, Undecided, Unfailed, Goto
    <2> QED
      BY <2>1, <2>2
  <1>29. ASSUME TypeOK, CurOK, LockOK, GitInMemory, BatchOK, MintedOK,
               RecordsOK, UnmintedOK, ShaOK, DecisionOK, NEW p \in Proc,
               FailLoad(p)
        PROVE  DecisionOK'
    BY <1>29 DEF FailLoad, TypeOK, DecisionOK, Undecided, Unfailed, Goto
  <1>30. ASSUME TypeOK, CurOK, LockOK, GitInMemory, BatchOK, MintedOK,
               RecordsOK, UnmintedOK, ShaOK, DecisionOK, NEW p \in Proc,
               FailSave(p)
        PROVE  DecisionOK'
    BY <1>30 DEF FailSave, TypeOK, DecisionOK, Undecided, Unfailed, Goto
  <1>31. ASSUME TypeOK, CurOK, LockOK, GitInMemory, BatchOK, MintedOK,
               RecordsOK, UnmintedOK, ShaOK, DecisionOK, NEW p \in Proc,
               ReturnEvent(p)
        PROVE  DecisionOK'
    BY <1>31 DEF ReturnEvent, TypeOK, DecisionOK, Undecided, Unfailed, Goto
  <1>32. ASSUME TypeOK, CurOK, LockOK, GitInMemory, BatchOK, MintedOK,
               RecordsOK, UnmintedOK, ShaOK, DecisionOK, NEW p \in Proc,
               RemoveRun(p)
        PROVE  DecisionOK'
    <2> SUFFICES ASSUME NEW q \in Proc
                 PROVE  /\ Undecided(q)' => cur'[q] \notin published'
                                            /\ ~manifest'[cur'[q]].sha
                        /\ Unfailed(q)' => records'[cur'[q]] = {}
      BY DEF DecisionOK
    <2>1. UNCHANGED <<published, records>> /\ Resume(p)
      BY <1>32 DEF RemoveRun
    <2>2. CASE q = p
      BY <2>1, <2>2, <1>32, LeaveEffect DEF Undecided, Unfailed
    <2>3. CASE q # p
      <3>1. pc'[q] = pc[q] /\ cur'[q] = cur[q]
        BY <2>1, <2>3, <1>32, LeaveEffect
      <3>2. Undecided(q) => cur[q] \in Run /\ ~manifest[cur[q]].sha
        BY <1>32 DEF DecisionOK, CurOK, HasRun, Undecided
      <3>3. Undecided(q) => ~manifest'[cur[q]].sha
        BY <3>2, <1>32 DEF RemoveRun, TypeOK, NoManifest
      <3> QED
        BY <2>1, <3>1, <3>3, <1>32 DEF DecisionOK, Undecided, Unfailed
    <2> QED
      BY <2>2, <2>3
  <1>33. ASSUME TypeOK, CurOK, LockOK, GitInMemory, BatchOK, MintedOK, RecordsOK, UnmintedOK, ShaOK, DecisionOK, UNCHANGED vars
        PROVE  DecisionOK'
    BY <1>33 DEF vars, TypeOK, DecisionOK, Undecided, Unfailed
  <1> QED
    BY <1>1, <1>2, <1>3, <1>4, <1>5, <1>6, <1>7, <1>8, <1>9, <1>10, <1>11,
       <1>12, <1>13, <1>14, <1>15, <1>16, <1>17, <1>18, <1>19, <1>20, <1>21,
       <1>22, <1>23, <1>24, <1>25, <1>26, <1>27, <1>28, <1>29, <1>30, <1>31,
       <1>32, <1>33 DEF Next, Environment, Step, Recover, Claim, Consolidate, Finalize, GiveBack

LEMMA ConflictStep ==
    TypeOK /\ CurOK /\ LockOK /\ GitInMemory /\ DecisionOK /\ ConflictSparesBudget /\ [Next]_vars => ConflictSparesBudget'
  <1>1. ASSUME TypeOK, CurOK, LockOK, GitInMemory, DecisionOK,
               ConflictSparesBudget, NEW e \in Event, CheckKey(e)
        PROVE  ConflictSparesBudget'
    BY <1>1 DEF CheckKey, TypeOK, ConflictSparesBudget
  <1>2. ASSUME TypeOK, CurOK, LockOK, GitInMemory, DecisionOK,
               ConflictSparesBudget, NEW e \in Event, Append(e)
        PROVE  ConflictSparesBudget'
    BY <1>2 DEF Append, TypeOK, ConflictSparesBudget
  <1>3. ASSUME TypeOK, CurOK, LockOK, GitInMemory, DecisionOK,
               ConflictSparesBudget, ForeignCommit
        PROVE  ConflictSparesBudget'
    BY <1>3 DEF ForeignCommit, TypeOK, ConflictSparesBudget
  <1>4. ASSUME TypeOK, CurOK, LockOK, GitInMemory, DecisionOK,
               ConflictSparesBudget, NEW p \in Proc, Crash(p)
        PROVE  ConflictSparesBudget'
    BY <1>4 DEF Crash, TypeOK, ConflictSparesBudget
  <1>5. ASSUME TypeOK, CurOK, LockOK, GitInMemory, DecisionOK,
               ConflictSparesBudget, NEW p \in Proc, RecoverBegin(p)
        PROVE  ConflictSparesBudget'
    BY <1>5 DEF RecoverBegin, TypeOK, ConflictSparesBudget
  <1>6. ASSUME TypeOK, CurOK, LockOK, GitInMemory, DecisionOK,
               ConflictSparesBudget, NEW p \in Proc, RecoverFinalize(p)
        PROVE  ConflictSparesBudget'
    BY <1>6 DEF RecoverFinalize, TypeOK, ConflictSparesBudget
  <1>7. ASSUME TypeOK, CurOK, LockOK, GitInMemory, DecisionOK,
               ConflictSparesBudget, NEW p \in Proc, RecoverReturn(p)
        PROVE  ConflictSparesBudget'
    BY <1>7 DEF RecoverReturn, TypeOK, ConflictSparesBudget
  <1>8. ASSUME TypeOK, CurOK, LockOK, GitInMemory, DecisionOK,
               ConflictSparesBudget, NEW p \in Proc, RecoverEnd(p)
        PROVE  ConflictSparesBudget'
    BY <1>8 DEF RecoverEnd, TypeOK, ConflictSparesBudget
  <1>9. ASSUME TypeOK, CurOK, LockOK, GitInMemory, DecisionOK,
               ConflictSparesBudget, NEW p \in Proc, NotDue(p)
        PROVE  ConflictSparesBudget'
    BY <1>9 DEF NotDue, TypeOK, ConflictSparesBudget
  <1>10. ASSUME TypeOK, CurOK, LockOK, GitInMemory, DecisionOK,
               ConflictSparesBudget, NEW p \in Proc, Trigger(p)
        PROVE  ConflictSparesBudget'
    BY <1>10 DEF Trigger, TypeOK, ConflictSparesBudget
  <1>11. ASSUME TypeOK, CurOK, LockOK, GitInMemory, DecisionOK,
               ConflictSparesBudget, NEW p \in Proc, ClaimNothing(p)
        PROVE  ConflictSparesBudget'
    BY <1>11 DEF ClaimNothing, TypeOK, ConflictSparesBudget
  <1>12. ASSUME TypeOK, CurOK, LockOK, GitInMemory, DecisionOK,
               ConflictSparesBudget, NEW p \in Proc, ClaimSnapshot(p)
        PROVE  ConflictSparesBudget'
    BY <1>12 DEF ClaimSnapshot, TypeOK, ConflictSparesBudget
  <1>13. ASSUME TypeOK, CurOK, LockOK, GitInMemory, DecisionOK,
               ConflictSparesBudget, NEW p \in Proc, ClaimMove(p)
        PROVE  ConflictSparesBudget'
    BY <1>13 DEF ClaimMove, TypeOK, ConflictSparesBudget
  <1>14. ASSUME TypeOK, CurOK, LockOK, GitInMemory, DecisionOK,
               ConflictSparesBudget, NEW p \in Proc, ClaimManifest(p)
        PROVE  ConflictSparesBudget'
    BY <1>14 DEF ClaimManifest, TypeOK, ConflictSparesBudget, Advance,
       CurOK, HasRun
  <1>15. ASSUME TypeOK, CurOK, LockOK, GitInMemory, DecisionOK,
               ConflictSparesBudget, NEW p \in Proc, StampAttempt(p)
        PROVE  ConflictSparesBudget'
    BY <1>15 DEF StampAttempt, TypeOK, ConflictSparesBudget
  <1>16. ASSUME TypeOK, CurOK, LockOK, GitInMemory, DecisionOK,
               ConflictSparesBudget, NEW p \in Proc, BuildBundle(p)
        PROVE  ConflictSparesBudget'
    BY <1>16 DEF BuildBundle, TypeOK, ConflictSparesBudget
  <1>17. ASSUME TypeOK, CurOK, LockOK, GitInMemory, DecisionOK,
               ConflictSparesBudget, NEW p \in Proc, PlanAndApply(p)
        PROVE  ConflictSparesBudget'
    BY <1>17 DEF PlanAndApply, TypeOK, ConflictSparesBudget, Advance, CurOK,
       HasRun
  <1>18. ASSUME TypeOK, CurOK, LockOK, GitInMemory, DecisionOK,
               ConflictSparesBudget, NEW p \in Proc, CommitWorktree(p)
        PROVE  ConflictSparesBudget'
    BY <1>18 DEF CommitWorktree, TypeOK, ConflictSparesBudget, DecisionOK,
       Unfailed, Advance, CurOK, HasRun
  <1>19. ASSUME TypeOK, CurOK, LockOK, GitInMemory, DecisionOK,
               ConflictSparesBudget, NEW p \in Proc, Reject(p)
        PROVE  ConflictSparesBudget'
    BY <1>19 DEF Reject, TypeOK, ConflictSparesBudget
  <1>20. ASSUME TypeOK, CurOK, LockOK, GitInMemory, DecisionOK,
               ConflictSparesBudget, NEW p \in Proc, CasPublish(p)
        PROVE  ConflictSparesBudget'
    BY <1>20 DEF CasPublish, TypeOK, ConflictSparesBudget, DecisionOK,
       Unfailed, CurOK, HasRun
  <1>21. ASSUME TypeOK, CurOK, LockOK, GitInMemory, DecisionOK,
               ConflictSparesBudget, NEW p \in Proc, CasConflict(p)
        PROVE  ConflictSparesBudget'
    BY <1>21 DEF CasConflict, TypeOK, ConflictSparesBudget
  <1>22. ASSUME TypeOK, CurOK, LockOK, GitInMemory, DecisionOK,
               ConflictSparesBudget, NEW p \in Proc, AdvancePublished(p)
        PROVE  ConflictSparesBudget'
    BY <1>22 DEF AdvancePublished, TypeOK, ConflictSparesBudget,
       GitInMemory, Advance, CurOK, HasRun
  <1>23. ASSUME TypeOK, CurOK, LockOK, GitInMemory, DecisionOK,
               ConflictSparesBudget, NEW p \in Proc, LoadState(p)
        PROVE  ConflictSparesBudget'
    BY <1>23 DEF LoadState, TypeOK, ConflictSparesBudget
  <1>24. ASSUME TypeOK, CurOK, LockOK, GitInMemory, DecisionOK,
               ConflictSparesBudget, NEW p \in Proc, Drain(p)
        PROVE  ConflictSparesBudget'
    BY <1>24 DEF Drain, TypeOK, ConflictSparesBudget
  <1>25. ASSUME TypeOK, CurOK, LockOK, GitInMemory, DecisionOK,
               ConflictSparesBudget, NEW p \in Proc, SaveState(p)
        PROVE  ConflictSparesBudget'
    BY <1>25 DEF SaveState, TypeOK, ConflictSparesBudget
  <1>26. ASSUME TypeOK, CurOK, LockOK, GitInMemory, DecisionOK,
               ConflictSparesBudget, NEW p \in Proc, AdvanceFinalized(p)
        PROVE  ConflictSparesBudget'
    BY <1>26 DEF AdvanceFinalized, TypeOK, ConflictSparesBudget,
       GitInMemory, Advance, CurOK, HasRun
  <1>27. ASSUME TypeOK, CurOK, LockOK, GitInMemory, DecisionOK,
               ConflictSparesBudget, NEW p \in Proc, FailRecord(p)
        PROVE  ConflictSparesBudget'
    BY <1>27 DEF FailRecord, TypeOK, ConflictSparesBudget, DecisionOK,
       Undecided, CurOK, HasRun
  <1>28. ASSUME TypeOK, CurOK, LockOK, GitInMemory, DecisionOK,
               ConflictSparesBudget, NEW p \in Proc, Dispose(p)
        PROVE  ConflictSparesBudget'
    BY <1>28 DEF Dispose, TypeOK, ConflictSparesBudget
  <1>29. ASSUME TypeOK, CurOK, LockOK, GitInMemory, DecisionOK,
               ConflictSparesBudget, NEW p \in Proc, FailLoad(p)
        PROVE  ConflictSparesBudget'
    BY <1>29 DEF FailLoad, TypeOK, ConflictSparesBudget
  <1>30. ASSUME TypeOK, CurOK, LockOK, GitInMemory, DecisionOK,
               ConflictSparesBudget, NEW p \in Proc, FailSave(p)
        PROVE  ConflictSparesBudget'
    BY <1>30 DEF FailSave, TypeOK, ConflictSparesBudget
  <1>31. ASSUME TypeOK, CurOK, LockOK, GitInMemory, DecisionOK,
               ConflictSparesBudget, NEW p \in Proc, ReturnEvent(p)
        PROVE  ConflictSparesBudget'
    BY <1>31 DEF ReturnEvent, TypeOK, ConflictSparesBudget
  <1>32. ASSUME TypeOK, CurOK, LockOK, GitInMemory, DecisionOK,
               ConflictSparesBudget, NEW p \in Proc, RemoveRun(p)
        PROVE  ConflictSparesBudget'
    BY <1>32 DEF RemoveRun, TypeOK, ConflictSparesBudget, NoManifest
  <1>33. ASSUME TypeOK, CurOK, LockOK, GitInMemory, DecisionOK, ConflictSparesBudget, UNCHANGED vars
        PROVE  ConflictSparesBudget'
    BY <1>33 DEF vars, TypeOK, ConflictSparesBudget
  <1> QED
    BY <1>1, <1>2, <1>3, <1>4, <1>5, <1>6, <1>7, <1>8, <1>9, <1>10, <1>11,
       <1>12, <1>13, <1>14, <1>15, <1>16, <1>17, <1>18, <1>19, <1>20, <1>21,
       <1>22, <1>23, <1>24, <1>25, <1>26, <1>27, <1>28, <1>29, <1>30, <1>31,
       <1>32, <1>33 DEF Next, Environment, Step, Recover, Claim, Consolidate, Finalize, GiveBack

-----------------------------------------------------------------------------
BInv == /\ RecordsOK /\ UnmintedOK /\ ShaOK /\ DecisionOK
        /\ TerminalOnlyWhenSpent /\ ConflictSparesBudget

LEMMA BInvInit == Init => BInv
  <1> SUFFICES ASSUME Init PROVE BInv
    OBVIOUS
  <1>1. RecordsOK /\ UnmintedOK /\ ShaOK /\ DecisionOK /\ ConflictSparesBudget
    BY DEF Init, RecordsOK, UnmintedOK, ShaOK, DecisionOK, Undecided,
       Unfailed, ConflictSparesBudget, NoManifest
  <1>2. TerminalOnlyWhenSpent
    BY AddressableAssumption
       DEF Init, TerminalOnlyWhenSpent, Unwritten, Failed, Place
  <1> QED
    BY <1>1, <1>2 DEF BInv

LEMMA BInvStep == IInv /\ BInv /\ [Next]_vars => BInv'
  BY RecordsStep, UnmintedStep, ShaStep, DecisionStep, TerminalStep,
     ConflictStep
     DEF IInv, BInv

LEMMA BInvAlways == Spec => []BInv
  BY BInvInit, BInvStep, IInvAlways, PTL DEF Spec

\* However many processes: an event with a valid address is in failed/ only
\* when at least curator.max_attempts error records name it, so a crash, a
\* recovery or a lost race never spends the budget of _fail.
THEOREM TerminalNeedsBudget == Spec => []TerminalOnlyWhenSpent
  <1>1. BInv => TerminalOnlyWhenSpent
    BY DEF BInv
  <1> QED
    BY <1>1, BInvAlways, PTL

\* However many processes: a run whose commit exists, on the branch or lost
\* to a concurrent commit, has no error record, so its events pay nothing.
THEOREM CommitsChargeNothing == Spec => []ConflictSparesBudget
  <1>1. BInv => ConflictSparesBudget
    BY DEF BInv
  <1> QED
    BY <1>1, BInvAlways, PTL

\* Both together: the budget of a capture is spent by its own failures alone.
THEOREM BudgetHolds == Spec => []BudgetKept
  <1>1. TerminalOnlyWhenSpent /\ ConflictSparesBudget => BudgetKept
    BY DEF BudgetKept
  <1> QED
    BY <1>1, TerminalNeedsBudget, CommitsChargeNothing, PTL
-----------------------------------------------------------------------------
(***************************************************************************)
(* What recover() gives when one process curates at a time, with a crash   *)
(* between any two steps: every event and every key is published at most   *)
(* once, a run is settled before the next one claims, and the spool        *)
(* implements Delivery.                                                    *)
(***************************************************************************)

\* One invocation loop; how often it crashes and starts again is free.
OneProcess == \A p, q \in Proc : p = q

(* What is on disk.                                                        *)
\* The events of a published run never go back to where a claim takes from.
PublishedHeld ==
    \A r \in published : \A e \in job[r].events :
        spool[e] \in {Processing(r), Processed}
PublishedMarked ==
    \A r \in published : manifest[r].sha /\ manifest[r].phase # "none"
BatchKeys ==
    \A r \in Run : \A d, e \in job[r].events :
        KeyOf[d] = KeyOf[e] /\ KeyOf[d] # NoKey => d = e
DiskInv ==
    PublishedHeld /\ PublishedMarked /\ BatchKeys /\ FinalizedIsSettled /\ PublishedOnce

(* What the process relies on.                                             *)
Claimed(p) == pc[p] \in {"claim", "stamp", "bundle", "plan", "gates", "cas"}
UndoneOK(p) ==
    Claimed(p) \/ pc[p] \in {"fail", "dispose", "failsave", "clear", "return"} =>
        cur[p] \notin published
\* The manifests recover() read are still what it read.
SnapOK(p) ==
    /\ cur[p] \notin backlog[p]
    /\ \A r \in backlog[p] : snap[p][r] = manifest[r]
\* Beside the run in hand and those recover() has yet to see, all is settled.
SettledOK(p) ==
    /\ pc[p] # "idle" =>
           \A r \in Run : \/ manifest[r].phase \in {"none", "finalized"}
                         \/ r \in backlog[p] \/ r = cur[p]
    /\ pc[p] \in {"idle", "recover", "decide", "snapshot"} => cur[p] = 0
    /\ pc[p] \notin {"recover", "load", "drain", "finalize", "return"} =>
           backlog[p] = {}
\* The copy of state.json that is saved back is not stale.
MemOK(p) ==
    /\ pc[p] \in {"claim", "stamp", "failsave"} => mem[p] = st
    /\ pc[p] = "drain" => /\ mem[p].keys = st.keys
                          /\ mem[p].runs = st.runs \cup {cur[p]}
KeysOK(p) ==
    Claimed(p) => /\ job[cur[p]].events # {}
                  /\ \A e \in job[cur[p]].events : KeyOf[e] # NoKey => KeyOf[e] \notin st.keys
InHand(p) ==
    /\ pc[p] = "claim" => \A e \in todo[p] : spool[e] = Inbox
    /\ pc[p] \in {"plan", "gates", "cas"} =>
           \A e \in job[cur[p]].events : spool[e] = Processing(cur[p])
    /\ pc[p] = "cas" => manifest[cur[p]].sha /\ manifest[cur[p]].phase # "none"
DrainOK(p) ==
    /\ pc[p] = "drain" => \A e \in job[cur[p]].events : spool[e] = Processed \/ e \in todo[p]
    /\ pc[p] = "finalize" =>
           /\ cur[p] \in st.runs
           /\ \A e \in job[cur[p]].events :
                 spool[e] = Processed /\ (KeyOf[e] # NoKey => KeyOf[e] \in st.keys)
LocalInv(p) ==
    /\ UndoneOK(p) /\ SnapOK(p) /\ SettledOK(p) /\ MemOK(p)
    /\ KeysOK(p) /\ InHand(p) /\ DrainOK(p)
OInv == IInv /\ UnmintedOK /\ DiskInv /\ \A p \in Proc : LocalInv(p)

-----------------------------------------------------------------------------
\* A claim takes pending events of keys not delivered, one per key.
LEMMA SelectedFacts ==
    /\ \A e \in Selected : spool[e] = Inbox /\ (KeyOf[e] # NoKey => KeyOf[e] \notin st.keys)
    /\ \A d, e \in Selected : KeyOf[d] = KeyOf[e] /\ KeyOf[d] # NoKey => d = e
  <1>1. \A e \in Selected : e \in Deduped(Pending, st.keys)
    BY DEF Selected, CapHead
  <1>2. \A e \in Selected : e \in Event /\ e \in Nat
    BY <1>1, EventAssumption DEF Deduped, Pending
  <1>3. \A d, e \in Selected : KeyOf[d] = KeyOf[e] /\ KeyOf[d] # NoKey => d <= e
    BY <1>1 DEF Deduped
  <1> QED
    BY <1>1, <1>2, <1>3 DEF Deduped, Pending

\* Who leaves has nothing in hand.
LEMMA Left ==
    ASSUME TypeOK, NEW p \in Proc, Exit(p)
    PROVE  LocalInv(p)' /\ pc'[p] = "idle"
  BY DEF TypeOK, Exit, Goto, LocalInv, Claimed, UndoneOK, SnapOK, SettledOK,
         MemOK, KeysOK, InHand, DrainOK

\* The environment's steps.
LEMMA CaptureKeeps ==
    ASSUME OInv, NEW e \in Event, CheckKey(e) \/ Append(e)
    PROVE  DiskInv' /\ \A p \in Proc : LocalInv(p)'
  <1>1. /\ spool[e] \in {Unwritten, Writing} /\ spool'[e] \in {Writing, Inbox}
        /\ \A d \in Event : d # e => spool'[d] = spool[d]
        /\ UNCHANGED <<manifest, job, records, st, published, nextRun, pc, cur, todo, backlog, snap, mem>>
    BY DEF CheckKey, Append, OInv, IInv, TypeOK
  <1>2. /\ \A r \in Run : job[r].events \subseteq Event
        /\ published \subseteq Run /\ \A p \in Proc : todo[p] \subseteq Event /\ (HasRun(p) => cur[p] \in Run)
    BY DEF OInv, IInv, TypeOK, CurOK
  <1>3. \A d \in Event, r \in Run : spool[d] \in {Inbox, Processed, Processing(r)} => spool'[d] = spool[d]
    BY <1>1 DEF Inbox, Processed, Processing, Unwritten, Writing, Place
  <1>4. DiskInv'
    BY <1>1, <1>2, <1>3 DEF OInv, DiskInv, PublishedHeld, PublishedMarked, BatchKeys, FinalizedIsSettled,
       PublishedOnce, PublishedAtMostOnce, OnePublishedPerKey
  <1>5. ASSUME NEW p \in Proc PROVE LocalInv(p)'
    <2>1. LocalInv(p)
      BY DEF OInv
    <2>2. UndoneOK(p)' /\ SnapOK(p)' /\ SettledOK(p)' /\ MemOK(p)' /\ KeysOK(p)'
      BY <2>1, <1>1 DEF LocalInv, Claimed, UndoneOK, SnapOK, SettledOK, MemOK, KeysOK
    <2>3. InHand(p)' /\ DrainOK(p)'
      BY <2>1, <1>1, <1>2, <1>3 DEF LocalInv, InHand, DrainOK, HasRun
    <2> QED
      BY <2>2, <2>3 DEF LocalInv
  <1> QED
    BY <1>4, <1>5

LEMMA DiskSame ==
    ASSUME DiskInv, UNCHANGED <<spool, manifest, job, st, published>>
    PROVE  DiskInv'
  BY DEF DiskInv, PublishedHeld, PublishedMarked, BatchKeys, FinalizedIsSettled,
     PublishedOnce, PublishedAtMostOnce, OnePublishedPerKey

\* The hypotheses of the lemmas below, for the process that moves.
LEMMA Facts ==
    ASSUME OInv, NEW p \in Proc
    PROVE  /\ TypeOK /\ DiskInv /\ LocalInv(p) /\ NoEventDestroyed
           /\ \A r \in Run : r >= nextRun => r \notin published /\ manifest[r].phase = "none"
           /\ HasRun(p) => cur[p] \in Run
           /\ pc[p] = "snapshot" => nextRun \in Run
           /\ pc[p] \in {"publish", "load", "drain", "finalize"} => cur[p] \in published
           /\ pc[p] = "claim" => manifest[cur[p]].phase = "none"
           /\ published \subseteq Run /\ \A r \in Run : job[r].events \subseteq Event
           /\ todo[p] \subseteq Event /\ 0 \notin Run
  BY RunIsNat DEF OInv, IInv, CurOK, LockOK, GitInMemory, MintedOK, ClaimHidden, UnmintedOK, TypeOK

LEMMA ResumeKeeps ==
    ASSUME OInv, NEW p \in Proc, HasRun(p), Resume(p),
           manifest'[cur[p]].phase \in {"none", "finalized"},
           \A r \in Run : r # cur[p] => manifest'[r] = manifest[r]
    PROVE  LocalInv(p)'
  <1>1. CASE lock = p
    BY <1>1, Left DEF Resume, OInv, IInv
  <1>2. CASE lock # p
    <2>1. /\ pc'[p] = "recover" /\ cur'[p] = 0 /\ backlog'[p] = backlog[p] /\ snap'[p] = snap[p]
          /\ backlog[p] \subseteq Run
      BY <1>2, Facts DEF Resume, Goto, TypeOK
    <2>2. LocalInv(p) /\ 0 \notin Run /\ pc[p] # "idle"
      BY Facts DEF HasRun
    <2>3. SnapOK(p)' /\ SettledOK(p)'
      BY <2>1, <2>2 DEF LocalInv, SnapOK, SettledOK
    <2> QED
      BY <2>1, <2>3 DEF LocalInv, Claimed, UndoneOK, MemOK, KeysOK, InHand, DrainOK
  <1> QED
    BY <1>1, <1>2
-----------------------------------------------------------------------------
(* One lemma per step of the process.                                      *)
LEMMA LeavingKeeps ==
    ASSUME OInv, NEW p \in Proc, Crash(p) \/ NotDue(p) \/ ClaimNothing(p)
    PROVE  DiskInv' /\ LocalInv(p)'
  BY Facts, Left, DiskSame DEF Crash, NotDue, ClaimNothing

LEMMA RecoverBeginKeeps ==
    ASSUME OInv, NEW p \in Proc, RecoverBegin(p) PROVE DiskInv' /\ LocalInv(p)'
  <1>1. DiskInv'
    BY Facts, DiskSame DEF RecoverBegin
  <1>2. /\ pc'[p] = "recover" /\ backlog'[p] = InFlight /\ snap'[p] = manifest
        /\ cur'[p] = 0 /\ manifest' = manifest /\ 0 \notin Run
    BY Facts DEF RecoverBegin, Goto, TypeOK, LocalInv, SettledOK
  <1>3. InFlight = {r \in Run : manifest[r].phase # "none"}
    BY DEF InFlight
  <1>4. LocalInv(p)'
    BY <1>2, <1>3 DEF LocalInv, Claimed, UndoneOK, SnapOK, SettledOK, 
         MemOK, KeysOK, InHand, DrainOK
  <1> QED
    BY <1>1, <1>4

LEMMA RecoverFinalizeKeeps ==
    ASSUME OInv, NEW p \in Proc, RecoverFinalize(p) PROVE DiskInv' /\ LocalInv(p)'
  <1>1. DiskInv'
    BY Facts, DiskSame DEF RecoverFinalize
  <1>2. PICK r \in backlog[p] : cur'[p] = r /\ backlog'[p] = backlog[p] \ {r}
    BY Facts DEF RecoverFinalize, TypeOK
  <1>3. /\ pc'[p] = "load" /\ snap' = snap /\ manifest' = manifest
        /\ LocalInv(p) /\ pc[p] = "recover" /\ 0 \notin Run
    BY Facts DEF RecoverFinalize, Goto, TypeOK
  <1>4. SnapOK(p)' /\ SettledOK(p)'
    BY <1>2, <1>3 DEF LocalInv, SnapOK, SettledOK
  <1> QED
    BY <1>1, <1>3, <1>4 DEF LocalInv, Claimed, UndoneOK, MemOK, KeysOK, InHand, DrainOK

LEMMA RecoverReturnKeeps ==
    ASSUME OInv, NEW p \in Proc, RecoverReturn(p) PROVE DiskInv' /\ LocalInv(p)'
  <1>1. DiskInv'
    BY Facts, DiskSame DEF RecoverReturn
  <1>2. PICK r \in backlog[p] :
          cur'[p] = r /\ backlog'[p] = backlog[p] \ {r} /\ ~IsPublished(p, r)
    BY Facts DEF RecoverReturn, TypeOK
  <1>3. /\ pc'[p] = "return" /\ snap' = snap /\ manifest' = manifest /\ published' = published
        /\ LocalInv(p) /\ pc[p] = "recover" /\ DiskInv /\ 0 \notin Run
    BY Facts DEF RecoverReturn, Goto, TypeOK
  <1>4. r \notin published
    BY <1>2, <1>3 DEF IsPublished, PublishedMarked, DiskInv, LocalInv, SnapOK
  <1>5. SnapOK(p)' /\ SettledOK(p)'
    BY <1>2, <1>3 DEF LocalInv, SnapOK, SettledOK
  <1> QED
    BY <1>1, <1>2, <1>3, <1>4, <1>5
       DEF LocalInv, Claimed, UndoneOK, MemOK, KeysOK, InHand, DrainOK

LEMMA RecoverEndKeeps ==
    ASSUME OInv, NEW p \in Proc, RecoverEnd(p) PROVE DiskInv' /\ LocalInv(p)'
  <1>1. DiskInv'
    BY Facts, DiskSame DEF RecoverEnd
  <1>2. /\ pc'[p] = "decide" /\ cur' = cur /\ backlog' = backlog /\ manifest' = manifest
        /\ backlog[p] = {} /\ LocalInv(p) /\ pc[p] = "recover"
    BY Facts DEF RecoverEnd, Goto, TypeOK
  <1> QED
    BY <1>1, <1>2 DEF LocalInv, Claimed, UndoneOK, SnapOK, SettledOK, 
         MemOK, KeysOK, InHand, DrainOK

LEMMA TriggerKeeps ==
    ASSUME OInv, NEW p \in Proc, Trigger(p) PROVE DiskInv' /\ LocalInv(p)'
  <1>1. DiskInv'
    BY Facts, DiskSame DEF Trigger
  <1>2. CASE lock = NoProc
    <2>1. /\ pc'[p] = "snapshot" /\ UNCHANGED <<cur, backlog, manifest>>
          /\ LocalInv(p) /\ pc[p] = "decide"
      BY <1>2, Facts DEF Trigger, Goto, TypeOK
    <2> QED
      BY <1>1, <2>1 DEF LocalInv, Claimed, UndoneOK, SnapOK, SettledOK, 
         MemOK, KeysOK, InHand, DrainOK
  <1>3. CASE lock # NoProc
    BY <1>1, <1>3, Facts, Left DEF Trigger
  <1> QED
    BY <1>2, <1>3

LEMMA ClaimSnapshotKeeps ==
    ASSUME OInv, NEW p \in Proc, ClaimSnapshot(p) PROVE DiskInv' /\ LocalInv(p)'
  <1>1. /\ nextRun \in Run /\ nextRun \notin published /\ manifest[nextRun].phase = "none"
        /\ published \subseteq Run /\ DiskInv /\ LocalInv(p) /\ pc[p] = "snapshot" /\ 0 \notin Run
    BY Facts DEF ClaimSnapshot, TypeOK
  <1>2. /\ job'[nextRun].events = Selected
        /\ \A r \in Run : r # nextRun => job'[r] = job[r]
        /\ UNCHANGED <<spool, manifest, st, published, backlog>> /\ Selected # {}
        /\ pc'[p] = "claim" /\ cur'[p] = nextRun /\ todo'[p] = Selected /\ mem'[p] = st
    BY <1>1, Facts DEF ClaimSnapshot, Goto, TypeOK
  <1>3. DiskInv'
    BY <1>1, <1>2, SelectedFacts
       DEF DiskInv, PublishedHeld, PublishedMarked, BatchKeys, FinalizedIsSettled,
           PublishedOnce, PublishedAtMostOnce, OnePublishedPerKey
  <1>4. LocalInv(p)'
    BY <1>1, <1>2, SelectedFacts
       DEF LocalInv, Claimed, UndoneOK, SnapOK, SettledOK, MemOK, KeysOK, InHand, DrainOK
  <1> QED
    BY <1>3, <1>4

\* A file that moves, of an event no published run holds, is none of theirs.
LEMMA MoveKeepsDisk ==
    ASSUME DiskInv, NEW e \in Event, spool[e] # Processed,
           \A r \in published : spool[e] # Processing(r),
           \A d \in Event : d # e => spool'[d] = spool[d],
           UNCHANGED <<manifest, job, st, published>>,
           published \subseteq Run, \A r \in Run : job[r].events \subseteq Event
    PROVE  DiskInv'
  BY DEF DiskInv, PublishedHeld, PublishedMarked, BatchKeys, FinalizedIsSettled,
         PublishedOnce, PublishedAtMostOnce, OnePublishedPerKey

LEMMA ClaimMoveKeeps ==
    ASSUME OInv, NEW p \in Proc, ClaimMove(p) PROVE DiskInv' /\ LocalInv(p)'
  <1>1. PICK e \in todo[p] : /\ spool' = [spool EXCEPT ![e] = Processing(cur[p])]
                             /\ todo' = [todo EXCEPT ![p] = @ \ {e}]
    BY DEF ClaimMove
  <1>2. /\ pc[p] = "claim" /\ LocalInv(p) /\ DiskInv /\ e \in Event
        /\ spool \in [Event -> [dir : {"unwritten", "writing", "inbox", "processing",
                                       "processed", "failed", "destroyed"}, run : {0} \cup Run]]
        /\ published \subseteq Run /\ \A r \in Run : job[r].events \subseteq Event
        /\ UNCHANGED <<manifest, job, st, published, pc, cur, backlog, snap, mem>>
    BY Facts DEF ClaimMove, TypeOK
  <1>3. spool[e] = Inbox /\ Inbox # Processed /\ \A r \in Run : Inbox # Processing(r)
    BY <1>2 DEF LocalInv, InHand, Inbox, Processed, Processing, Place
  <1>4. \A d \in Event : d # e => spool'[d] = spool[d]
    BY <1>1, <1>2
  <1>5. DiskInv'
    BY <1>2, <1>3, <1>4, MoveKeepsDisk
  <1>6. todo'[p] = todo[p] \ {e} /\ todo[p] \subseteq Event
    BY <1>1, Facts DEF TypeOK
  <1>7. LocalInv(p)'
    BY <1>2, <1>4, <1>6
       DEF LocalInv, Claimed, UndoneOK, SnapOK, SettledOK, MemOK, KeysOK, InHand, DrainOK
  <1> QED
    BY <1>5, <1>7

\* A manifest of an unpublished run is rewritten, and not to finalized.
LEMMA ManifestKeepsDisk ==
    ASSUME TypeOK, DiskInv, NEW r \in Run, NEW phase, NEW sha, Advance(r, phase, sha),
           phase # "finalized", phase # "none",
           r \in published => sha,
           UNCHANGED <<spool, job, st, published>>
    PROVE  DiskInv'
  <1>1. /\ manifest'[r] = [phase |-> phase, sha |-> sha]
        /\ \A q \in Run : q # r => manifest'[q] = manifest[q]
        /\ published \subseteq Run
    BY DEF TypeOK, Advance
  <1> QED
    BY <1>1 DEF DiskInv, PublishedHeld, PublishedMarked, BatchKeys, FinalizedIsSettled,
         PublishedOnce, PublishedAtMostOnce, OnePublishedPerKey

\* The steps that advance the manifest of the run in hand, up to published.
LEMMA AdvanceKeeps ==
    ASSUME OInv, NEW p \in Proc,
           ClaimManifest(p) \/ PlanAndApply(p) \/ CommitWorktree(p) \/ AdvancePublished(p)
    PROVE  DiskInv' /\ LocalInv(p)'
  <1>1. /\ TypeOK /\ DiskInv /\ LocalInv(p) /\ cur[p] \in Run
        /\ pc[p] = "publish" => cur[p] \in published
        /\ pc[p] \in {"claim", "plan", "gates"} => cur[p] \notin published
    BY Facts DEF LocalInv, UndoneOK, Claimed, HasRun, ClaimManifest, PlanAndApply,
                 CommitWorktree, AdvancePublished
  <1>2. UNCHANGED <<spool, job, st, published, cur, todo, backlog, snap, mem>>
    BY DEF ClaimManifest, PlanAndApply, CommitWorktree, AdvancePublished
  <1>3. \/ pc[p] = "claim" /\ Advance(cur[p], "claimed", FALSE) /\ pc'[p] = "stamp"
        \/ pc[p] = "plan" /\ Advance(cur[p], "applied", FALSE) /\ pc'[p] = "gates"
        \/ pc[p] = "gates" /\ Advance(cur[p], "applied", TRUE) /\ pc'[p] = "cas"
        \/ pc[p] = "publish" /\ Advance(cur[p], "published", TRUE) /\ pc'[p] = "load"
    BY <1>1 DEF ClaimManifest, PlanAndApply, CommitWorktree, AdvancePublished, Goto, TypeOK
  <1>4. DiskInv'
    BY <1>1, <1>2, <1>3, ManifestKeepsDisk
  <1>5. /\ \A q \in Run : q # cur[p] => manifest'[q] = manifest[q]
        /\ pc'[p] = "cas" => manifest'[cur[p]].sha /\ manifest'[cur[p]].phase # "none"
        /\ backlog[p] \subseteq Run
    BY <1>1, <1>3 DEF Advance, TypeOK
  <1>6. SnapOK(p)' /\ SettledOK(p)'
    BY <1>1, <1>2, <1>3, <1>5 DEF LocalInv, SnapOK, SettledOK
  <1>7. UndoneOK(p)' /\ MemOK(p)' /\ KeysOK(p)' /\ InHand(p)' /\ DrainOK(p)'
    BY <1>1, <1>2, <1>3, <1>5 DEF LocalInv, Claimed, UndoneOK, MemOK, KeysOK, InHand, DrainOK
  <1> QED
    BY <1>4, <1>6, <1>7 DEF LocalInv

\* The steps that change the control and the locals alone, or save the copy back.
LEMMA StampKeeps ==
    ASSUME OInv, NEW p \in Proc, StampAttempt(p) \/ FailSave(p)
    PROVE  DiskInv' /\ LocalInv(p)'
  <1>1. /\ LocalInv(p) /\ DiskInv /\ mem[p] = st /\ st' = mem[p]
        /\ UNCHANGED <<spool, manifest, job, published, cur, todo, backlog, snap, mem>>
        /\ \/ pc[p] = "stamp" /\ pc'[p] = "bundle"
           \/ pc[p] = "failsave" /\ pc'[p] = "clear"
    BY Facts DEF StampAttempt, FailSave, Goto, TypeOK, LocalInv, MemOK
  <1>2. LocalInv(p)'
    BY <1>1 DEF LocalInv, Claimed, UndoneOK, SnapOK, SettledOK, MemOK, KeysOK, InHand, DrainOK
  <1> QED
    BY <1>1, <1>2, DiskSame

LEMMA BuildBundleKeeps ==
    ASSUME OInv, NEW p \in Proc, BuildBundle(p) PROVE DiskInv' /\ LocalInv(p)'
  <1>1. DiskInv'
    BY Facts, DiskSame DEF BuildBundle
  <1>2. CASE job[cur[p]].events \subseteq InRun(cur[p])
    <2>1. /\ LocalInv(p) /\ pc[p] = "bundle" /\ pc'[p] = "plan"
          /\ UNCHANGED <<spool, manifest, job, st, published, cur, todo, backlog, snap, mem>>
          /\ \A e \in job[cur[p]].events : spool[e] = Processing(cur[p])
      BY <1>2, Facts DEF BuildBundle, Goto, TypeOK, InRun
    <2>2. LocalInv(p)'
      BY <2>1 DEF LocalInv, Claimed, UndoneOK, SnapOK, SettledOK, MemOK, KeysOK, InHand, DrainOK
    <2> QED
      BY <1>1, <2>2
  <1>3. CASE ~(job[cur[p]].events \subseteq InRun(cur[p]))
    BY <1>1, <1>3, Facts, Left DEF BuildBundle
  <1> QED
    BY <1>2, <1>3

LEMMA RejectKeeps ==
    ASSUME OInv, NEW p \in Proc, Reject(p) \/ CasConflict(p) \/ FailRecord(p) \/ FailLoad(p)
    PROVE  DiskInv' /\ LocalInv(p)'
  <1>1. DiskInv'
    BY Facts, DiskSame DEF Reject, CasConflict, FailRecord, FailLoad
  <1>2. /\ LocalInv(p)
        /\ UNCHANGED <<spool, manifest, job, st, published, cur, backlog, snap>>
        /\ \/ pc[p] \in {"bundle", "plan", "gates"} /\ pc'[p] = "fail"
           \/ pc[p] = "cas" /\ pc'[p] = "return"
           \/ pc[p] = "fail" /\ pc'[p] = "dispose"
           \/ pc[p] = "dispose" /\ pc'[p] = "failsave" /\ mem'[p] = st
    BY Facts DEF Reject, CasConflict, FailRecord, FailLoad, Goto, TypeOK
  <1>3. LocalInv(p)'
    BY <1>2 DEF LocalInv, Claimed, UndoneOK, SnapOK, SettledOK, MemOK, KeysOK, InHand, DrainOK
  <1> QED
    BY <1>1, <1>3

\* The commit: what it publishes, no published run has, and no delivered key.
LEMMA CasPublishKeeps ==
    ASSUME OInv, NEW p \in Proc, CasPublish(p) PROVE DiskInv' /\ LocalInv(p)'
  <1> DEFINE c == cur[p]
  <1>1. /\ LocalInv(p) /\ DiskInv /\ c \in Run /\ pc[p] = "cas" /\ pc'[p] = "publish"
        /\ published' = published \cup {c} /\ published \subseteq Run
        /\ UNCHANGED <<spool, manifest, job, st, cur, todo, backlog, snap, mem>>
    BY Facts DEF CasPublish, Goto, TypeOK, HasRun
  <1>2. /\ \A e \in job[c].events : spool[e] = Processing(c)
        /\ \A e \in job[c].events : KeyOf[e] # NoKey => KeyOf[e] \notin st.keys
        /\ manifest[c].sha /\ manifest[c].phase # "none" /\ c \notin published
        /\ \A r \in Run : r = c \/ manifest[r].phase \in {"none", "finalized"}
    BY <1>1 DEF LocalInv, UndoneOK, SettledOK, KeysOK, InHand, Claimed
  <1>3. \A r \in published : \A e \in job[r].events :
          spool[e] = Processed /\ (KeyOf[e] # NoKey => KeyOf[e] \in st.keys)
    BY <1>1, <1>2 DEF DiskInv, PublishedMarked, FinalizedIsSettled
  <1>4. \A r \in published : \A d \in job[c].events : \A e \in job[r].events :
          d # e /\ ~(KeyOf[d] = KeyOf[e] /\ KeyOf[d] # NoKey)
    BY <1>2, <1>3 DEF Processing, Processed, Place
  <1>5. PublishedHeld' /\ PublishedMarked' /\ BatchKeys' /\ FinalizedIsSettled'
    BY <1>1, <1>2 DEF DiskInv, PublishedHeld, PublishedMarked, BatchKeys, FinalizedIsSettled
  <1>6. PublishedAtMostOnce'
    BY <1>1, <1>4 DEF DiskInv, PublishedOnce, PublishedAtMostOnce
  <1>7. OnePublishedPerKey'
    BY <1>1, <1>4 DEF DiskInv, PublishedOnce, OnePublishedPerKey, BatchKeys
  <1>8. LocalInv(p)'
    BY <1>1 DEF LocalInv, Claimed, UndoneOK, SnapOK, SettledOK, MemOK, KeysOK, InHand, DrainOK
  <1> QED
    BY <1>5, <1>6, <1>7, <1>8 DEF DiskInv, PublishedOnce

LEMMA LoadStateKeeps ==
    ASSUME OInv, NEW p \in Proc, LoadState(p) PROVE DiskInv' /\ LocalInv(p)'
  <1>1. DiskInv'
    BY Facts, DiskSame DEF LoadState
  <1>2. /\ LocalInv(p) /\ cur[p] \in published /\ pc[p] = "load" /\ pc'[p] = "drain"
        /\ UNCHANGED <<spool, manifest, job, st, published, cur, backlog, snap>>
        /\ todo'[p] = InRun(cur[p]) /\ mem'[p] = [st EXCEPT !.runs = @ \cup {cur[p]}]
        /\ DiskInv /\ st \in State /\ job[cur[p]].events \subseteq Event
    BY Facts DEF LoadState, Goto, TypeOK
  <1>3. mem'[p].keys = st.keys /\ mem'[p].runs = st.runs \cup {cur[p]}
    BY <1>2 DEF State
  <1>4. \A e \in job[cur[p]].events : spool[e] = Processed \/ e \in todo'[p]
    BY <1>2 DEF DiskInv, PublishedHeld, InRun
  <1>5. LocalInv(p)'
    BY <1>2, <1>3, <1>4
       DEF LocalInv, Claimed, UndoneOK, SnapOK, SettledOK, MemOK, KeysOK, InHand, DrainOK
  <1> QED
    BY <1>1, <1>5

LEMMA DrainKeeps ==
    ASSUME OInv, NEW p \in Proc, Drain(p) PROVE DiskInv' /\ LocalInv(p)'
  <1>1. PICK e \in todo[p] :
          IF spool[e] = Processing(cur[p])
          THEN /\ spool' = [spool EXCEPT ![e] = Processed]
               /\ todo' = [todo EXCEPT ![p] = @ \ {e}]
               /\ UNCHANGED <<lock, pc, cur, backlog, snap, mem>>
          ELSE Exit(p) /\ UNCHANGED spool
    BY DEF Drain
  <1>2. /\ pc[p] = "drain" /\ LocalInv(p) /\ DiskInv /\ e \in Event
        /\ published \subseteq Run /\ \A r \in Run : job[r].events \subseteq Event
        /\ UNCHANGED <<manifest, job, st, published>> /\ todo[p] \subseteq Event
        /\ cur[p] \in published
    BY Facts DEF Drain
  <1>3. CASE spool[e] = Processing(cur[p])
    <2>1. /\ spool'[e] = Processed /\ \A d \in Event : d # e => spool'[d] = spool[d]
          /\ todo'[p] = todo[p] \ {e} /\ UNCHANGED <<pc, cur, backlog, snap, mem>>
      BY <1>1, <1>2, <1>3, Facts DEF TypeOK
    <2>2. PublishedHeld' /\ FinalizedIsSettled'
      BY <1>2, <2>1 DEF DiskInv, PublishedHeld, FinalizedIsSettled
    <2>3. PublishedMarked' /\ BatchKeys' /\ PublishedOnce'
      BY <1>2 DEF DiskInv, PublishedMarked, BatchKeys, PublishedOnce, PublishedAtMostOnce,
                  OnePublishedPerKey
    <2>4. LocalInv(p)'
      BY <1>2, <2>1
         DEF LocalInv, Claimed, UndoneOK, SnapOK, SettledOK, MemOK, KeysOK, InHand, DrainOK
    <2> QED
      BY <2>2, <2>3, <2>4 DEF DiskInv
  <1>4. CASE spool[e] # Processing(cur[p])
    BY <1>1, <1>2, <1>4, Facts, Left, DiskSame
  <1> QED
    BY <1>3, <1>4

LEMMA SaveStateKeeps ==
    ASSUME OInv, NEW p \in Proc, SaveState(p) PROVE DiskInv' /\ LocalInv(p)'
  <1>1. /\ LocalInv(p) /\ DiskInv /\ pc[p] = "drain" /\ pc'[p] = "finalize" /\ todo[p] = {}
        /\ UNCHANGED <<spool, manifest, job, published, cur, todo, backlog, snap, mem>>
        /\ st' = [mem[p] EXCEPT !.keys = @ \cup DrainedKeys(cur[p])] /\ mem[p] \in State
    BY Facts DEF SaveState, Goto, TypeOK
  <1>2. /\ st'.keys = st.keys \cup DrainedKeys(cur[p])
        /\ st'.runs = st.runs \cup {cur[p]}
    BY <1>1 DEF LocalInv, MemOK, State
  <1>3. DiskInv'
    BY <1>1, <1>2
       DEF DiskInv, PublishedHeld, PublishedMarked, BatchKeys, FinalizedIsSettled,
           PublishedOnce, PublishedAtMostOnce, OnePublishedPerKey
  <1>4. \A e \in job[cur[p]].events :
           spool[e] = Processed /\ (KeyOf[e] # NoKey => KeyOf[e] \in DrainedKeys(cur[p]))
    BY <1>1 DEF LocalInv, DrainOK, DrainedKeys
  <1>5. LocalInv(p)'
    BY <1>1, <1>2, <1>4
       DEF LocalInv, Claimed, UndoneOK, SnapOK, SettledOK, MemOK, KeysOK, InHand, DrainOK
  <1> QED
    BY <1>3, <1>5

LEMMA AdvanceFinalizedKeeps ==
    ASSUME OInv, NEW p \in Proc, AdvanceFinalized(p) PROVE DiskInv' /\ LocalInv(p)'
  <1>1. /\ TypeOK /\ LocalInv(p) /\ DiskInv /\ cur[p] \in Run /\ HasRun(p) /\ Resume(p)
        /\ cur[p] \in published /\ pc[p] = "finalize" /\ published \subseteq Run
        /\ UNCHANGED <<spool, job, st, published>> /\ Advance(cur[p], "finalized", TRUE)
    BY Facts DEF AdvanceFinalized, HasRun
  <1>2. /\ manifest'[cur[p]] = [phase |-> "finalized", sha |-> TRUE]
        /\ \A r \in Run : r # cur[p] => manifest'[r] = manifest[r]
    BY <1>1 DEF Advance, TypeOK
  <1>3. DiskInv'
    BY <1>1, <1>2
       DEF DiskInv, PublishedHeld, PublishedMarked, BatchKeys, FinalizedIsSettled, LocalInv,
           DrainOK, PublishedOnce, PublishedAtMostOnce, OnePublishedPerKey
  <1> QED
    BY <1>1, <1>2, <1>3, ResumeKeeps

\* One event of a failed or returned run leaves the run directory.
LEMMA GiveBackKeeps ==
    ASSUME OInv, NEW p \in Proc, Dispose(p) \/ ReturnEvent(p)
    PROVE  DiskInv' /\ LocalInv(p)'
  <1> DEFINE moved ==
        /\ \E e \in todo[p] : \E to :
              spool' = IF spool[e] = Processing(cur[p]) THEN [spool EXCEPT ![e] = to] ELSE spool
        /\ UNCHANGED <<pc, cur, backlog, snap, mem>>
  <1>1. /\ pc[p] \in {"dispose", "return"} /\ LocalInv(p) /\ DiskInv /\ cur[p] \in Run
        /\ published \subseteq Run /\ \A r \in Run : job[r].events \subseteq Event
        /\ UNCHANGED <<manifest, job, st, published>> /\ todo[p] \subseteq Event
    BY Facts DEF Dispose, ReturnEvent, HasRun
  <1>2. CASE Exit(p) /\ UNCHANGED spool
    BY <1>1, <1>2, Facts, Left, DiskSame
  <1>3. CASE moved
    <2> PICK e \in todo[p] : \E to :
            spool' = IF spool[e] = Processing(cur[p]) THEN [spool EXCEPT ![e] = to] ELSE spool
      BY <1>3
    <2>1. PICK to :
            spool' = IF spool[e] = Processing(cur[p]) THEN [spool EXCEPT ![e] = to] ELSE spool
      OBVIOUS
    <2>2. UNCHANGED <<pc, cur, backlog, snap, mem>>
      BY <1>3
    <2>3. cur[p] \notin published
      BY <1>1 DEF LocalInv, UndoneOK
    <2>4. DiskInv'
      <3>1. CASE spool[e] = Processing(cur[p])
        <4>1. \A r \in published : spool[e] # Processing(r)
          BY <1>1, <2>3, <3>1 DEF Processing, Place
        <4>2. spool[e] # Processed
          BY <3>1 DEF Processing, Processed, Place
        <4>3. e \in Event /\ \A d \in Event : d # e => spool'[d] = spool[d]
          BY <1>1, <2>1, <3>1, Facts DEF TypeOK
        <4> QED
          BY <1>1, <4>1, <4>2, <4>3, MoveKeepsDisk
      <3>2. CASE spool[e] # Processing(cur[p])
        BY <1>1, <2>1, <3>2, DiskSame
      <3> QED
        BY <3>1, <3>2
    <2>5. LocalInv(p)'
      BY <1>1, <2>2
         DEF LocalInv, Claimed, UndoneOK, SnapOK, SettledOK, MemOK, KeysOK, InHand, DrainOK
    <2> QED
      BY <2>4, <2>5
  <1>4. moved \/ (Exit(p) /\ UNCHANGED spool)
    BY DEF Dispose, ReturnEvent
  <1> QED
    BY <1>2, <1>3, <1>4

LEMMA RemoveRunKeeps ==
    ASSUME OInv, NEW p \in Proc, RemoveRun(p) PROVE DiskInv' /\ LocalInv(p)'
  <1>1. /\ TypeOK /\ LocalInv(p) /\ DiskInv /\ cur[p] \in Run /\ HasRun(p) /\ Resume(p)
        /\ pc[p] \in {"clear", "return"} /\ todo[p] = {} /\ published \subseteq Run
        /\ UNCHANGED <<job, st, published>> /\ DisposalOK
        /\ manifest' = [manifest EXCEPT ![cur[p]] = NoManifest]
    BY Facts DEF RemoveRun, HasRun, OInv, IInv
  <1>2. /\ manifest'[cur[p]].phase = "none" /\ cur[p] \notin published
        /\ \A r \in Run : r # cur[p] => manifest'[r] = manifest[r]
    BY <1>1 DEF TypeOK, NoManifest, LocalInv, UndoneOK
  <1>3. \A e \in Event : spool[e] # Processing(cur[p])
    BY <1>1 DEF DisposalOK, Emptying
  <1>4. spool' = spool
    BY <1>1, <1>3 DEF RemoveRun, TypeOK
  <1>5. DiskInv'
    BY <1>1, <1>2, <1>4
       DEF DiskInv, PublishedHeld, PublishedMarked, BatchKeys, FinalizedIsSettled,
           PublishedOnce, PublishedAtMostOnce, OnePublishedPerKey
  <1> QED
    BY <1>1, <1>2, <1>5, ResumeKeeps
-----------------------------------------------------------------------------
(* Together.                                                               *)
LEMMA ProcessKeeps ==
    ASSUME OInv, NEW p \in Proc, Step(p) \/ Crash(p) PROVE DiskInv' /\ LocalInv(p)'
  BY LeavingKeeps, RecoverBeginKeeps, RecoverFinalizeKeeps, RecoverReturnKeeps, RecoverEndKeeps,
     TriggerKeeps, ClaimSnapshotKeeps, ClaimMoveKeeps, AdvanceKeeps, StampKeeps,
     BuildBundleKeeps, RejectKeeps, CasPublishKeeps, LoadStateKeeps, DrainKeeps, SaveStateKeeps,
     AdvanceFinalizedKeeps, GiveBackKeeps, RemoveRunKeeps
     DEF Step, Recover, Claim, Consolidate, Finalize, GiveBack

LEMMA OInvInit == Init => OInv
  <1> SUFFICES ASSUME Init PROVE OInv
    OBVIOUS
  <1>1. DiskInv
    BY DEF Init, DiskInv, PublishedHeld, PublishedMarked, BatchKeys, FinalizedIsSettled,
           PublishedOnce, PublishedAtMostOnce, OnePublishedPerKey, NoManifest
  <1>2. \A p \in Proc : LocalInv(p)
    BY DEF Init, LocalInv, Claimed, UndoneOK, SnapOK, SettledOK, MemOK, KeysOK, InHand, DrainOK
  <1>3. UnmintedOK
    BY DEF Init, UnmintedOK
  <1> QED
    BY <1>1, <1>2, <1>3, IInvInit DEF OInv

LEMMA OInvStep == ASSUME OneProcess PROVE OInv /\ [Next]_vars => OInv'
  <1> SUFFICES ASSUME OInv, [Next]_vars PROVE DiskInv' /\ \A p \in Proc : LocalInv(p)'
    BY IInvStep, UnmintedStep DEF OInv, IInv
  <1>1. CASE \E e \in Event : CheckKey(e) \/ Append(e)
    BY <1>1, CaptureKeeps
  <1>2. CASE \E p \in Proc : Step(p) \/ Crash(p)
    BY <1>2, ProcessKeeps DEF OneProcess
  <1>3. CASE ForeignCommit \/ UNCHANGED vars
    <2>1. UNCHANGED <<spool, manifest, job, st, published, pc, cur, todo, backlog, snap, mem>>
      BY <1>3 DEF ForeignCommit, vars
    <2>2. ASSUME NEW p \in Proc PROVE LocalInv(p)'
      BY <2>1 DEF OInv, LocalInv, Claimed, UndoneOK, SnapOK, SettledOK, MemOK, KeysOK, InHand,
                  DrainOK
    <2> QED
      BY <2>1, <2>2, DiskSame DEF OInv
  <1> QED
    BY <1>1, <1>2, <1>3 DEF Next, Environment

LEMMA OInvAlways == ASSUME OneProcess PROVE Spec => []OInv
  BY OInvInit, OInvStep, PTL DEF Spec

\* With one curating process, however often it crashes and recovers, no event is in
\* two commits of the curated branch, and no two of one writer:event_key are.
THEOREM DeliveredOnce == ASSUME OneProcess PROVE Spec => []PublishedOnce
  <1>1. OInv => PublishedOnce
    BY DEF OInv, DiskInv
  <1> QED
    BY <1>1, OInvAlways, PTL

\* With one curating process, a finalized manifest means that the run is recorded and
\* drained, and no claim begins while an earlier run is half-way.
THEOREM SettledBeforeClaim == ASSUME OneProcess PROVE Spec => []RunsSettle
  <1>1. OInv => RunsSettle
    <2> SUFFICES ASSUME OInv, NEW p \in Proc, pc[p] \in {"decide", "snapshot", "claim"},
                        NEW r \in Run
                 PROVE  manifest[r].phase \in {"none", "finalized"}
      BY DEF RunsSettle, RecoverySettles, OInv, DiskInv
    <2> QED
      BY Facts DEF LocalInv, SettledOK
  <1> QED
    BY <1>1, OInvAlways, PTL
-----------------------------------------------------------------------------
(* The refinement: each step is a step of Delivery, or none it sees.       *)
Unseen == UNCHANGED <<CapturedEvents, DeliveredEvents, TerminalEvents>>

LEMMA SameBranch ==
    ASSUME UNCHANGED <<job, published>> PROVE DeliveredEvents' = DeliveredEvents
  BY DEF DeliveredEvents

LEMMA NothingSeen ==
    ASSUME UNCHANGED <<spool, job, published>> PROVE Unseen
  BY DEF Unseen, CapturedEvents, DeliveredEvents, TerminalEvents

\* A file that moves inside the spool changes what is captured and what is terminal by
\* its own event only.
LEMMA MoveSeen ==
    ASSUME NEW e \in Event, \A d \in Event : d # e => spool'[d] = spool[d]
    PROVE  /\ CapturedEvents' \ {e} = CapturedEvents \ {e}
           /\ TerminalEvents' \ {e} = TerminalEvents \ {e}
           /\ e \in CapturedEvents <=> spool[e].dir \notin {"unwritten", "writing"}
           /\ e \in CapturedEvents' <=> spool'[e].dir \notin {"unwritten", "writing"}
           /\ e \in TerminalEvents <=> spool[e].dir = "failed"
           /\ e \in TerminalEvents' <=> spool'[e].dir = "failed"
  BY DEF CapturedEvents, TerminalEvents

\* It is not seen if it was captured and not terminal, and is so still.
LEMMA MoveHidden ==
    ASSUME NEW e \in Event, \A d \in Event : d # e => spool'[d] = spool[d],
           UNCHANGED <<job, published>>,
           \/ spool[e].dir \in {"inbox", "processing", "processed"}
              /\ spool'[e].dir \in {"inbox", "processing", "processed"}
           \/ spool[e].dir = "unwritten" /\ spool'[e].dir = "writing"
    PROVE  Unseen
  <1>1. CapturedEvents' = CapturedEvents
    BY DEF CapturedEvents
  <1>2. TerminalEvents' = TerminalEvents
    BY DEF TerminalEvents
  <1> QED
    BY <1>1, <1>2, SameBranch DEF Unseen

LEMMA CaptureSeen ==
    ASSUME OInv, NEW e \in Event, CheckKey(e) \/ Append(e)
    PROVE  Unseen \/ D!Capture(e)
  <1>1. /\ \/ spool[e] = Unwritten /\ spool'[e] = Writing
           \/ spool[e] = Writing /\ spool'[e] = Inbox
        /\ \A d \in Event : d # e => spool'[d] = spool[d]
        /\ UNCHANGED <<job, published>>
    BY DEF CheckKey, Append, OInv, IInv, TypeOK
  <1>2. DeliveredEvents' = DeliveredEvents
    BY <1>1, SameBranch
  <1>3. CASE spool'[e] = Writing
    BY <1>1, <1>3, MoveHidden DEF Unwritten, Writing, Inbox, Place
  <1>4. CASE spool'[e] = Inbox
    BY <1>1, <1>2, <1>4, MoveSeen DEF D!Capture, Unwritten, Writing, Inbox, Place
  <1> QED
    BY <1>1, <1>3, <1>4

\* A claim and a drain move a file no reader of Delivery looks for.
LEMMA MoveUnseen ==
    ASSUME OInv, NEW p \in Proc, ClaimMove(p) \/ Drain(p) PROVE Unseen
  <1>1. /\ TypeOK /\ todo[p] \subseteq Event /\ UNCHANGED <<job, published>>
        /\ pc[p] = "claim" => \A e \in todo[p] : spool[e] = Inbox
    BY Facts DEF ClaimMove, Drain, LocalInv, InHand
  <1>2. CASE UNCHANGED spool
    BY <1>1, <1>2, NothingSeen
  <1>3. CASE ~UNCHANGED spool
    <2>1. PICK e \in todo[p] :
            \/ spool[e] = Inbox /\ spool' = [spool EXCEPT ![e] = Processing(cur[p])]
            \/ spool[e] = Processing(cur[p]) /\ spool' = [spool EXCEPT ![e] = Processed]
      BY <1>1, <1>3 DEF ClaimMove, Drain
    <2>2. /\ e \in Event /\ \A d \in Event : d # e => spool'[d] = spool[d]
          /\ spool[e].dir \in {"inbox", "processing"}
          /\ spool'[e].dir \in {"processing", "processed"}
      BY <1>1, <2>1 DEF TypeOK, Inbox, Processing, Processed, Place
    <2> QED
      BY <1>1, <2>2, MoveHidden
  <1> QED
    BY <1>2, <1>3

\* What _fail and recover() take out of a run directory is not delivered: it goes back
\* unseen, or is abandoned.
LEMMA GiveBackSeen ==
    ASSUME OInv, NEW p \in Proc, Dispose(p) \/ ReturnEvent(p)
    PROVE  Unseen \/ \E e \in Event : D!Abandon(e)
  <1>1. /\ TypeOK /\ todo[p] \subseteq Event /\ UNCHANGED <<job, published>> /\ DiskInv
        /\ cur[p] \in Run /\ cur[p] \notin published /\ published \subseteq Run
    BY Facts DEF Dispose, ReturnEvent, LocalInv, UndoneOK, HasRun
  <1>2. CASE UNCHANGED spool
    BY <1>1, <1>2, NothingSeen
  <1>3. CASE ~UNCHANGED spool
    <2>1. PICK e \in todo[p] :
            /\ spool[e] = Processing(cur[p])
            /\ \/ spool' = [spool EXCEPT ![e] = Inbox]
               \/ spool' = [spool EXCEPT ![e] = Failed(cur[p])]
      BY <1>3 DEF Dispose, ReturnEvent, DisposePlace, ReturnPlace
    <2>2. /\ e \in Event /\ \A d \in Event : d # e => spool'[d] = spool[d]
          /\ spool[e].dir = "processing" /\ spool'[e].dir \in {"inbox", "failed"}
      BY <1>1, <2>1 DEF TypeOK, Inbox, Processing, Failed, Place
    <2>3. DeliveredEvents' = DeliveredEvents
      BY <1>1, SameBranch
    <2>4. e \notin DeliveredEvents
      BY <1>1, <2>1 DEF DeliveredEvents, DiskInv, PublishedHeld, Processing, Processed, Place
    <2>5. CASE spool'[e].dir = "inbox"
      BY <1>1, <2>2, <2>5, MoveHidden
    <2>6. CASE spool'[e].dir = "failed"
      BY <2>2, <2>3, <2>4, <2>6, MoveSeen DEF D!Abandon, D!Open
    <2> QED
      BY <2>2, <2>5, <2>6
  <1> QED
    BY <1>2, <1>3

LEMMA ClaimSnapshotUnseen ==
    ASSUME OInv, NEW p \in Proc, ClaimSnapshot(p) PROVE Unseen
  <1>1. /\ UNCHANGED <<spool, published>> /\ \A r \in published : job'[r] = job[r]
    BY Facts DEF ClaimSnapshot, TypeOK
  <1>2. DeliveredEvents' = DeliveredEvents
    BY <1>1 DEF DeliveredEvents
  <1> QED
    BY <1>1, <1>2 DEF Unseen, CapturedEvents, TerminalEvents

LEMMA CasPublishSeen ==
    ASSUME OInv, NEW p \in Proc, CasPublish(p)
    PROVE  \E B \in SUBSET Event : D!Deliver(B)
  <1> DEFINE B == job[cur[p]].events
  <1>1. /\ TypeOK /\ LocalInv(p) /\ cur[p] \in Run /\ pc[p] = "cas"
        /\ published' = published \cup {cur[p]} /\ UNCHANGED <<spool, job>>
        /\ B \subseteq Event /\ cur[p] \notin published /\ DiskInv'
    BY Facts, CasPublishKeeps DEF CasPublish, HasRun, LocalInv, UndoneOK, Claimed
  <1>2. /\ B # {} /\ \A e \in B : spool[e] = Processing(cur[p])
    BY <1>1 DEF LocalInv, KeysOK, InHand, Claimed
  <1>3. \A e \in B : e \in CapturedEvents /\ e \notin TerminalEvents
    BY <1>1, <1>2 DEF CapturedEvents, TerminalEvents, Processing, Place
  <1>4. \A e \in B : e \notin DeliveredEvents
    BY <1>1 DEF DiskInv, PublishedOnce, PublishedAtMostOnce, DeliveredEvents
  <1>5. \A e \in B : \A d \in (DeliveredEvents \cup B) \ {e} : ~D!SameKey(d, e)
    BY <1>1 DEF DiskInv, PublishedOnce, OnePublishedPerKey, DeliveredEvents, D!SameKey
  <1>6. DeliveredEvents' = DeliveredEvents \cup B
    BY <1>1 DEF DeliveredEvents
  <1>7. UNCHANGED <<CapturedEvents, TerminalEvents>>
    BY <1>1 DEF CapturedEvents, TerminalEvents
  <1>8. D!Deliver(B)
    BY <1>2, <1>3, <1>4, <1>5, <1>6, <1>7 DEF D!Deliver, D!Open
  <1> QED
    BY <1>1, <1>8

LEMMA RemoveRunUnseen ==
    ASSUME OInv, NEW p \in Proc, RemoveRun(p) PROVE Unseen
  <1>1. /\ TypeOK /\ pc[p] \in {"clear", "return"} /\ todo[p] = {} /\ DisposalOK
        /\ UNCHANGED <<job, published>>
    BY DEF RemoveRun, OInv, IInv
  <1>2. \A e \in Event : spool[e] # Processing(cur[p])
    BY <1>1 DEF DisposalOK, Emptying
  <1>3. spool' = spool
    BY <1>1, <1>2 DEF RemoveRun, TypeOK
  <1> QED
    BY <1>1, <1>3, NothingSeen

LEMMA StepImplements == ASSUME OneProcess PROVE OInv /\ [Next]_vars => [D!Next]_(D!vars)
  <1> SUFFICES ASSUME OInv, [Next]_vars PROVE D!Next \/ Unseen
    BY DEF Unseen, D!vars
  <1>1. CASE \E e \in Event : CheckKey(e) \/ Append(e)
    BY <1>1, CaptureSeen DEF D!Next
  <1>2. ASSUME NEW p \in Proc, Step(p) \/ Crash(p)
        PROVE  D!Next \/ Unseen
    <2>1. CASE ClaimSnapshot(p) \/ ClaimMove(p) \/ Drain(p) \/ RemoveRun(p)
      BY <2>1, ClaimSnapshotUnseen, MoveUnseen, RemoveRunUnseen
    <2>2. CASE CasPublish(p)
      BY <2>2, CasPublishSeen DEF D!Next
    <2>3. CASE Dispose(p) \/ ReturnEvent(p)
      BY <2>3, GiveBackSeen DEF D!Next
    <2>4. CASE Recover(p) \/ NotDue(p) \/ Trigger(p) \/ Crash(p)
      BY <2>4, NothingSeen
         DEF Recover, RecoverBegin, RecoverFinalize, RecoverReturn, RecoverEnd, NotDue, Trigger,
             Crash
    <2>5. CASE ClaimNothing(p) \/ ClaimManifest(p) \/ StampAttempt(p) \/ BuildBundle(p)
               \/ PlanAndApply(p) \/ CommitWorktree(p) \/ Reject(p) \/ CasConflict(p)
      BY <2>5, NothingSeen
         DEF ClaimNothing, ClaimManifest, StampAttempt, BuildBundle, PlanAndApply,
             CommitWorktree, Reject, CasConflict
    <2>6. CASE AdvancePublished(p) \/ LoadState(p) \/ SaveState(p) \/ AdvanceFinalized(p)
               \/ FailRecord(p) \/ FailLoad(p) \/ FailSave(p)
      BY <2>6, NothingSeen
         DEF AdvancePublished, LoadState, SaveState, AdvanceFinalized, FailRecord, FailLoad,
             FailSave
    <2> QED
      BY <1>2, <2>1, <2>2, <2>3, <2>4, <2>5, <2>6
         DEF Step, Claim, Consolidate, Finalize, GiveBack
  <1>3. CASE ForeignCommit \/ UNCHANGED vars
    BY <1>3, NothingSeen DEF ForeignCommit, vars
  <1> QED
    BY <1>1, <1>2, <1>3 DEF Next, Environment

LEMMA InitImplements == Init => D!Init
  BY DEF Init, D!Init, CapturedEvents, DeliveredEvents, TerminalEvents, Unwritten, Place

\* With one curating process the spool implements what Delivery promises: captured,
\* delivered once and one event per key, or terminal, and neither is undone.
THEOREM DeliveryImplemented == ASSUME OneProcess PROVE Spec => ImplementsDelivery
  BY InitImplements, StepImplements, OInvAlways, PTL DEF Spec, ImplementsDelivery, D!Spec
-----------------------------------------------------------------------------
(* What `agora requeue` may do to the spool, for any events, runs, curating *)
(* processes and invocations, with crashes and with recoveries that take no *)
(* lock interleaved with every step.                                        *)

USE DEF diskVars, gitVars, localVars

\* What an invocation will leave terminal, of the events that are now.
Rest == Terminal \ items
Archiving == Archives(order.matched, order)
Active == rpc # "idle" => lock = Requeuer
\* The moves still to make are of terminal events the inbox takes back.
ItemsOK ==
    /\ items \subseteq Terminal \cap Addressable
    /\ rpc # "move" => items = {}
    /\ rpc = "idle" => released = {} /\ toWalk = {}
\* Before the moves are done: the preview is what the rest will release.
PlannedOK ==
    rpc = "move" =>
        /\ released = {} /\ toWalk = {}
        /\ ~Archiving => preview = {}
        /\ \A r \in Recorded : Archiving /\ Released(r, Rest) => r \in preview
        /\ \A r \in preview : records[r] \cap Rest \cap Addressable = {}
        /\ preview \subseteq Recorded
\* Afterwards: what was terminal then still is, and only unaddressable events joined.
WalkOK ==
    rpc \in {"archive", "done"} =>
        /\ remaining \subseteq Terminal /\ Terminal \cap Addressable \subseteq remaining
        /\ released \subseteq preview /\ (rpc = "done" => toWalk = {})
        /\ \A r \in toWalk : r \in Recorded /\ (Released(r, remaining) => r \in preview)
        /\ \A r \in preview : r \in toWalk \/ r \in released \/ ~Released(r, remaining)
        /\ \A r \in preview : records[r] \cap remaining \cap Addressable = {}
        /\ Archiving => \A r \in Recorded : r \in toWalk \/ ~Released(r, remaining)
        /\ preview \subseteq Run
QInv == Active /\ ItemsOK /\ PlannedOK /\ WalkOK
RInv == IInv /\ BInv /\ QInv
-----------------------------------------------------------------------------
(* The steps of the curating processes.                                    *)

\* Beside a holder of the lock that is not a process, no file leaves failed/, only a
\* file without an address enters it, and no attempt record is written.
Steady ==
    /\ UNCHANGED <<records, lock>>
    /\ \A e \in Event : spool[e].dir = "failed" => spool'[e].dir = "failed"
    /\ \A e \in Addressable : spool'[e].dir = "failed" => spool[e].dir = "failed"
SpoolTyped ==
    spool \in [Event -> [dir : {"unwritten", "writing", "inbox", "processing",
                                "processed", "failed", "destroyed"}, run : {0} \cup Run]]

LEMMA SteadyIfSame ==
    ASSUME UNCHANGED <<spool, records, lock>>
    PROVE  Steady
  BY AddressableAssumption DEF Steady

LEMMA SteadyExit ==
    ASSUME lock \in Other, NEW p \in Proc, Exit(p) \/ Resume(p)
    PROVE  UNCHANGED lock
  BY ProcAssumption DEF Exit, Resume

LEMMA SteadyRemoval ==
    ASSUME SpoolTyped, UNCHANGED <<records, lock>>, NEW r,
           spool' = [e \in Event |-> IF spool[e] = Processing(r) THEN Destroyed ELSE spool[e]]
    PROVE  Steady
  BY AddressableAssumption DEF Steady, SpoolTyped, Processing, Destroyed, Place

LEMMA SteadyMove ==
    ASSUME SpoolTyped, UNCHANGED <<records, lock>>, NEW r, NEW e \in Event,
           spool[e] = Processing(r), NEW place,
           place \in {Processed, ReturnPlace(e, r)},
           spool' = [spool EXCEPT ![e] = place]
    PROVE  Steady
<1>1. spool[e].dir = "processing"
  BY DEF Processing, Place
<1>2. e \in Addressable => place.dir # "failed"
  BY DEF Processed, ReturnPlace, Inbox, Place
<1>3. \A d \in Event : spool'[d] = IF d = e THEN place ELSE spool[d]
  BY DEF SpoolTyped
<1> QED BY <1>1, <1>2, <1>3, AddressableAssumption DEF Steady

LEMMA Beside ==
    ASSUME IInv, lock \in Other, [Next]_vars
    PROVE  Steady
<1>1. \A p \in Proc : lock # p /\ ~Locked(p)
  BY ProcAssumption DEF IInv, LockOK
<1>2. lock # NoProc
  BY ProcAssumption
<1>3. SpoolTyped /\ \A p \in Proc : todo[p] \subseteq Event
  BY DEF IInv, TypeOK, SpoolTyped
<1>4. CASE \E e \in Event : CheckKey(e) \/ Append(e)
  <2>1. PICK e \in Event : CheckKey(e) \/ Append(e)
    BY <1>4
  <2>2. /\ UNCHANGED <<records, lock>> /\ spool[e].dir \in {"unwritten", "writing"}
        /\ spool' = [spool EXCEPT ![e] = Writing] \/ spool' = [spool EXCEPT ![e] = Inbox]
    BY <2>1 DEF CheckKey, Append, Unwritten, Writing, Place
  <2>3. \A d \in Event : spool'[d] = spool[d] \/ (d = e /\ spool'[e].dir \in {"writing", "inbox"})
    BY <1>3, <2>2 DEF SpoolTyped, Writing, Inbox, Place
  <2> QED BY <2>2, <2>3, AddressableAssumption DEF Steady
<1>5. CASE ForeignCommit \/ UNCHANGED vars
  BY <1>5, SteadyIfSame DEF ForeignCommit, vars
<1>6. ASSUME NEW p \in Proc, Crash(p) PROVE Steady
  BY <1>6, SteadyExit, SteadyIfSame DEF Crash
<1>7. ASSUME NEW p \in Proc, Recover(p) PROVE Steady
  BY <1>7, SteadyIfSame DEF Recover, RecoverBegin, RecoverFinalize, RecoverReturn, RecoverEnd
<1>8. ASSUME NEW p \in Proc, NotDue(p) \/ Trigger(p) PROVE Steady
  <2>1. UNCHANGED <<spool, records>> /\ Exit(p)
    BY <1>2, <1>8 DEF NotDue, Trigger
  <2> QED BY <2>1, SteadyExit, SteadyIfSame
<1>9. ASSUME NEW p \in Proc PROVE ~Claim(p) /\ ~Consolidate(p) /\ ~AdvancePublished(p)
  BY <1>1 DEF Claim, ClaimNothing, ClaimSnapshot, ClaimMove, ClaimManifest, StampAttempt,
              Consolidate, BuildBundle, PlanAndApply, CommitWorktree, Reject, CasPublish,
              CasConflict, AdvancePublished, Locked
<1>10. ASSUME NEW p \in Proc, LoadState(p) \/ SaveState(p) PROVE Steady
  BY <1>10, SteadyIfSame DEF LoadState, SaveState
<1>11. ASSUME NEW p \in Proc, AdvanceFinalized(p) PROVE Steady
  BY <1>11, SteadyExit, SteadyIfSame DEF AdvanceFinalized
<1>12. ASSUME NEW p \in Proc, Drain(p) PROVE Steady
  <2>1. PICK e \in todo[p] :
          IF spool[e] = Processing(cur[p])
          THEN /\ spool' = [spool EXCEPT ![e] = Processed]
               /\ UNCHANGED lock
          ELSE Exit(p) /\ UNCHANGED spool
    BY <1>12 DEF Drain
  <2>2. UNCHANGED records /\ e \in Event
    BY <1>3, <1>12 DEF Drain
  <2>3. CASE spool[e] = Processing(cur[p])
    BY <1>3, <2>1, <2>2, <2>3, SteadyMove
  <2>4. CASE spool[e] # Processing(cur[p])
    BY <2>1, <2>2, <2>4, SteadyExit, SteadyIfSame
  <2> QED BY <2>3, <2>4
<1>13. ASSUME NEW p \in Proc
       PROVE  ~FailRecord(p) /\ ~Dispose(p) /\ ~FailLoad(p) /\ ~FailSave(p)
  BY <1>1 DEF FailRecord, Dispose, FailLoad, FailSave, Locked
<1>14. ASSUME NEW p \in Proc, ReturnEvent(p) PROVE Steady
  <2>1. PICK e \in todo[p] :
          spool' = IF spool[e] = Processing(cur[p])
                   THEN [spool EXCEPT ![e] = ReturnPlace(e, cur[p])] ELSE spool
    BY <1>14 DEF ReturnEvent
  <2>2. UNCHANGED <<records, lock>> /\ e \in Event
    BY <1>3, <1>14 DEF ReturnEvent
  <2>3. CASE spool[e] = Processing(cur[p])
    BY <1>3, <2>1, <2>2, <2>3, SteadyMove
  <2>4. CASE spool[e] # Processing(cur[p])
    BY <2>1, <2>2, <2>4, SteadyIfSame
  <2> QED BY <2>3, <2>4
<1>15. ASSUME NEW p \in Proc, RemoveRun(p) PROVE Steady
  <2>1. /\ spool' = [e \in Event |-> IF spool[e] = Processing(cur[p])
                                     THEN Destroyed ELSE spool[e]]
        /\ UNCHANGED records /\ Resume(p)
    BY <1>15 DEF RemoveRun
  <2> QED BY <1>3, <2>1, SteadyExit, SteadyRemoval
<1> QED
  BY <1>4, <1>5, <1>6, <1>7, <1>8, <1>9, <1>10, <1>11, <1>12, <1>13, <1>14, <1>15
     DEF Next, Environment, Step, Finalize, GiveBack

\* A curating process leaves an invocation in the middle of its work alone.
LEMMA CuratorStep ==
    ASSUME IInv, QInv, [Next]_vars, UNCHANGED requeueVars
    PROVE  QInv'
<1>1. UNCHANGED <<rpc, order, items, remaining, toWalk, released, preview>>
  BY DEF requeueVars, requeueLocals
<1>2. CASE rpc = "idle"
  BY <1>1, <1>2 DEF QInv, Active, ItemsOK, PlannedOK, WalkOK
<1>3. CASE rpc # "idle"
  <2>1. lock = Requeuer /\ Steady
    BY <1>3, Beside, RequeuerAssumption DEF QInv, Active
  <2>2. /\ UNCHANGED <<records, lock, Recorded, Archiving>>
        /\ Terminal \subseteq Terminal' /\ Terminal' \cap Addressable \subseteq Terminal
    BY <1>1, <2>1 DEF Steady, Terminal, Recorded, Archiving
  <2>3. Active' /\ ItemsOK'
    BY <1>1, <2>1, <2>2 DEF QInv, Active, ItemsOK
  <2>4. PlannedOK'
    <3>1. Rest \subseteq Rest' /\ Rest' \cap Addressable \subseteq Rest
      BY <1>1, <2>2 DEF QInv, ItemsOK, Rest
    <3>2. \A r : Released(r, Rest)' => Released(r, Rest)
      BY <2>2, <3>1 DEF Released
    <3> QED BY <1>1, <2>2, <3>1, <3>2 DEF QInv, PlannedOK
  <2>5. WalkOK'
    BY <1>1, <2>2 DEF QInv, WalkOK, Released
  <2> QED BY <2>3, <2>4, <2>5 DEF QInv
<1> QED BY <1>2, <1>3
-----------------------------------------------------------------------------
(* The steps of the requeue.                                               *)

\* Taking and leaving the lock concerns no process.
LEMMA LockPassed ==
    ASSUME IInv, BInv, UNCHANGED <<diskVars, gitVars, nextRun, pc, localVars>>,
           lock \in Other \cup {NoProc}, lock' \in Other \cup {NoProc}, crashes' \in Nat
    PROVE  IInv' /\ BInv'
<1>1. \A p \in Proc : ~Locked(p)
  BY ProcAssumption DEF IInv, LockOK
<1>2. TypeOK'
  BY DEF IInv, TypeOK
<1>3. CurOK' /\ LockOK'
  BY <1>1 DEF IInv, CurOK, HasRun, LockOK, Locked
<1>4. GitOnDisk' /\ GitInMemory' /\ BatchOK' /\ ClaimInBatch'
  BY DEF IInv, GitOnDisk, GitInMemory, BatchOK, ClaimInBatch
<1>5. MintedOK' /\ ClaimHidden' /\ ClaimPrivate' /\ DisposalOK'
  BY DEF IInv, MintedOK, ClaimHidden, ClaimPrivate, DisposalOK, Emptying
<1>6. NoEventDestroyed' /\ ProcessedIsPublished'
  BY DEF IInv, NoEventDestroyed, ProcessedIsPublished
<1>7. RecordsOK' /\ UnmintedOK' /\ ShaOK' /\ DecisionOK' /\ ConflictSparesBudget'
  BY DEF BInv, RecordsOK, UnmintedOK, ShaOK, DecisionOK, Undecided, Unfailed,
         ConflictSparesBudget
<1>8. TerminalOnlyWhenSpent'
  BY DEF BInv, TerminalOnlyWhenSpent, Attempts
<1> QED BY <1>2, <1>3, <1>4, <1>5, <1>6, <1>7, <1>8 DEF IInv, BInv

\* What an invocation with these flags sets down when it has made its plan.
Ordered(all, force, reset, selected) ==
    LET moves == Movable(selected, force)
        flags == [all |-> all, force |-> force, reset |-> reset,
                  matched |-> selected, moved |-> moves]
    IN /\ order' = flags
       /\ items' = moves
       /\ preview' = IF Archives(selected, flags)
                     THEN {r \in Recorded : Released(r, Terminal \ moves)}
                     ELSE {}

LEMMA BeginStep ==
    ASSUME RInv, RequeueBegin
    PROVE  RInv'
<1>1. /\ lock = NoProc /\ lock' = Requeuer /\ rpc = "idle" /\ rpc' = "move"
      /\ UNCHANGED <<diskVars, gitVars, nextRun, crashes, pc, localVars, remaining, toWalk,
                     released>>
  BY DEF RequeueBegin
<1>2. IInv' /\ BInv'
  BY <1>1, LockPassed, RequeuerAssumption DEF RInv, IInv, TypeOK
<1>3. \E all, force, reset \in BOOLEAN :
        /\ Terminal # {} \/ (reset /\ Recorded # {})
        /\ \E selected \in Selection(all) : Ordered(all, force, reset, selected)
  BY DEF RequeueBegin, Ordered
<1>4. PICK all, force, reset \in BOOLEAN :
         \E selected \in Selection(all) : Ordered(all, force, reset, selected)
  BY <1>3
<1>5. PICK selected \in Selection(all) : Ordered(all, force, reset, selected)
  BY <1>4
<1>6. /\ order'.matched = selected
      /\ preview' = IF Archives(order'.matched, order')
                    THEN {r \in Recorded : Released(r, Terminal \ items')} ELSE {}
  BY <1>5 DEF Ordered
<1>7. selected \subseteq Terminal
  BY DEF Selection
<1>8. items' \subseteq Terminal \cap Addressable
  BY <1>5, <1>7 DEF Movable, Ordered
<1>9. UNCHANGED <<Terminal, Recorded>>
  BY <1>1 DEF Terminal, Recorded
<1>10. Active' /\ ItemsOK' /\ WalkOK'
  BY <1>1, <1>8, <1>9 DEF Active, ItemsOK, WalkOK
<1>11. released' = {} /\ toWalk' = {}
  BY <1>1 DEF RInv, QInv, ItemsOK
<1>12. PlannedOK'
  BY <1>1, <1>6, <1>9, <1>11 DEF PlannedOK, Rest, Archiving, Released
<1> QED BY <1>2, <1>10, <1>12 DEF RInv, QInv

\* An event that goes back to the inbox was in no run's directory.
LEMMA FileMoved ==
    ASSUME IInv, BInv, NEW e \in Event, spool[e].dir = "failed",
           spool' = [spool EXCEPT ![e] = Inbox],
           UNCHANGED <<manifest, job, records, st, gitVars, lock, nextRun, crashes, pc, localVars>>
    PROVE  IInv' /\ BInv'
<1>1. TypeOK /\ SpoolTyped
  BY DEF IInv, TypeOK, SpoolTyped
<1>2. /\ \A d \in Event : spool'[d] = IF d = e THEN Inbox ELSE spool[d]
      /\ Inbox.dir = "inbox" /\ Inbox \in [dir : {"inbox"}, run : {0} \cup Run]
  BY <1>1 DEF SpoolTyped, Inbox, Place
<1>3. \A r \in Run : Processing(r).dir = "processing" /\ Failed(r).dir = "failed"
  BY DEF Processing, Failed, Place
<1>4. Processed.dir = "processed" /\ Destroyed.dir = "destroyed"
  BY DEF Processed, Destroyed, Place
<1>5. SpoolTyped'
  BY <1>1, <1>2 DEF SpoolTyped
<1>6. TypeOK'
  BY <1>1, <1>5 DEF TypeOK, SpoolTyped
<1>7. CurOK' /\ LockOK'
  BY DEF IInv, CurOK, HasRun, LockOK, Locked
<1>8. GitOnDisk' /\ GitInMemory' /\ ClaimInBatch'
  BY DEF IInv, GitOnDisk, GitInMemory, ClaimInBatch
<1>9. MintedOK' /\ ClaimHidden' /\ ClaimPrivate'
  BY DEF IInv, MintedOK, ClaimHidden, ClaimPrivate
<1>10. BatchOK' /\ NoEventDestroyed' /\ ProcessedIsPublished'
  BY <1>2, <1>3, <1>4 DEF IInv, BatchOK, NoEventDestroyed, ProcessedIsPublished
<1>11. DisposalOK'
  BY <1>2, <1>3 DEF IInv, DisposalOK, Emptying, TypeOK, Processing, Place
<1>12. RecordsOK' /\ UnmintedOK' /\ ShaOK' /\ DecisionOK' /\ ConflictSparesBudget'
  BY DEF BInv, RecordsOK, UnmintedOK, ShaOK, DecisionOK, Undecided, Unfailed,
         ConflictSparesBudget
<1>13. TerminalOnlyWhenSpent'
  BY <1>2, <1>3, AddressableAssumption DEF BInv, TerminalOnlyWhenSpent, Attempts
<1> QED BY <1>6, <1>7, <1>8, <1>9, <1>10, <1>11, <1>12, <1>13 DEF IInv, BInv

LEMMA MoveStep ==
    ASSUME RInv, RequeueMove
    PROVE  RInv'
<1>1. PICK e \in items : spool' = [spool EXCEPT ![e] = Inbox] /\ items' = items \ {e}
  BY DEF RequeueMove
<1>2. /\ rpc = "move" /\ UNCHANGED <<rpc, order, remaining, toWalk, released, preview>>
      /\ UNCHANGED <<manifest, job, records, st, gitVars, lock, nextRun, crashes, pc, localVars>>
  BY DEF RequeueMove
<1>3. e \in Event /\ spool[e].dir = "failed"
  BY DEF RInv, QInv, ItemsOK, Terminal
<1>4. IInv' /\ BInv'
  BY <1>1, <1>2, <1>3, FileMoved DEF RInv
<1>5. Terminal' = Terminal \ {e} /\ UNCHANGED <<Recorded, Archiving>>
  <2>1. \A d \in Event : spool'[d] = IF d = e THEN Inbox ELSE spool[d]
    BY <1>1 DEF RInv, IInv, TypeOK
  <2> QED BY <1>2, <2>1 DEF Terminal, Recorded, Archiving, Inbox, Place
<1>6. Rest' = Rest
  BY <1>1, <1>5 DEF Rest
<1>7. Active' /\ ItemsOK' /\ WalkOK'
  BY <1>1, <1>2, <1>5 DEF RInv, QInv, Active, ItemsOK, WalkOK
<1>8. PlannedOK'
  BY <1>2, <1>5, <1>6 DEF RInv, QInv, PlannedOK, Released
<1> QED BY <1>4, <1>7, <1>8 DEF RInv, QInv

LEMMA ScanStep ==
    ASSUME RInv, RequeueScan
    PROVE  RInv'
<1>1. /\ rpc = "move" /\ items = {} /\ rpc' = "archive" /\ remaining' = Terminal
      /\ toWalk' = IF Archiving THEN Recorded ELSE {}
      /\ UNCHANGED <<vars, order, items, released, preview, requeues>>
  BY DEF RequeueScan, Archiving
<1>2. UNCHANGED <<spool, records, lock>>
  BY <1>1 DEF vars
<1>3. UNCHANGED <<Terminal, Recorded, Archiving>>
  BY <1>1, <1>2 DEF Terminal, Recorded, Archiving
<1>4. Rest = Terminal
  BY <1>1 DEF Rest
<1>5. /\ released = {} /\ (~Archiving => preview = {})
      /\ \A r \in Recorded : Archiving /\ Released(r, Terminal) => r \in preview
      /\ \A r \in preview : records[r] \cap Terminal \cap Addressable = {}
      /\ preview \subseteq Recorded
  BY <1>1, <1>4 DEF RInv, QInv, PlannedOK
<1>6. Active' /\ ItemsOK' /\ PlannedOK'
  BY <1>1, <1>2, <1>3 DEF RInv, QInv, Active, ItemsOK, PlannedOK
<1>7. \A r : Released(r, remaining)' <=> Released(r, Terminal)
  BY <1>1, <1>2 DEF Released
<1>8. /\ \A r \in toWalk' : r \in Recorded /\ Archiving
      /\ \A r \in Recorded : Archiving => r \in toWalk'
      /\ \A r \in preview : Archiving
  BY <1>1, <1>5
<1>9. Recorded \subseteq Run
  BY DEF Recorded
<1>10. \A r \in preview : (records[r] \cap remaining \cap Addressable)' = {}
  BY <1>1, <1>2, <1>5
<1>11. WalkOK'
  BY <1>1, <1>3, <1>5, <1>7, <1>8, <1>9, <1>10 DEF WalkOK
<1>12. IInv' /\ BInv'
  BY <1>1, IInvStep, BInvStep DEF RInv
<1> QED BY <1>6, <1>11, <1>12 DEF RInv, QInv

\* A record that is archived names no terminal event that the inbox would take.
LEMMA RecordGone ==
    ASSUME IInv, BInv, NEW r \in Run, records' = [records EXCEPT ![r] = {}],
           records[r] \cap Terminal \cap Addressable = {},
           UNCHANGED <<spool, manifest, job, st, gitVars, lock, nextRun, crashes, pc, localVars>>
    PROVE  IInv' /\ BInv'
<1>1. \A q \in Run : records'[q] = IF q = r THEN {} ELSE records[q]
  BY DEF IInv, TypeOK
<1>2. TypeOK'
  BY DEF IInv, TypeOK
<1>3. CurOK' /\ LockOK'
  BY DEF IInv, CurOK, HasRun, LockOK, Locked
<1>4. GitOnDisk' /\ GitInMemory' /\ BatchOK' /\ ClaimInBatch'
  BY DEF IInv, GitOnDisk, GitInMemory, BatchOK, ClaimInBatch
<1>5. MintedOK' /\ ClaimHidden' /\ ClaimPrivate' /\ DisposalOK'
  BY DEF IInv, MintedOK, ClaimHidden, ClaimPrivate, DisposalOK, Emptying
<1>6. NoEventDestroyed' /\ ProcessedIsPublished'
  BY DEF IInv, NoEventDestroyed, ProcessedIsPublished
<1>7. UnmintedOK' /\ ShaOK' /\ RecordsOK' /\ ConflictSparesBudget'
  BY <1>1 DEF BInv, UnmintedOK, ShaOK, RecordsOK, ConflictSparesBudget
<1>8. DecisionOK'
  <2>1. \A p \in Proc : Unfailed(p) => cur[p] \in Run
    BY DEF IInv, CurOK, HasRun, Unfailed
  <2> QED BY <1>1, <2>1 DEF BInv, DecisionOK, Undecided, Unfailed
<1>9. ASSUME NEW e \in Addressable, NEW q \in Run, spool[e] = Failed(q)
      PROVE  Attempts(e)' >= MaxAttempts
  <2>1. e \in Terminal
    BY <1>9, AddressableAssumption DEF Terminal, Failed, Place
  <2>2. e \notin records[r]
    BY <2>1
  <2>3. {x \in Run : e \in records'[x]} = {x \in Run : e \in records[x]}
    BY <1>1, <2>2
  <2>4. Attempts(e)' = Attempts(e)
    BY <2>3 DEF Attempts
  <2> QED BY <1>9, <2>4 DEF BInv, TerminalOnlyWhenSpent
<1>10. TerminalOnlyWhenSpent'
  BY <1>9 DEF TerminalOnlyWhenSpent
<1> QED BY <1>2, <1>3, <1>4, <1>5, <1>6, <1>7, <1>8, <1>10 DEF IInv, BInv

LEMMA ArchiveStep ==
    ASSUME RInv, RequeueArchive
    PROVE  RInv'
<1>1. PICK r \in toWalk :
        /\ toWalk' = toWalk \ {r}
        /\ IF Released(r, remaining)
           THEN records' = [records EXCEPT ![r] = {}] /\ released' = released \cup {r}
           ELSE UNCHANGED <<records, released>>
  BY DEF RequeueArchive
<1>2. /\ rpc = "archive" /\ UNCHANGED <<rpc, order, items, remaining, preview>>
      /\ UNCHANGED <<spool, manifest, job, st, gitVars, lock, nextRun, crashes, pc, localVars>>
  BY DEF RequeueArchive
<1>3. WalkOK /\ ItemsOK /\ Active
  BY DEF RInv, QInv
<1>4. r \in Run /\ UNCHANGED <<Terminal, Archiving>>
  BY <1>2, <1>3 DEF WalkOK, Recorded, Terminal, Archiving
<1>5. Active' /\ ItemsOK' /\ PlannedOK'
  BY <1>2, <1>3, <1>4 DEF Active, ItemsOK, PlannedOK
<1>6. CASE Released(r, remaining)
  <2>1. /\ records' = [records EXCEPT ![r] = {}] /\ released' = released \cup {r}
        /\ r \in preview
    BY <1>1, <1>2, <1>3, <1>6 DEF WalkOK
  <2>2. \A q \in Run : records'[q] = IF q = r THEN {} ELSE records[q]
    BY <2>1 DEF RInv, IInv, TypeOK
  <2>3. records[r] \cap Terminal \cap Addressable = {}
    BY <1>2, <1>3, <2>1, <1>6 DEF WalkOK, Released
  <2>4. IInv' /\ BInv'
    BY <1>2, <1>4, <2>1, <2>3, RecordGone DEF RInv
  <2>5. WalkOK'
    BY <1>1, <1>2, <1>3, <1>4, <2>1, <2>2 DEF WalkOK, Recorded, Released
  <2> QED BY <1>5, <2>4, <2>5 DEF RInv, QInv
<1>7. CASE ~Released(r, remaining)
  <2>1. UNCHANGED <<records, released>>
    BY <1>1, <1>7
  <2>2. UNCHANGED vars
    BY <1>2, <2>1 DEF vars
  <2>3. IInv' /\ BInv'
    BY <2>2, IInvStep, BInvStep DEF RInv
  <2>4. WalkOK'
    BY <1>1, <1>2, <1>3, <1>4, <1>7, <2>1 DEF WalkOK, Recorded, Released
  <2> QED BY <1>5, <2>3, <2>4 DEF RInv, QInv
<1> QED BY <1>6, <1>7

LEMMA ReportStep ==
    ASSUME RInv, RequeueReport
    PROVE  RInv'
<1>1. /\ rpc = "archive" /\ toWalk = {} /\ rpc' = "done"
      /\ UNCHANGED <<vars, order, items, remaining, toWalk, released, preview>>
  BY DEF RequeueReport, requeueLocals
<1>2. UNCHANGED <<spool, records, lock>>
  BY <1>1 DEF vars
<1>3. UNCHANGED <<Terminal, Recorded, Archiving>>
  BY <1>1, <1>2 DEF Terminal, Recorded, Archiving
<1>4. QInv'
  BY <1>1, <1>2, <1>3 DEF RInv, QInv, Active, ItemsOK, PlannedOK, WalkOK, Released
<1> QED BY <1>1, <1>4, IInvStep, BInvStep DEF RInv

\* An invocation that ends, or is killed between any two of its steps, forgets its plan.
LEMMA LeaveStep ==
    ASSUME RInv, rpc # "idle", Leave, crashes' \in Nat
    PROVE  RInv'
<1>1. lock = Requeuer
  BY DEF RInv, QInv, Active
<1>2. IInv' /\ BInv'
  BY <1>1, LockPassed, RequeuerAssumption DEF RInv, Leave
<1>3. QInv'
  BY DEF Leave, QInv, Active, ItemsOK, PlannedOK, WalkOK
<1> QED BY <1>2, <1>3 DEF RInv

LEMMA RInvStep == RInv /\ [RNext]_allVars => RInv'
<1> SUFFICES ASSUME RInv, [RNext]_allVars PROVE RInv'
  OBVIOUS
<1>1. CASE [Next]_vars /\ UNCHANGED requeueVars
  <2>1. IInv' /\ BInv'
    BY <1>1, IInvStep, BInvStep DEF RInv
  <2> QED BY <1>1, <2>1, CuratorStep DEF RInv
<1>2. CASE RequeueEnd \/ RequeueCrash
  <2>1. rpc # "idle" /\ Leave /\ crashes' \in Nat
    BY <1>2 DEF RequeueEnd, RequeueCrash, RInv, IInv, TypeOK
  <2> QED BY <2>1, LeaveStep
<1>3. CASE UNCHANGED allVars
  BY <1>1, <1>3 DEF allVars
<1> QED
  BY <1>1, <1>2, <1>3, BeginStep, MoveStep, ScanStep, ArchiveStep, ReportStep DEF RNext

LEMMA RInvInit == RInit => RInv
<1> SUFFICES ASSUME RInit PROVE RInv
  OBVIOUS
<1>1. IInv /\ BInv
  BY IInvInit, BInvInit DEF RInit
<1>2. QInv
  BY DEF RInit, QInv, Active, ItemsOK, PlannedOK, WalkOK
<1> QED BY <1>1, <1>2 DEF RInv

LEMMA RInvAlways == RSpec => []RInv
  BY RInvInit, RInvStep, PTL DEF RSpec
-----------------------------------------------------------------------------
\* Beside any number of curating processes and recoveries, and with invocations killed
\* between any two steps, an event with a valid address is terminal only after
\* max_attempts attempt records that are still there: --reset-attempts never takes a
\* record from under an event it leaves in failed/, and a commit charges nothing.
THEOREM BudgetHoldsBesideRequeue == RSpec => []BudgetKept
<1>1. RInv => BudgetKept
  BY DEF RInv, BInv, BudgetKept
<1> QED BY <1>1, RInvAlways, PTL

\* When an invocation reports, it has archived what --dry-run would have printed, but
\* for records of files that recovery could not address and put into failed/ meanwhile;
\* and after --all --reset-attempts every record left names a terminal event, whatever an
\* invocation killed before it had left behind.
THEOREM ReleaseKeepsPromise == RSpec => []ReleaseIsPromised
<1>1. ASSUME RInv PROVE ReleaseIsPromised
  <2>1. ASSUME rpc = "done", order.reset, order.all, NEW r \in Recorded
        PROVE  records[r] \cap Terminal # {}
    <3>1. Archiving
      BY <2>1 DEF Archiving, Archives
    <3>2. ~Released(r, remaining) /\ remaining \subseteq Terminal
      BY <1>1, <2>1, <3>1 DEF RInv, QInv, WalkOK
    <3> QED BY <3>2 DEF Released
  <2>2. ASSUME rpc = "done", NEW r \in preview \ released
        PROVE  \E e \in records[r] \cap Terminal : e \notin Addressable
    <3>1. /\ ~Released(r, remaining) /\ remaining \subseteq Terminal
          /\ records[r] \cap remaining \cap Addressable = {}
      BY <1>1, <2>2 DEF RInv, QInv, WalkOK
    <3> QED BY <3>1 DEF Released
  <2>3. rpc = "done" => released \subseteq preview
    BY <1>1 DEF RInv, QInv, WalkOK
  <2> QED BY <2>1, <2>2, <2>3 DEF ReleaseIsPromised, ResetConverges, PreviewIsResult
<1> QED BY <1>1, RInvAlways, PTL

\* A requeue cannot make the spool lose an event or run ahead of the branch: what it
\* moves and archives lies outside every run directory.
THEOREM SpoolSafeBesideRequeue == RSpec => [](NoEventDestroyed /\ PublishedFirst)
<1>1. RInv => NoEventDestroyed /\ PublishedFirst
  BY DEF RInv, IInv, GitOnDisk, PublishedFirst, RecordedIsPublished
<1> QED BY <1>1, RInvAlways, PTL
-----------------------------------------------------------------------------
(* With one curating process, a requeue delivers nothing twice: a claim    *)
(* that takes a forced event de-duplicates it against the delivered keys.  *)

LEMMA RequeueKeepsLocal ==
    ASSUME RInv, OInv, RNext, UNCHANGED <<manifest, job, st, published, pc, localVars>>,
           \A e \in Event : \/ spool'[e] = spool[e]
                            \/ spool[e].dir = "failed" /\ lock \in Other
    PROVE  DiskInv' /\ \A p \in Proc : LocalInv(p)'
<1>1. \A r : /\ Processing(r).dir = "processing" /\ Processed.dir = "processed"
             /\ Inbox.dir = "inbox"
  BY DEF Processing, Processed, Inbox, Place
<1>2. \A e \in Event, r \in Run :
        spool[e] \in {Inbox, Processed, Processing(r)} => spool'[e] = spool[e]
  BY <1>1
<1>3. /\ published \subseteq Run /\ \A r \in Run : job[r].events \subseteq Event
      /\ \A p \in Proc : todo[p] \subseteq Event /\ (HasRun(p) => cur[p] \in Run)
  BY DEF OInv, IInv, TypeOK, CurOK
<1>4. DiskInv'
  BY <1>2, <1>3 DEF OInv, DiskInv, PublishedHeld, PublishedMarked, BatchKeys, FinalizedIsSettled,
     PublishedOnce, PublishedAtMostOnce, OnePublishedPerKey
<1>5. ASSUME NEW p \in Proc PROVE LocalInv(p)'
  <2>1. LocalInv(p)
    BY DEF OInv
  <2>2. UndoneOK(p)' /\ SnapOK(p)' /\ SettledOK(p)' /\ MemOK(p)' /\ KeysOK(p)'
    BY <2>1 DEF LocalInv, Claimed, UndoneOK, SnapOK, SettledOK, MemOK, KeysOK
  <2>3. InHand(p)' /\ DrainOK(p)'
    BY <2>1, <1>2, <1>3 DEF LocalInv, InHand, DrainOK, HasRun
  <2> QED BY <2>2, <2>3 DEF LocalInv
<1> QED BY <1>4, <1>5

LEMMA ROnceStep ==
    ASSUME OneProcess PROVE RInv /\ OInv /\ [RNext]_allVars => OInv'
<1> SUFFICES ASSUME RInv, OInv, [RNext]_allVars PROVE OInv'
  OBVIOUS
<1>1. CASE [Next]_vars
  BY <1>1, OInvStep
<1>2. CASE ~[Next]_vars
  <2>1. RNext /\ UNCHANGED <<manifest, job, st, published, pc, localVars>>
    BY <1>2 DEF allVars, RNext, RequeueBegin, RequeueMove, RequeueScan, RequeueArchive,
                RequeueReport, RequeueEnd, RequeueCrash, Leave, vars
  <2>2. ASSUME NEW e \in Event
        PROVE  spool'[e] = spool[e] \/ (spool[e].dir = "failed" /\ lock \in Other)
    <3>1. CASE RequeueMove
      <4>1. PICK d \in items : spool' = [spool EXCEPT ![d] = Inbox]
        BY <3>1 DEF RequeueMove
      <4>2. d \in Terminal /\ lock = Requeuer
        BY <3>1 DEF RInv, QInv, ItemsOK, Active, RequeueMove
      <4>3. e # d => spool'[e] = spool[e]
        BY <4>1 DEF RInv, IInv, TypeOK
      <4> QED BY <4>2, <4>3, RequeuerAssumption DEF Terminal
    <3>2. CASE ~RequeueMove
      BY <1>2, <2>1, <3>2 DEF RNext, RequeueBegin, RequeueScan, RequeueArchive,
                RequeueReport, RequeueEnd, RequeueCrash, Leave, vars
    <3> QED BY <3>1, <3>2
  <2>3. DiskInv' /\ \A p \in Proc : LocalInv(p)'
    BY <2>1, <2>2, RequeueKeepsLocal
  <2>4. IInv' /\ UnmintedOK'
    BY RInvStep DEF RInv, BInv
  <2> QED BY <2>3, <2>4 DEF OInv
<1> QED BY <1>1, <1>2

\* However often terminal events are requeued, forced or not, and whatever crashes, no
\* event and no idempotency key reaches the branch twice.
THEOREM DeliveredOnceBesideRequeue ==
    ASSUME OneProcess PROVE RSpec => []PublishedOnce
<1>1. RInit => OInv
  BY OInvInit DEF RInit
<1>2. RSpec => []OInv
  BY <1>1, RInvAlways, ROnceStep, PTL DEF RSpec
<1>3. OInv => PublishedOnce
  BY DEF OInv, DiskInv
<1> QED BY <1>2, <1>3, PTL
=============================================================================
