------------------------- MODULE AttachmentsProofs -------------------------
(***************************************************************************)
(* Where the bytes of a capture are, for every set of events, writers and  *)
(* blobs, any number of runs and requeues and a crash between any two      *)
(* steps.                                                                  *)
(***************************************************************************)
EXTENDS Attachments, TLAPS

(* Control.                                                                *)
InRun == pc \in {"claim", "apply", "drain", "dispose"}
ControlOK ==
    /\ InRun => cur \in Run /\ cur < nextRun
    /\ pc = "claim" => phase[cur] = "none" /\ \A e \in todo : place[e].kind = "inbox"
    /\ pc \in {"apply", "dispose"} => phase[cur] = "claimed"
    /\ pc = "drain" => phase[cur] = "published"
    /\ pc \in {"drain", "dispose"} => todo = Within(Processing(cur))
    /\ pc = "requeue" => \A e \in todo : place[e].kind = "failed"
    /\ \A r \in Run : r >= nextRun => phase[r] = "none"
PlaceOK ==
    /\ \A e \in Event : place[e].kind = "inbox" => place[e] = InboxOf(e)
    /\ \A r \in Run : phase[r] = "finalized" => Within(Processing(r)) = {}
\* A carry takes the bytes of its event out of the directory it was renamed from;
\* what it found cited there is cited there until it ends.
CarryOK ==
    IF ~Carrying THEN carry = NoCarry
    ELSE /\ carry.event \in Event /\ carry.left \subseteq Cites[carry.event]
         /\ place[carry.event] \notin {Unwritten, carry.from}
         /\ \/ pc = "claim" /\ carry.from = InboxOf(carry.event)
            \/ pc = "drain" /\ carry.from = Processing(cur) /\ place[carry.event] = Processed
            \/ pc = "dispose" /\ carry.from = Processing(cur)
            \/ pc = "requeue" /\ carry.from.kind = "failed"
         /\ carry.stage = "copy" =>
              /\ carry.cited \subseteq CitedIn(carry.from)
              /\ pc # "claim" => CitedIn(carry.from) \subseteq carry.cited

(* Where the bytes are.                                                    *)
Moving(e, b) == Carrying /\ carry.event = e /\ b \in carry.left
\* Event e has b beside it, or its carry is about to bring it.
Holds(e, b) ==
    /\ place[e] # Unwritten
    /\ \/ <<place[e], b>> \in files
       \/ Moving(e, b) /\ <<carry.from, b>> \in files
Mates(e, b) == {d \in Event : WriterOf[d] = WriterOf[e] /\ b \in Cites[d]}
Taken(e, b) == place[e] # Unwritten \/ b \in ready[e]
SafeOK ==
    \A e \in Event : \A b \in Cites[e] \ Unsafe(WriterOf[e]) : Taken(e, b) =>
        \/ <<InboxOf(e), b>> \in files
        \/ \E d \in Mates(e, b) : Holds(d, b)
\* What no other event of its writer cites is beside the event that does.
SoleOK ==
    \A e \in Event \ cut : \A b \in Cites[e] : Mates(e, b) = {e} /\ Taken(e, b) =>
        IF place[e] = Unwritten THEN <<InboxOf(e), b>> \in files ELSE Holds(e, b)
\* Every file has an event that put it there and has not left without it.
Owns(e, f) ==
    /\ f[2] \in Cites[e] /\ f[1] # Unwritten
    /\ f[1].kind = "inbox" => InboxOf(e) = f[1]
    /\ \/ place[e] = f[1]
       \/ place[e] = Unwritten /\ f[1] = InboxOf(e) /\ f[2] \in ready[e]
       \/ e \in cut
       \/ Moving(e, f[2]) /\ carry.from = f[1]
FilesOwned == \A f \in files : \E e \in Event : Owns(e, f)
HeldOK ==
    /\ \A r \in Run : phase[r] \in {"none", "claimed"} => held[r] = {}
    /\ PublishedBytesStay
IInv ==
    /\ TypeOK /\ ControlOK /\ PlaceOK /\ CarryOK
    /\ SafeOK /\ SoleOK /\ FilesOwned /\ HeldOK

USE EventsAreNumbers, CitesAssumption, WriterAssumption, BoundsAreNumbers
    DEF spoolVars, runVars, faults
-----------------------------------------------------------------------------
(* Directories.                                                            *)
LEMMA DirTypes ==
    /\ Unwritten \in Dir /\ Processed \in Dir /\ \A e \in Event : InboxOf(e) \in Dir
    /\ \A r \in Run : Processing(r) \in Dir /\ Failed(r) \in Dir
  BY DEF Dir, Unwritten, Processed, InboxOf, Processing, Failed

LEMMA DirKinds ==
    /\ Unwritten.kind = "unwritten" /\ Processed.kind = "processed"
    /\ \A e \in Event : InboxOf(e).kind = "inbox"
    /\ \A r \in Run : Processing(r).kind = "processing" /\ Failed(r).kind = "failed"
    /\ \A q, r \in Run : Processing(q) = Processing(r) => q = r
    /\ \A d, e \in Event : InboxOf(d) = InboxOf(e) <=> WriterOf[d] = WriterOf[e]
  BY DEF Unwritten, Processed, InboxOf, Processing, Failed
-----------------------------------------------------------------------------
(* Types.                                                                  *)
LEMMA TypeInit == Init => TypeOK
  BY DirTypes DEF Init, TypeOK, Run, NoCarry

LEMMA CarryTypes ==
    ASSUME TypeOK, NEW e \in Event, StartCarry(e)
    PROVE  carry' \in [event : {0} \cup Event, from : Dir, cited : SUBSET Blob,
                       left : SUBSET Blob, stage : {"none", "scan", "copy"}]
  BY DirTypes DEF TypeOK, StartCarry, NoCarry

LEMMA TypeStep ==
    ASSUME TypeOK, ControlOK, CarryOK, [Next]_vars PROVE TypeOK'
  <1>1. ASSUME NEW e \in Event, NEW b \in Blob, Stage(e, b) PROVE TypeOK'
    BY <1>1, DirTypes DEF Stage, TypeOK
  <1>2. ASSUME NEW e \in Event, Append(e) PROVE TypeOK'
    BY <1>2, DirTypes DEF Append, TypeOK
  <1>3. CASE CarryScan
    <2>1. CitedIn(carry.from) \subseteq Blob
      BY DEF CitedIn, Within
    <2> QED
      BY <1>3, <2>1 DEF CarryScan, TypeOK
  <1>4. CASE CarryOne
    BY <1>4, DirTypes DEF CarryOne, Carried, TypeOK, CarryOK, Carrying, NoCarry
  <1>5. CASE ClaimMove
    BY <1>5, DirTypes, CarryTypes DEF ClaimMove, Rename, TypeOK, ControlOK, InRun
  <1>6. CASE DrainMove
    BY <1>6, DirTypes, CarryTypes DEF DrainMove, Rename, TypeOK, ControlOK, InRun
  <1>7. CASE DisposeMove
    BY <1>7, DirTypes, CarryTypes DEF DisposeMove, Rename, TypeOK, ControlOK, InRun
  <1>8. CASE RequeueMove
    BY <1>8, DirTypes, CarryTypes DEF RequeueMove, Rename, TypeOK
  <1>9. CASE ClaimBegin
    BY <1>9 DEF ClaimBegin, TypeOK, Run, Pending
  <1>10. CASE ClaimManifest
    BY <1>10 DEF ClaimManifest, TypeOK
  <1>11. CASE Publish
    BY <1>11 DEF Publish, TypeOK, Within, Beside
  <1>12. CASE Finalize \/ Fail \/ RemoveRun
    BY <1>12 DEF Finalize, Fail, RemoveRun, TypeOK, Within
  <1>13. CASE RequeueBegin \/ RequeueEnd
    <2>1. CASE RequeueBegin
      <3>1. todo' \subseteq Event /\ requeues' \in 0 .. MaxRequeues
        BY <2>1 DEF RequeueBegin, TypeOK, Terminal
      <3> QED
        BY <2>1, <3>1 DEF RequeueBegin, TypeOK
    <2> QED
      BY <1>13, <2>1 DEF RequeueEnd, TypeOK
  <1>14. CASE Recovery
    BY <1>14 DEF Recovery, RecoverFinalize, RecoverReturn, TypeOK, Within
  <1>15. CASE Crash
    <2>1. cut' \subseteq Event
      BY <1>15 DEF Crash, TypeOK, CarryOK, Carrying
    <2>2. crashes' \in 0 .. MaxCrashes
      BY <1>15 DEF Crash, TypeOK
    <2> QED
      BY <1>15, <2>1, <2>2, DirTypes DEF Crash, TypeOK, NoCarry
  <1>16. CASE UNCHANGED vars
    BY <1>16 DEF vars, TypeOK
  <1> QED
    BY <1>1, <1>2, <1>3, <1>4, <1>5, <1>6, <1>7, <1>8, <1>9, <1>10, <1>11, <1>12,
       <1>13, <1>14, <1>15, <1>16 DEF Next, Capture, Movers, Runs
-----------------------------------------------------------------------------
(* A rename of a mover, and where the movers rename to.                    *)
Moved(e, d) ==
    /\ e \in todo /\ ~Carrying
    /\ place' = [place EXCEPT ![e] = d]
    /\ StartCarry(e)
    /\ todo' = todo \ {e}
    /\ UNCHANGED <<ready, files, runVars, pc, cur, requeues, faults>>
Destination(e, d) ==
    \/ pc = "claim" /\ d = Processing(cur)
    \/ pc = "drain" /\ d = Processed
    \/ pc = "dispose" /\ d \in {InboxOf(e), Failed(cur)}
    \/ pc = "requeue" /\ d = InboxOf(e)

LEMMA Renames ==
    ASSUME TypeOK, ControlOK, Movers
    PROVE  \E e \in Event, d \in Dir : Moved(e, d) /\ Destination(e, d)
  <1>1. todo \subseteq Event /\ (InRun => cur \in Run)
    BY DEF TypeOK, ControlOK
  <1>2. CASE ClaimMove
    <2>1. PICK e \in todo : Moved(e, Processing(cur)) /\ pc = "claim"
      BY <1>2 DEF ClaimMove, Rename, Moved
    <2> QED
      BY <1>1, <2>1, DirTypes DEF Destination, InRun
  <1>3. CASE DrainMove
    <2>1. PICK e \in todo : Moved(e, Processed) /\ pc = "drain"
      BY <1>3 DEF DrainMove, Rename, Moved
    <2> QED
      BY <1>1, <2>1, DirTypes DEF Destination, InRun
  <1>4. CASE DisposeMove
    <2>1. PICK e \in todo : \E d \in {InboxOf(e), Failed(cur)} : Moved(e, d) /\ pc = "dispose"
      BY <1>4 DEF DisposeMove, Rename, Moved
    <2> QED
      BY <1>1, <2>1, DirTypes DEF Destination, InRun
  <1>5. CASE RequeueMove
    <2>1. PICK e \in todo : Moved(e, InboxOf(e)) /\ pc = "requeue"
      BY <1>5 DEF RequeueMove, Rename, Moved
    <2> QED
      BY <1>1, <2>1, DirTypes DEF Destination, InRun
  <1> QED
    BY <1>2, <1>3, <1>4, <1>5 DEF Movers

\* Where an event that a mover renames is, and what its carry then looks like.
LEMMA MovedFacts ==
    ASSUME TypeOK, ControlOK, PlaceOK, NEW e \in Event, NEW d \in Dir,
           Moved(e, d), Destination(e, d)
    PROVE  /\ \/ pc = "claim" /\ place[e] = InboxOf(e)
              \/ pc \in {"drain", "dispose"} /\ place[e] = Processing(cur)
              \/ pc = "requeue" /\ place[e].kind = "failed"
           /\ place[e] \notin {Unwritten, d} /\ d # Unwritten
           /\ place'[e] = d /\ \A x \in Event : x # e => place'[x] = place[x]
           /\ IF Cites[e] = {} THEN carry' = NoCarry
              ELSE carry' = [event |-> e, from |-> place[e], cited |-> {},
                             left |-> Cites[e], stage |-> "scan"]
  <1>1. e \in todo /\ place' = [place EXCEPT ![e] = d] /\ place \in [Event -> Dir]
    BY DEF Moved, TypeOK
  <1>2. /\ carry' = IF Cites[e] = {} THEN NoCarry
                    ELSE [event |-> e, from |-> place[e], cited |-> {},
                          left |-> Cites[e], stage |-> "scan"]
    BY DEF Moved, StartCarry
  <1>3. pc \in {"claim", "drain", "dispose"} => cur \in Run
    BY DEF ControlOK, InRun
  <1>4. pc = "claim" => place[e] = InboxOf(e)
    BY <1>1 DEF ControlOK, PlaceOK
  <1>5. pc \in {"drain", "dispose"} => place[e] = Processing(cur)
    BY <1>1 DEF ControlOK, Within
  <1>6. pc = "requeue" => place[e].kind = "failed"
    BY <1>1 DEF ControlOK
  <1>7. pc \in {"claim", "drain", "dispose", "requeue"}
    BY DEF Destination
  <1>8. place[e] \notin {Unwritten, d} /\ d # Unwritten
    BY <1>3, <1>4, <1>5, <1>6, <1>7, DirKinds DEF Destination
  <1> QED
    BY <1>1, <1>2, <1>4, <1>5, <1>6, <1>7, <1>8

(* Control, the directories and the carry, action by action.               *)
StateOK == TypeOK /\ ControlOK /\ PlaceOK /\ CarryOK
NextOK == ControlOK' /\ PlaceOK' /\ CarryOK'

LEMMA StateInit == Init => StateOK
  <1> SUFFICES ASSUME Init PROVE StateOK
    OBVIOUS
  <1>1. TypeOK
    BY TypeInit
  <1>2. ControlOK
    BY DEF Init, ControlOK, InRun
  <1>3. PlaceOK
    BY DirKinds DEF Init, PlaceOK
  <1>4. CarryOK
    BY DEF Init, CarryOK, Carrying, NoCarry
  <1> QED
    BY <1>1, <1>2, <1>3, <1>4 DEF StateOK

LEMMA CarryingStage ==
    /\ NoCarry.stage = "none" /\ NoCarry.left = {}
    /\ NoCarry.event = 0
  BY DEF NoCarry

LEMMA MovedState ==
    ASSUME StateOK, NEW e \in Event, NEW d \in Dir, Moved(e, d), Destination(e, d)
    PROVE  NextOK
  <1>0. TypeOK /\ ControlOK /\ PlaceOK /\ CarryOK
    BY DEF StateOK
  <1>1. /\ \/ pc = "claim" /\ place[e] = InboxOf(e)
           \/ pc \in {"drain", "dispose"} /\ place[e] = Processing(cur)
           \/ pc = "requeue" /\ place[e].kind = "failed"
        /\ place[e] \notin {Unwritten, d} /\ d # Unwritten
        /\ place'[e] = d /\ \A x \in Event : x # e => place'[x] = place[x]
        /\ IF Cites[e] = {} THEN carry' = NoCarry
           ELSE carry' = [event |-> e, from |-> place[e], cited |-> {},
                          left |-> Cites[e], stage |-> "scan"]
    BY <1>0, MovedFacts
  <1>2. UNCHANGED <<phase, nextRun, pc, cur>> /\ todo' = todo \ {e} /\ todo \subseteq Event
    BY <1>0 DEF Moved, TypeOK
  <1>3. pc \in {"claim", "drain", "dispose"} => cur \in Run
    BY <1>0 DEF ControlOK, InRun
  <1>4. ControlOK'
    <2>1. pc \in {"drain", "dispose"} => todo' = Within(Processing(cur))'
      <3>1. pc \in {"drain", "dispose"} => d # Processing(cur)
        BY <1>3, DirKinds DEF Destination
      <3>2. pc \in {"drain", "dispose"} => todo = Within(Processing(cur))
        BY <1>0 DEF ControlOK
      <3>3. ASSUME pc \in {"drain", "dispose"}
            PROVE  Within(Processing(cur))' = {x \in Event : place'[x] = Processing(cur)}
        BY <1>2 DEF Within, Processing
      <3> QED
        BY <1>1, <1>2, <3>1, <3>2, <3>3 DEF Within
    <2> QED
      BY <1>0, <1>1, <1>2, <2>1 DEF ControlOK, InRun
  <1>5. PlaceOK'
    <2>1. \A x \in Event : place'[x].kind = "inbox" => place'[x] = InboxOf(x)
      BY <1>0, <1>1, <1>3, DirKinds DEF PlaceOK, Destination
    <2>2. ASSUME NEW r \in Run, phase[r] = "finalized" PROVE \A x \in Event : place'[x] # Processing(r)
      <3>1. \A x \in Event : place[x] # Processing(r)
        BY <1>0, <2>2 DEF PlaceOK, Within
      <3>2. d # Processing(r)
        BY <1>0, <1>3, <2>2, DirKinds DEF Destination, ControlOK
      <3> QED
        BY <1>1, <3>1, <3>2
    <2> QED
      BY <1>2, <2>1, <2>2 DEF PlaceOK, Within, Processing, InboxOf
  <1>6. CarryOK'
    <2>1. CASE Cites[e] = {}
      BY <1>1, <2>1, CarryingStage DEF CarryOK, Carrying
    <2>2. CASE Cites[e] # {}
      <3>1. /\ carry'.event = e /\ carry'.from = place[e] /\ carry'.left = Cites[e]
            /\ carry'.stage = "scan"
        BY <1>1, <2>2
      <3> QED
        BY <1>1, <1>2, <3>1 DEF CarryOK, Carrying, Destination, Processing, InboxOf,
           Processed, Unwritten
    <2> QED
      BY <2>1, <2>2
  <1> QED
    BY <1>4, <1>5, <1>6 DEF NextOK

\* A step that renames nothing and touches neither carry nor control.
LEMMA SameControl ==
    ASSUME StateOK, UNCHANGED <<place, phase, nextRun, pc, cur, todo>> PROVE ControlOK' /\ PlaceOK'
  <1>1. ControlOK'
    BY DEF StateOK, ControlOK, InRun, Within
  <1>2. PlaceOK'
    BY DEF StateOK, PlaceOK, Within
  <1> QED
    BY <1>1, <1>2

LEMMA SameCarry ==
    ASSUME CarryOK, UNCHANGED <<place, carry, pc, cur>> PROVE CarryOK'
  BY DEF CarryOK, Carrying, CitedIn, Within

LEMMA CaptureState ==
    ASSUME StateOK, NEW e \in Event, (\E b \in Blob : Stage(e, b)) \/ Append(e) PROVE NextOK
  <1>0. TypeOK /\ ControlOK /\ PlaceOK /\ CarryOK
    BY DEF StateOK
  <1>1. CASE \E b \in Blob : Stage(e, b)
    <2>1. UNCHANGED <<place, phase, nextRun, pc, cur, todo, carry>>
      BY <1>1 DEF Stage
    <2> QED
      BY <1>0, <2>1, SameControl, SameCarry DEF NextOK
  <1>2. CASE Append(e)
    <2>1. /\ UNCHANGED <<phase, nextRun, pc, cur, todo, carry>> /\ place[e] = Unwritten
          /\ place'[e] = InboxOf(e) /\ \A x \in Event : x # e => place'[x] = place[x]
      BY <1>0, <1>2 DEF Append, TypeOK
    <2>3. pc \in {"drain", "dispose", "claim"} => cur \in Run
      BY <1>0 DEF ControlOK, InRun
    <2>4. \A r \in Run : Within(Processing(r))' = Within(Processing(r))
      <3>1. ASSUME NEW r \in Run, NEW x \in Event
            PROVE  place'[x] = Processing(r) <=> place[x] = Processing(r)
        BY <2>1, DirKinds
      <3>2. ASSUME NEW r \in Run
            PROVE  Within(Processing(r))' = {x \in Event : place'[x] = Processing(r)}
        BY DEF Within, Processing
      <3> QED
        BY <3>1, <3>2 DEF Within
    <2>5. ControlOK'
      <3>1. pc \in {"drain", "dispose"} => Within(Processing(cur))' = Within(Processing(cur))
        BY <2>1, <2>3, <2>4 DEF Within, Processing
      <3>2. \A x \in todo : place[x] # Unwritten => place'[x] = place[x]
        BY <1>0, <2>1 DEF TypeOK
      <3> QED
        BY <1>0, <2>1, <3>1, <3>2, DirKinds DEF ControlOK, InRun
    <2>6. PlaceOK'
      BY <1>0, <2>1, <2>4, DirKinds DEF PlaceOK, InboxOf, Processing
    <2>7. CarryOK'
      <3>1. CASE ~Carrying
        BY <1>0, <2>1, <3>1 DEF CarryOK, Carrying
      <3>2. CASE Carrying
        <4>1. carry.from \in Dir /\ carry.event \in Event /\ carry.event # e
          BY <1>0, <2>1, <3>2 DEF CarryOK, TypeOK
        <4>2. carry.from # Unwritten
          BY <1>0, <2>3, <3>2, DirKinds DEF CarryOK
        <4>3. \A x \in Event : place[x] = carry.from => place'[x] = carry.from
          BY <2>1, <4>2
        <4>4. CitedIn(carry.from) \subseteq CitedIn(carry.from)'
          BY <2>1, <4>3 DEF CitedIn, Within
        <4>5. pc # "claim" => carry.from.kind # "inbox"
          BY <1>0, <2>3, <3>2, DirKinds DEF CarryOK
        <4>6. pc # "claim" => CitedIn(carry.from)' \subseteq CitedIn(carry.from)
          <5>1. pc # "claim" => \A x \in Event : place'[x] = carry.from => place[x] = carry.from
            BY <2>1, <4>5, DirKinds
          <5> QED
            BY <2>1, <5>1 DEF CitedIn, Within
        <4> QED
          BY <1>0, <2>1, <3>2, <4>1, <4>4, <4>6 DEF CarryOK, Carrying, Processing, InboxOf,
             Processed, Unwritten
      <3> QED
        BY <3>1, <3>2
    <2> QED
      BY <2>5, <2>6, <2>7 DEF NextOK
  <1> QED
    BY <1>1, <1>2

LEMMA CarryState ==
    ASSUME StateOK, CarryScan \/ CarryOne PROVE NextOK
  <1>0. TypeOK /\ ControlOK /\ PlaceOK /\ CarryOK
    BY DEF StateOK
  <1>1. UNCHANGED <<place, phase, nextRun, pc, cur, todo>> /\ Carrying
    BY DEF CarryScan, CarryOne, Carrying
  <1>2. \A d \in Dir : CitedIn(d)' = CitedIn(d)
    BY <1>1 DEF CitedIn, Within
  <1>3. CarryOK'
    <2>1. CASE CarryScan
      <3>1. /\ carry' = [carry EXCEPT !.cited = CitedIn(carry.from), !.stage = "copy"]
            /\ carry.from \in Dir
        BY <1>0, <2>1 DEF CarryScan, TypeOK
      <3>2. /\ carry'.event = carry.event /\ carry'.left = carry.left /\ carry'.from = carry.from
            /\ carry'.cited = CitedIn(carry.from) /\ carry'.stage = "copy"
        BY <1>0, <3>1 DEF TypeOK
      <3> QED
        BY <1>0, <1>1, <1>2, <3>1, <3>2 DEF CarryOK, Carrying, InboxOf, Processing, Processed,
           Unwritten
    <2>2. CASE CarryOne
      <3>1. carry' = NoCarry \/ \E b \in carry.left : carry' = [carry EXCEPT !.left = @ \ {b}]
        BY <2>2 DEF CarryOne
      <3>2. CASE carry' = NoCarry
        BY <3>2, CarryingStage DEF CarryOK, Carrying
      <3>3. CASE \E b \in carry.left : carry' = [carry EXCEPT !.left = @ \ {b}]
        <4>1. /\ carry'.event = carry.event /\ carry'.left \subseteq carry.left
              /\ carry'.from = carry.from /\ carry'.cited = carry.cited
              /\ carry'.stage = carry.stage /\ carry.from \in Dir
          BY <1>0, <3>3 DEF TypeOK
        <4> QED
          BY <1>0, <1>1, <1>2, <4>1 DEF CarryOK, Carrying, InboxOf, Processing, Processed,
             Unwritten
      <3> QED
        BY <3>1, <3>2, <3>3
    <2> QED
      BY <2>1, <2>2
  <1> QED
    BY <1>0, <1>1, <1>3, SameControl DEF NextOK

\* Control moves only between carries.
LEMMA IdleCarry ==
    ASSUME CarryOK, ~Carrying, UNCHANGED carry PROVE CarryOK'
  BY DEF CarryOK, Carrying, NoCarry, Unwritten

LEMMA RunState ==
    ASSUME StateOK, Runs \/ Recovery \/ Crash PROVE NextOK
  <1>0. TypeOK /\ ControlOK /\ PlaceOK /\ CarryOK
    BY DEF StateOK
  <1>1. UNCHANGED place /\ \A d \in Dir : Within(d)' = Within(d)
    BY DEF Runs, ClaimBegin, ClaimManifest, Publish, Finalize, Fail, RemoveRun, RequeueBegin,
           RequeueEnd, Recovery, RecoverFinalize, RecoverReturn, Crash, Within
  <1>2. CarryOK'
    <2>1. CASE Crash
      BY <2>1, CarryingStage DEF Crash, CarryOK, Carrying
    <2>2. CASE Runs \/ Recovery
      <3>1. UNCHANGED carry /\ ~Carrying
        BY <1>0, <2>2 DEF Runs, ClaimBegin, ClaimManifest, Publish, Finalize, Fail, RemoveRun,
           RequeueBegin, RequeueEnd, Recovery, RecoverFinalize, RecoverReturn, Done, CarryOK
      <3> QED
        BY <1>0, <3>1, IdleCarry
    <2> QED
      BY <2>1, <2>2
  <1>3. \A r \in Run : Within(Processing(r))' = Within(Processing(r))
    BY <1>1 DEF Within, Processing
  <1>4. nextRun \in Nat /\ cur \in {0} \cup Run /\ Run \subseteq Nat
    BY <1>0 DEF TypeOK, Run
  <1>5. ControlOK'
    <2>1. CASE ClaimBegin
      <3>1. /\ cur' = nextRun /\ nextRun' = nextRun + 1 /\ nextRun <= MaxRuns /\ pc' = "claim"
            /\ UNCHANGED phase /\ todo' \subseteq Pending
        BY <2>1 DEF ClaimBegin
      <3>2. nextRun \in Run /\ nextRun < nextRun + 1
        BY <1>0, <3>1 DEF TypeOK, Run
      <3>3. \A e \in todo' : place'[e].kind = "inbox"
        BY <1>1, <3>1 DEF Pending
      <3> QED
        BY <1>0, <1>4, <3>1, <3>2, <3>3 DEF ControlOK, InRun
    <2>2. CASE ClaimManifest
      BY <1>0, <1>4, <2>2 DEF ClaimManifest, Done, ControlOK, InRun, TypeOK
    <2>3. CASE Publish
      BY <1>0, <1>3, <1>4, <2>3 DEF Publish, ControlOK, InRun, TypeOK, Processing, Within
    <2>4. CASE Finalize
      BY <1>0, <1>4, <2>4 DEF Finalize, Done, ControlOK, InRun, TypeOK
    <2>5. CASE Fail
      BY <1>0, <1>3, <1>4, <2>5 DEF Fail, ControlOK, InRun, TypeOK, Processing, Within
    <2>6. CASE RemoveRun
      BY <1>0, <1>4, <2>6 DEF RemoveRun, Done, ControlOK, InRun, TypeOK
    <2>7. CASE RequeueBegin
      <3>1. todo' \subseteq Terminal /\ pc' = "requeue" /\ UNCHANGED <<phase, nextRun, cur>>
        BY <2>7 DEF RequeueBegin
      <3> QED
        BY <1>0, <1>1, <3>1 DEF ControlOK, InRun, Terminal
    <2>8. CASE RequeueEnd
      BY <1>0, <2>8 DEF RequeueEnd, ControlOK, InRun
    <2>9. CASE Crash
      BY <1>0, <2>9 DEF Crash, ControlOK, InRun
    <2>10. ASSUME NEW r \in Run, RecoverFinalize(r) \/ RecoverReturn(r) PROVE ControlOK'
      <3>1. /\ cur' = r /\ UNCHANGED <<phase, nextRun>> /\ todo' = Within(Processing(r))
            /\ \/ pc' = "drain" /\ phase[r] = "published"
               \/ pc' = "dispose" /\ phase[r] = "claimed"
        BY <2>10 DEF RecoverFinalize, RecoverReturn
      <3>2. r < nextRun
        BY <1>0, <1>4, <3>1 DEF ControlOK
      <3>3. todo' = Within(Processing(cur))'
        BY <1>3, <3>1 DEF Processing, Within
      <3> QED
        BY <1>0, <3>1, <3>2, <3>3 DEF ControlOK, InRun
    <2> QED
      BY <2>1, <2>2, <2>3, <2>4, <2>5, <2>6, <2>7, <2>8, <2>9, <2>10 DEF Runs, Recovery
  <1>6. PlaceOK'
    <2>1. ASSUME NEW r \in Run, phase'[r] = "finalized", phase[r] # "finalized"
          PROVE  Within(Processing(r)) = {}
      <3>1. r = cur /\ Finalize
        BY <1>0, <2>1 DEF Runs, ClaimBegin, ClaimManifest, Publish, Finalize, Fail, RemoveRun,
           RequeueBegin, RequeueEnd, Recovery, RecoverFinalize, RecoverReturn, Crash, TypeOK
      <3> QED
        BY <1>0, <3>1 DEF Finalize, Done, ControlOK
    <2> QED
      BY <1>0, <1>1, <1>3, <2>1 DEF PlaceOK, InboxOf
  <1> QED
    BY <1>2, <1>5, <1>6 DEF NextOK

LEMMA StateStep == StateOK /\ [Next]_vars => StateOK'
  <1> SUFFICES ASSUME StateOK, [Next]_vars PROVE StateOK'
    OBVIOUS
  <1>1. TypeOK'
    BY TypeStep DEF StateOK
  <1>2. ASSUME Capture PROVE NextOK
    BY <1>2, CaptureState DEF Capture
  <1>3. ASSUME CarryScan \/ CarryOne PROVE NextOK
    BY <1>3, CarryState
  <1>4. ASSUME Movers PROVE NextOK
    BY <1>4, Renames, MovedState DEF StateOK
  <1>5. ASSUME Runs \/ Recovery \/ Crash PROVE NextOK
    BY <1>5, RunState
  <1>6. ASSUME UNCHANGED vars PROVE NextOK
    <2>1. UNCHANGED <<place, phase, nextRun, pc, cur, todo, carry>>
      BY <1>6 DEF vars
    <2> QED
      BY <2>1, SameControl, SameCarry DEF StateOK, NextOK
  <1>7. NextOK
    BY <1>2, <1>3, <1>4, <1>5, <1>6 DEF Next
  <1> QED
    BY <1>1, <1>7 DEF NextOK, StateOK
-----------------------------------------------------------------------------
(* The bytes.  What a step must keep: a blob that an event holds is held by *)
(* it or by another event of its writer that cites it, unless the process  *)
(* died carrying it; a staged blob stays, or leaves with such an event.    *)
KeepsHolds ==
    \A d \in Event : \A b \in Cites[d] \ Unsafe(WriterOf[d])' : Holds(d, b) =>
        Holds(d, b)' \/ \E c \in Mates(d, b) \ {d} : Holds(c, b)'
KeepsStaged ==
    \A e \in Event : \A b \in Cites[e] : <<InboxOf(e), b>> \in files =>
        \/ <<InboxOf(e), b>> \in files'
        \/ \E c \in Mates(e, b) : place[c] # Unwritten /\ Holds(c, b)'
\* Nothing is unwritten again, and what is appended is staged in full.
KeepsTaken ==
    /\ cut \subseteq cut'
    /\ \A e \in Event : \A b \in Cites[e] :
         Taken(e, b)' => Taken(e, b) \/ <<InboxOf(e), b>> \in files'
    /\ \A e \in Event :
         IF place[e] # Unwritten THEN place'[e] # Unwritten
         ELSE place'[e] = Unwritten \/ (place'[e] = InboxOf(e) /\ ready[e] = Cites[e])

LEMMA MatesShare ==
    ASSUME NEW e \in Event, NEW b, NEW d \in Mates(e, b)
    PROVE  d \in Event /\ WriterOf[d] = WriterOf[e] /\ b \in Cites[d] /\ Mates(d, b) = Mates(e, b)
  BY DEF Mates

LEMMA BytesKept ==
    ASSUME TypeOK', SafeOK, SoleOK, KeepsHolds, KeepsStaged, KeepsTaken
    PROVE  SafeOK' /\ SoleOK'
  <1>1. \A w \in Writer : Unsafe(w) \subseteq Unsafe(w)'
    BY DEF KeepsTaken, Unsafe
  <1>2. SafeOK'
    <2> SUFFICES ASSUME NEW e \in Event, NEW b \in Cites[e], b \notin Unsafe(WriterOf[e])',
                        Taken(e, b)'
                 PROVE  \/ <<InboxOf(e), b>> \in files'
                        \/ \E d \in Mates(e, b) : Holds(d, b)'
      BY DEF SafeOK, InboxOf, Mates
    <2>1. CASE ~Taken(e, b)
      BY <2>1 DEF KeepsTaken
    <2>2. CASE Taken(e, b)
      <3>1. b \notin Unsafe(WriterOf[e])
        BY <1>1
      <3>2. CASE <<InboxOf(e), b>> \in files
        BY <3>2 DEF KeepsStaged
      <3>3. ASSUME NEW d \in Mates(e, b), Holds(d, b)
            PROVE  \E x \in Mates(e, b) : Holds(x, b)'
        <4>1. d \in Event /\ b \in Cites[d] \ Unsafe(WriterOf[d])' /\ Mates(d, b) = Mates(e, b)
          BY MatesShare
        <4> QED
          BY <3>3, <4>1 DEF KeepsHolds
      <3> QED
        BY <2>2, <3>1, <3>2, <3>3 DEF SafeOK
    <2> QED
      BY <2>1, <2>2
  <1>3. SoleOK'
    <2> SUFFICES ASSUME NEW e \in Event, e \notin cut', NEW b \in Cites[e], Mates(e, b) = {e},
                        Taken(e, b)'
                 PROVE  IF place'[e] = Unwritten THEN <<InboxOf(e), b>> \in files'
                        ELSE Holds(e, b)'
      BY DEF SoleOK, InboxOf, Mates, Unwritten
    <2>1. e \notin cut
      BY DEF KeepsTaken
    <2>2. b \notin Unsafe(WriterOf[e])'
      BY DEF TypeOK, Unsafe, Mates
    <2>3. CASE place[e] # Unwritten
      <3>1. Holds(e, b)
        BY <2>1, <2>3 DEF SoleOK, Taken
      <3> QED
        BY <2>2, <2>3, <3>1 DEF KeepsHolds, KeepsTaken
    <2>4. CASE place[e] = Unwritten
      <3>1. <<InboxOf(e), b>> \in files'
        <4>1. CASE Taken(e, b)
          <5>1. <<InboxOf(e), b>> \in files
            BY <2>1, <2>4, <4>1 DEF SoleOK
          <5> QED
            BY <2>4, <5>1 DEF KeepsStaged
        <4>2. CASE ~Taken(e, b)
          BY <4>2 DEF KeepsTaken
        <4> QED
          BY <4>1, <4>2
      <3>2. place'[e] = Unwritten \/ place'[e] = InboxOf(e)
        BY <2>4 DEF KeepsTaken
      <3> QED
        BY <3>1, <3>2 DEF Holds, Unwritten
    <2> QED
      BY <2>3, <2>4
  <1> QED
    BY <1>2, <1>3

LEMMA NothingMoves ==
    ASSUME UNCHANGED <<place, files, carry>> PROVE KeepsHolds /\ KeepsStaged
  BY DEF KeepsHolds, KeepsStaged, Holds, Moving, Carrying, Unwritten

LEMMA SameTaken ==
    ASSUME UNCHANGED <<place, ready>>, cut \subseteq cut' PROVE KeepsTaken
  <1>1. \A e \in Event : place'[e] = place[e] /\ ready'[e] = ready[e]
    OBVIOUS
  <1>2. \A e \in Event : \A b \in Cites[e] : Taken(e, b)' => Taken(e, b)
    BY <1>1 DEF Taken, Unwritten
  <1>3. \A e \in Event : IF place[e] # Unwritten THEN place'[e] # Unwritten
                         ELSE place'[e] = Unwritten
    BY <1>1
  <1> QED
    BY <1>2, <1>3 DEF KeepsTaken

\* An owner keeps the files it owns, or leaves them to another.
OwnersKeep ==
    \A f \in files' : IF f \in files
        THEN \A e \in Event : Owns(e, f) => \E x \in Event : Owns(x, f)'
        ELSE \E x \in Event : Owns(x, f)'
Keeps == KeepsHolds /\ KeepsStaged /\ KeepsTaken /\ OwnersKeep

LEMMA OwnersStay ==
    ASSUME UNCHANGED <<place, ready, carry>>, files' \subseteq files, cut \subseteq cut'
    PROVE  OwnersKeep
  <1>1. ASSUME NEW e \in Event, NEW f, Owns(e, f) PROVE Owns(e, f)'
    BY <1>1 DEF Owns, Moving, Carrying, InboxOf, Unwritten
  <1> QED
    BY <1>1 DEF OwnersKeep

LEMMA CaptureKeeps ==
    ASSUME StateOK, NEW e \in Event, (\E b \in Blob : Stage(e, b)) \/ Append(e) PROVE Keeps
  <1>0. TypeOK /\ PlaceOK
    BY DEF StateOK
  <1>1. CASE \E b \in Blob : Stage(e, b)
    <2>1. PICK b \in Blob : Stage(e, b)
      BY <1>1
    <2>2. /\ UNCHANGED <<place, carry, cut>> /\ place[e] = Unwritten /\ b \in Cites[e]
          /\ files' = files \cup {<<InboxOf(e), b>>} /\ ready'[e] = ready[e] \cup {b}
          /\ \A x \in Event : x # e => ready'[x] = ready[x]
      BY <1>0, <2>1 DEF Stage, TypeOK
    <2>3. KeepsHolds
      BY <2>2 DEF KeepsHolds, Holds, Moving, Carrying, Unwritten
    <2>4. KeepsStaged
      BY <2>2 DEF KeepsStaged
    <2>5. KeepsTaken
      <3>1. ASSUME NEW x \in Event, NEW c \in Cites[x], Taken(x, c)'
            PROVE  Taken(x, c) \/ <<InboxOf(x), c>> \in files'
        BY <2>2, <3>1 DEF Taken, Unwritten
      <3>2. \A x \in Event : place'[x] = place[x]
        BY <2>2
      <3> QED
        BY <2>2, <3>1, <3>2 DEF KeepsTaken
    <2>6. OwnersKeep
      <3>1. ASSUME NEW x \in Event, NEW f, Owns(x, f) PROVE Owns(x, f)'
        BY <2>2, <3>1 DEF Owns, Moving, Carrying, InboxOf, Unwritten
      <3>2. Owns(e, <<InboxOf(e), b>>)'
        BY <2>2, DirKinds DEF Owns, InboxOf, Unwritten
      <3> QED
        BY <2>2, <3>1, <3>2 DEF OwnersKeep
    <2> QED
      BY <2>3, <2>4, <2>5, <2>6 DEF Keeps
  <1>2. CASE Append(e)
    <2>1. /\ UNCHANGED <<ready, files, carry, cut>> /\ place[e] = Unwritten
          /\ ready[e] = Cites[e] /\ place'[e] = InboxOf(e)
          /\ \A x \in Event : x # e => place'[x] = place[x]
      BY <1>0, <1>2 DEF Append, TypeOK
    <2>2. KeepsHolds
      BY <2>1 DEF KeepsHolds, Holds, Moving, Carrying, Unwritten
    <2>3. KeepsStaged
      BY <2>1 DEF KeepsStaged
    <2>4. KeepsTaken
      <3>1. ASSUME NEW x \in Event, NEW c \in Cites[x], Taken(x, c)' PROVE Taken(x, c)
        BY <2>1, <3>1 DEF Taken, Unwritten
      <3> QED
        BY <2>1, <3>1 DEF KeepsTaken
    <2>5. OwnersKeep
      <3>1. ASSUME NEW x \in Event, NEW f \in files, Owns(x, f) PROVE Owns(x, f)'
        BY <2>1, <3>1 DEF Owns, Moving, Carrying, InboxOf, Unwritten
      <3> QED
        BY <2>1, <3>1 DEF OwnersKeep
    <2> QED
      BY <2>2, <2>3, <2>4, <2>5 DEF Keeps
  <1> QED
    BY <1>1, <1>2

LEMMA ScanKeeps ==
    ASSUME StateOK, CarryScan PROVE Keeps
  <1>1. /\ UNCHANGED <<place, ready, files, cut>> /\ Carrying
        /\ carry' = [carry EXCEPT !.cited = CitedIn(carry.from), !.stage = "copy"]
    BY DEF CarryScan, Carrying
  <1>2. TypeOK
    BY DEF StateOK
  <1>3. /\ carry'.event = carry.event /\ carry'.from = carry.from /\ carry'.left = carry.left
        /\ carry'.stage = "copy"
    BY <1>1, <1>2 DEF TypeOK
  <1>4. \A e \in Event, b \in Blob : Moving(e, b)' <=> Moving(e, b)
    BY <1>1, <1>3 DEF Moving, Carrying
  <1>5. KeepsHolds
    BY <1>1, <1>3 DEF KeepsHolds, Holds, Moving, Carrying, Unwritten
  <1>6. KeepsStaged
    BY <1>1 DEF KeepsStaged
  <1>7. KeepsTaken
    BY <1>1, SameTaken
  <1>8. OwnersKeep
    <2>1. ASSUME NEW e \in Event, NEW f, Owns(e, f) PROVE Owns(e, f)'
      BY <1>1, <1>3, <2>1 DEF Owns, Moving, Carrying, InboxOf, Unwritten
    <2> QED
      BY <1>1, <2>1 DEF OwnersKeep
  <1> QED
    BY <1>5, <1>6, <1>7, <1>8 DEF Keeps

\* One blob of a carry: it arrives before it is reclaimed, and it is reclaimed
\* from nobody but the event that takes it, or a capture of its writer.
LEMMA CarryOneKeeps ==
    ASSUME StateOK, FilesOwned, CarryOne PROVE Keeps
  <1>0. TypeOK /\ PlaceOK /\ CarryOK /\ ControlOK
    BY DEF StateOK
  <1>event. PICK c \in Event : c = carry.event
    BY <1>0 DEF CarryOne, CarryOK, Carrying
  <1> DEFINE from == carry.from
             to == place[c]
  <1>1. PICK b \in carry.left :
          /\ files' = Carried(from, to, b)
          /\ carry' = IF carry.left = {b} THEN NoCarry ELSE [carry EXCEPT !.left = @ \ {b}]
    BY <1>event DEF CarryOne
  <1>2. UNCHANGED <<place, ready, cut>> /\ Carrying /\ carry.stage = "copy"
    BY DEF CarryOne, Carrying
  <1>3. /\ c \in Event /\ carry.left \subseteq Cites[c] /\ to \notin {Unwritten, from}
        /\ carry.cited \subseteq CitedIn(from) /\ from # Unwritten
        /\ pc = "claim" => from = InboxOf(c)
        /\ pc # "claim" => CitedIn(from) \subseteq carry.cited /\ from.kind # "inbox"
    <2>1. pc \in {"drain", "dispose"} => cur \in Run
      BY <1>0 DEF ControlOK, InRun
    <2> QED
      BY <1>0, <1>event, <1>2, <2>1, DirKinds DEF CarryOK
  \* What one blob changes.
  <1>4. /\ files' \subseteq files \cup {<<to, b>>}
        /\ files \ {<<from, b>>} \subseteq files'
        /\ <<from, b>> \in files => <<to, b>> \in files'
        /\ <<from, b>> \in files /\ <<from, b>> \notin files' => b \notin carry.cited
        /\ <<to, b>> \in files' /\ <<to, b>> \notin files => <<from, b>> \in files
        /\ <<from, b>> \in files' => b \in carry.cited
    <2>1. <<to, b>> # <<from, b>>
      BY <1>3
    <2> HIDE DEF from, to
    <2> QED
      BY <1>1, <2>1 DEF Carried
  <1>5. \A e, x : (Moving(e, x) /\ x # b) => /\ Moving(e, x)' /\ carry'.from = from
                                             /\ carry'.event = c
    <2>1. ASSUME NEW e, NEW x, Moving(e, x), x # b
          PROVE  /\ carry' = [carry EXCEPT !.left = @ \ {b}]
      BY <1>1, <2>1 DEF Moving
    <2> QED
      BY <1>0, <1>event, <1>2, <2>1 DEF Moving, Carrying, TypeOK
  <1> HIDE DEF from, to
  \* A file that goes from a directory goes with the event that is carried.
  <1>6. ASSUME <<from, b>> \in files, <<from, b>> \notin files',
               NEW d \in Event, b \in Cites[d], place[d] = from
        PROVE  c \in Mates(d, b) \ {d}
    <2>1. b \notin carry.cited /\ b \in CitedIn(from)
      BY <1>4, <1>6 DEF CitedIn, Within
    <2>2. from = InboxOf(c) /\ from.kind = "inbox"
      BY <1>3, <2>1, DirKinds DEF from
    <2>3. InboxOf(d) = InboxOf(c)
      BY <1>0, <1>6, <2>2 DEF PlaceOK
    <2> QED
      BY <1>3, <1>6, <2>3, DirKinds DEF Mates, to
  <1>7. ASSUME <<from, b>> \in files, <<from, b>> \notin files',
               NEW d \in Event, b \in Cites[d], InboxOf(d) = from
        PROVE  c \in Mates(d, b)
    <2>1. from = InboxOf(c)
      BY <1>3, <1>7, DirKinds
    <2> QED
      BY <1>3, <1>7, <2>1, DirKinds DEF Mates
  <1>8. <<to, b>> \in files' => Holds(c, b)'
    BY <1>2, <1>3 DEF Holds, to, Unwritten
  <1>9. KeepsHolds
    <2> SUFFICES ASSUME NEW d \in Event, NEW x \in Cites[d], Holds(d, x)
                 PROVE  Holds(d, x)' \/ \E y \in Mates(d, x) \ {d} : Holds(y, x)'
      BY DEF KeepsHolds
    <2>1. place'[d] = place[d] /\ place[d] # Unwritten
      BY <1>2 DEF Holds
    <2>2. CASE <<place[d], x>> \in files
      <3>1. CASE <<place[d], x>> \in files'
        BY <2>1, <3>1 DEF Holds, Unwritten
      <3>2. CASE <<place[d], x>> \notin files'
        <4>1. x = b /\ place[d] = from
          BY <1>4, <2>2, <3>2
        <4> QED
          BY <1>4, <1>6, <1>8, <2>2, <3>2, <4>1
      <3> QED
        BY <3>1, <3>2
    <2>3. CASE Moving(d, x) /\ <<from, x>> \in files
      <3>1. d = c
        BY <1>event, <2>3 DEF Moving
      <3>2. CASE x = b
        BY <1>4, <1>8, <2>3, <3>1, <3>2
      <3>3. CASE x # b
        <4>1. <<from, x>> \in files' /\ Moving(d, x)' /\ carry'.from = from
          BY <1>4, <1>5, <2>3, <3>3
        <4> QED
          BY <2>1, <4>1 DEF Holds, Unwritten
      <3> QED
        BY <3>2, <3>3
    <2> QED
      BY <2>2, <2>3 DEF Holds, from
  <1>10. KeepsStaged
    <2> SUFFICES ASSUME NEW d \in Event, NEW x \in Cites[d], <<InboxOf(d), x>> \in files,
                        <<InboxOf(d), x>> \notin files'
                 PROVE  \E y \in Mates(d, x) : place[y] # Unwritten /\ Holds(y, x)'
      BY DEF KeepsStaged
    <2>1. x = b /\ InboxOf(d) = from
      BY <1>4
    <2> QED
      BY <1>3, <1>4, <1>7, <1>8, <2>1 DEF to
  <1>11. KeepsTaken
    BY <1>2, SameTaken
  <1>12. OwnersKeep
    <2>1. ASSUME NEW f \in files', f \notin files PROVE Owns(c, f)'
      <3>1. f = <<to, b>>
        BY <1>4, <2>1
      <3>2. to.kind = "inbox" => InboxOf(c) = to
        BY <1>0, <1>3 DEF PlaceOK, to
      <3>3. f[1] = to /\ f[2] = b /\ place'[c] = to
        BY <1>2, <3>1 DEF to
      <3> QED
        BY <1>3, <3>2, <3>3 DEF Owns, InboxOf, Unwritten
    <2>2. ASSUME NEW f \in files', f \in files, NEW e \in Event, Owns(e, f)
          PROVE  \E x \in Event : Owns(x, f)'
      <3>1. CASE ~(Moving(e, f[2]) /\ from = f[1])
        BY <1>2, <2>2, <3>1 DEF Owns, InboxOf, Unwritten, from
      <3>2. CASE Moving(e, f[2]) /\ from = f[1] /\ f[2] # b
        <4>1. Moving(e, f[2])' /\ carry'.from = f[1]
          BY <1>5, <3>2
        <4> QED
          BY <1>2, <2>2, <4>1 DEF Owns, InboxOf, Unwritten
      <3>3. CASE from = f[1] /\ f[2] = b
        <4>1. f = <<from, b>>
          BY <1>0, <2>2, <3>3 DEF TypeOK
        <4>2. b \in CitedIn(from)
          BY <1>3, <1>4, <2>2, <4>1
        <4>3. PICK x \in Event : place[x] = from /\ b \in Cites[x]
          BY <4>2 DEF CitedIn, Within
        <4>4. from.kind = "inbox" => InboxOf(x) = from
          BY <1>0, <4>3 DEF PlaceOK
        <4>5. Owns(x, f)'
          BY <1>2, <1>3, <3>3, <4>3, <4>4 DEF Owns, InboxOf, Unwritten
        <4> QED
          BY <4>5
      <3> QED
        BY <3>1, <3>2, <3>3
    <2> QED
      BY <1>3, <2>1, <2>2 DEF OwnersKeep
  <1> QED
    BY <1>9, <1>10, <1>11, <1>12 DEF Keeps

LEMMA MovedKeeps ==
    ASSUME StateOK, NEW e \in Event, NEW d \in Dir, Moved(e, d), Destination(e, d) PROVE Keeps
  <1>0. TypeOK /\ ControlOK /\ PlaceOK
    BY DEF StateOK
  <1>1. UNCHANGED <<ready, files, cut>> /\ ~Carrying
    BY DEF Moved
  <1>2. /\ place[e] \notin {Unwritten, d} /\ d # Unwritten
        /\ place'[e] = d /\ \A x \in Event : x # e => place'[x] = place[x]
        /\ IF Cites[e] = {} THEN carry' = NoCarry
           ELSE carry' = [event |-> e, from |-> place[e], cited |-> {},
                          left |-> Cites[e], stage |-> "scan"]
    BY <1>0, MovedFacts
  <1>3. \A b \in Cites[e] : Moving(e, b)' /\ carry'.from = place[e]
    BY <1>2 DEF Moving, Carrying
  <1>4. KeepsHolds
    <2> SUFFICES ASSUME NEW x \in Event, NEW b \in Cites[x], Holds(x, b) PROVE Holds(x, b)'
      BY DEF KeepsHolds
    <2>1. <<place[x], b>> \in files /\ place[x] # Unwritten
      BY <1>1 DEF Holds, Moving
    <2>2. CASE x = e
      BY <1>1, <1>2, <1>3, <2>1, <2>2 DEF Holds, Unwritten
    <2>3. CASE x # e
      BY <1>1, <1>2, <2>1, <2>3 DEF Holds, Unwritten
    <2> QED
      BY <2>2, <2>3
  <1>5. KeepsStaged
    BY <1>1 DEF KeepsStaged
  <1>6. KeepsTaken
    <2>1. ASSUME NEW x \in Event, NEW b \in Cites[x], Taken(x, b)' PROVE Taken(x, b)
      BY <1>1, <1>2, <2>1 DEF Taken, Unwritten
    <2>2. \A x \in Event : IF place[x] # Unwritten THEN place'[x] # Unwritten
                           ELSE place'[x] = Unwritten
      BY <1>2
    <2> QED
      BY <1>1, <2>1, <2>2 DEF KeepsTaken
  <1>7. OwnersKeep
    <2>1. ASSUME NEW f \in files, NEW x \in Event, Owns(x, f) PROVE Owns(x, f)'
      <3>1. CASE x = e /\ place[e] = f[1]
        <4>1. Moving(e, f[2])' /\ carry'.from = f[1]
          BY <1>3, <2>1, <3>1 DEF Owns
        <4> QED
          BY <2>1, <3>1, <4>1 DEF Owns, InboxOf, Unwritten
      <3>2. CASE ~(x = e /\ place[e] = f[1])
        BY <1>1, <1>2, <2>1, <3>2 DEF Owns, Moving, InboxOf, Unwritten
      <3> QED
        BY <3>1, <3>2
    <2> QED
      BY <1>1, <2>1 DEF OwnersKeep
  <1> QED
    BY <1>4, <1>5, <1>6, <1>7 DEF Keeps

LEMMA RunKeeps ==
    ASSUME StateOK, Runs \/ Recovery PROVE Keeps
  <1>0. TypeOK /\ ControlOK /\ CarryOK
    BY DEF StateOK
  <1>1. UNCHANGED <<place, ready, carry, cut>>
    BY DEF Runs, ClaimBegin, ClaimManifest, Publish, Finalize, Fail, RemoveRun, RequeueBegin,
           RequeueEnd, Recovery, RecoverFinalize, RecoverReturn
  <1>2. KeepsTaken
    BY <1>1, SameTaken
  <1>3. CASE RemoveRun
    <2>1. /\ files' = {f \in files : f[1] # Processing(cur)} /\ ~Carrying /\ todo = {}
          /\ pc = "dispose"
      BY <1>3 DEF RemoveRun, Done
    <2>2. cur \in Run /\ \A e \in Event : place[e] # Processing(cur)
      BY <1>0, <2>1 DEF ControlOK, InRun, Within
    <2>3. KeepsHolds
      <3> SUFFICES ASSUME NEW e \in Event, NEW b \in Cites[e], Holds(e, b) PROVE Holds(e, b)'
        BY DEF KeepsHolds
      <3>1. <<place[e], b>> \in files' /\ place'[e] = place[e] /\ place[e] # Unwritten
        BY <1>1, <2>1, <2>2 DEF Holds, Moving
      <3> QED
        BY <3>1 DEF Holds, Unwritten
    <2>4. KeepsStaged
      BY <2>1, <2>2, DirKinds DEF KeepsStaged
    <2>5. OwnersKeep
      BY <1>1, <2>1, OwnersStay
    <2> QED
      BY <1>2, <2>3, <2>4, <2>5 DEF Keeps
  <1>4. CASE ~RemoveRun
    <2>1. UNCHANGED files
      BY <1>4 DEF Runs, ClaimBegin, ClaimManifest, Publish, Finalize, Fail, RequeueBegin,
           RequeueEnd, Recovery, RecoverFinalize, RecoverReturn
    <2> QED
      BY <1>1, <1>2, <2>1, NothingMoves, OwnersStay DEF Keeps
  <1> QED
    BY <1>3, <1>4

\* Whose carry a crash cuts short is in cut from then on.
LEMMA CrashKeeps ==
    ASSUME StateOK, Crash PROVE Keeps
  <1>0. TypeOK /\ CarryOK
    BY DEF StateOK
  <1>1. /\ UNCHANGED <<place, ready, files>> /\ carry' = NoCarry
        /\ cut \subseteq cut' /\ (Carrying => carry.event \in cut')
    BY DEF Crash
  <1>2. KeepsHolds
    <2> SUFFICES ASSUME NEW e \in Event, NEW b \in Cites[e] \ Unsafe(WriterOf[e])', Holds(e, b)
                 PROVE  Holds(e, b)'
      BY DEF KeepsHolds
    <2>1. ~Moving(e, b)
      BY <1>1 DEF Moving, Unsafe
    <2> QED
      BY <1>1, <2>1 DEF Holds, Unwritten
  <1>3. KeepsStaged
    BY <1>1 DEF KeepsStaged
  <1>4. KeepsTaken
    BY <1>1, SameTaken
  <1>5. OwnersKeep
    <2>1. ASSUME NEW e \in Event, NEW f, Owns(e, f) PROVE Owns(e, f)'
      BY <1>1, <2>1 DEF Owns, Moving, InboxOf, Unwritten
    <2> QED
      BY <1>1, <2>1 DEF OwnersKeep
  <1> QED
    BY <1>2, <1>3, <1>4, <1>5 DEF Keeps
-----------------------------------------------------------------------------
(* What a run held when it published.                                      *)
LEMMA HeldStays ==
    ASSUME TypeOK, UNCHANGED held,
           \A r \in Run : phase'[r] \in {"none", "claimed"} => held[r] = {},
           \A r \in Run : \A b \in held[r] :
             <<Processing(r), b>> \in files' \/ <<Processed, b>> \in files'
    PROVE  HeldOK'
  <1>1. \A r \in Run : held[r] \subseteq Blob
    BY DEF TypeOK
  <1>2. PublishedBytesStay'
    BY <1>1 DEF PublishedBytesStay, Beside, Processing, Processed
  <1> QED
    BY <1>2 DEF HeldOK

LEMMA HeldStep ==
    ASSUME StateOK, HeldOK, [Next]_vars PROVE HeldOK'
  <1>0. TypeOK /\ ControlOK /\ CarryOK
    BY DEF StateOK
  <1>1. \A r \in Run : \A b \in held[r] :
          <<Processing(r), b>> \in files \/ <<Processed, b>> \in files
    BY <1>0 DEF HeldOK, PublishedBytesStay, Beside
  <1>2. \A r \in Run : phase[r] \in {"none", "claimed"} => held[r] = {}
    BY DEF HeldOK
  <1>3. pc \in {"claim", "apply", "drain", "dispose"} => cur \in Run
    BY <1>0 DEF ControlOK, InRun
  <1>4. CASE CarryOne
    <2>1. PICK b \in carry.left : files' = Carried(carry.from, place[carry.event], b)
      BY <1>4 DEF CarryOne
    <2>2. UNCHANGED <<held, phase>> /\ Carrying
      BY <1>4 DEF CarryOne, Carrying
    <2>3. \A f \in files : f \in files' \/ (f = <<carry.from, b>>
                                            /\ <<place[carry.event], b>> \in files')
      <3>1. place[carry.event] # carry.from
        BY <1>0, <2>2 DEF CarryOK
      <3> QED
        BY <2>1, <3>1 DEF Carried
    <2>4. carry.from # Processed
      BY <1>0, <1>3, <2>2, DirKinds DEF CarryOK
    <2>5. ASSUME NEW r \in Run, NEW x \in held[r], carry.from = Processing(r)
          PROVE  place[carry.event] = Processed
      <3>1. pc \in {"drain", "dispose"} /\ r = cur
        BY <1>0, <1>3, <2>2, <2>5, DirKinds DEF CarryOK
      <3>2. pc # "dispose"
        BY <1>0, <1>2, <2>5, <3>1 DEF ControlOK
      <3> QED
        BY <1>0, <2>2, <2>5, <3>1, <3>2 DEF CarryOK
    <2>6. \A r \in Run : \A x \in held[r] :
            <<Processing(r), x>> \in files' \/ <<Processed, x>> \in files'
      BY <1>1, <2>3, <2>4, <2>5
    <2> QED
      BY <1>0, <1>2, <2>2, <2>6, HeldStays
  <1>5. CASE RemoveRun
    <2>1. /\ files' = {f \in files : f[1] # Processing(cur)} /\ pc = "dispose"
          /\ phase' = [phase EXCEPT ![cur] = "none"] /\ UNCHANGED held
      BY <1>5 DEF RemoveRun, Done
    <2>2. cur \in Run /\ held[cur] = {}
      BY <1>0, <1>2, <1>3, <2>1 DEF ControlOK
    <2>3. \A r \in Run : \A x \in held[r] :
            <<Processing(r), x>> \in files' \/ <<Processed, x>> \in files'
      BY <1>1, <2>1, <2>2, DirKinds
    <2>4. \A r \in Run : phase'[r] \in {"none", "claimed"} => held[r] = {}
      BY <1>0, <1>2, <2>1, <2>2 DEF TypeOK
    <2> QED
      BY <1>0, <2>1, <2>3, <2>4, HeldStays
  <1>6. CASE Publish
    <2>1. /\ held' = [held EXCEPT ![cur] = Beside(Processing(cur))] /\ pc = "apply"
          /\ phase' = [phase EXCEPT ![cur] = "published"] /\ UNCHANGED files
      BY <1>6 DEF Publish
    <2>2. cur \in Run
      BY <1>3, <2>1
    <2>3. \A r \in Run : phase'[r] \in {"none", "claimed"} => held'[r] = {}
      BY <1>0, <1>2, <2>1, <2>2 DEF TypeOK
    <2>4. \A r \in Run : Beside(Processing(r))' = Beside(Processing(r))
      BY <2>1 DEF Beside, Processing
    <2>5. Beside(Processed)' = Beside(Processed)
      BY <2>1 DEF Beside, Processed
    <2>6. \A r \in Run : held'[r] \subseteq Beside(Processing(r)) \cup Beside(Processed)
      BY <1>0, <2>1, <2>2 DEF HeldOK, PublishedBytesStay, TypeOK
    <2> QED
      BY <2>3, <2>4, <2>5, <2>6 DEF HeldOK, PublishedBytesStay
  <1>7. CASE ClaimManifest \/ Finalize
    <2>1. UNCHANGED <<files, held>>
      BY <1>7 DEF ClaimManifest, Finalize
    <2>2. \A r \in Run : phase'[r] \in {"none", "claimed"} => held[r] = {}
      BY <1>0, <1>2, <1>3, <1>7 DEF ClaimManifest, Finalize, Done, ControlOK, TypeOK
    <2> QED
      BY <1>0, <1>1, <2>1, <2>2, HeldStays
  <1>8. ASSUME UNCHANGED <<held, phase>>, files \subseteq files' PROVE HeldOK'
    BY <1>0, <1>1, <1>2, <1>8, HeldStays
  <1>9. CASE Capture \/ CarryScan \/ Recovery \/ Crash \/ UNCHANGED vars
    <2>1. UNCHANGED <<held, phase>> /\ files \subseteq files'
      BY <1>9 DEF Capture, Stage, Append, CarryScan, Recovery, RecoverFinalize, RecoverReturn,
         Crash, vars
    <2> QED
      BY <1>8, <2>1
  <1>10. CASE Movers
    <2>1. UNCHANGED <<held, phase, files>>
      BY <1>0, <1>10, Renames DEF Moved
    <2> QED
      BY <1>8, <2>1
  <1>11. CASE ClaimBegin \/ Fail \/ RequeueBegin \/ RequeueEnd
    <2>1. UNCHANGED <<held, phase, files>>
      BY <1>11 DEF ClaimBegin, Fail, RequeueBegin, RequeueEnd
    <2> QED
      BY <1>8, <2>1
  <1> QED
    BY <1>4, <1>5, <1>6, <1>7, <1>9, <1>10, <1>11 DEF Next, Runs
-----------------------------------------------------------------------------
(* The theorems.                                                           *)
LEMMA BytesInit == Init => SafeOK /\ SoleOK /\ FilesOwned /\ HeldOK
  <1> SUFFICES ASSUME Init PROVE SafeOK /\ SoleOK /\ FilesOwned /\ HeldOK
    OBVIOUS
  <1>1. \A e \in Event, b \in Blob : ~Taken(e, b)
    BY DEF Init, Taken
  <1>2. \A e \in Event : Cites[e] \subseteq Blob
    OBVIOUS
  <1>3. SafeOK /\ SoleOK
    BY <1>1, <1>2 DEF SafeOK, SoleOK
  <1> QED
    BY <1>3 DEF Init, FilesOwned, HeldOK, PublishedBytesStay

LEMMA InvStep == StateOK /\ SafeOK /\ SoleOK /\ FilesOwned /\ HeldOK /\ [Next]_vars
                   => (StateOK /\ SafeOK /\ SoleOK /\ FilesOwned /\ HeldOK)'
  <1> SUFFICES ASSUME StateOK, SafeOK, SoleOK, FilesOwned, HeldOK, [Next]_vars
               PROVE  (StateOK /\ SafeOK /\ SoleOK /\ FilesOwned /\ HeldOK)'
    OBVIOUS
  <1>1. StateOK' /\ HeldOK'
    BY StateStep, HeldStep
  <1>2. ASSUME UNCHANGED vars PROVE Keeps
    <2>1. UNCHANGED <<place, ready, files, carry, cut>>
      BY <1>2 DEF vars
    <2> QED
      BY <2>1, NothingMoves, SameTaken, OwnersStay DEF Keeps
  <1>3. Keeps
    BY <1>2, CaptureKeeps, ScanKeeps, CarryOneKeeps, Renames, MovedKeeps, RunKeeps, CrashKeeps
       DEF Next, Capture, StateOK
  <1>4. SafeOK' /\ SoleOK'
    BY <1>1, <1>3, BytesKept DEF Keeps, StateOK
  <1>5. FilesOwned'
    BY <1>3 DEF Keeps, OwnersKeep, FilesOwned
  <1> QED
    BY <1>1, <1>4, <1>5

\* Where every event and every blob is, between any two steps.
THEOREM Invariant == Spec => []IInv
  <1>1. StateOK /\ SafeOK /\ SoleOK /\ FilesOwned /\ HeldOK => IInv
    BY DEF StateOK, IInv
  <1>2. Spec => [](StateOK /\ SafeOK /\ SoleOK /\ FilesOwned /\ HeldOK)
    BY StateInit, BytesInit, InvStep, PTL DEF Spec
  <1> QED
    BY <1>1, <1>2, PTL

\* No carry, shared file, recovery or removal of a run directory loses the bytes an
\* event names, but for a carry that a crash cut short (spool.py: carry_attachments).
THEOREM BytesAreKept == Spec => []NoBytesLost
  <1>1. IInv => NoBytesLost
    <2> SUFFICES ASSUME IInv PROVE NoBytesLost
      OBVIOUS
    <2>1. BytesSurvive
      <3> SUFFICES ASSUME NEW e \in Event, place[e] # Unwritten,
                          NEW b \in Cites[e] \ Unsafe(WriterOf[e])
                   PROVE  \E f \in files : f[2] = b
        BY DEF BytesSurvive
      <3>1. <<InboxOf(e), b>> \in files \/ \E d \in Mates(e, b) : Holds(d, b)
        BY DEF IInv, SafeOK, Taken
      <3>2. \E x : <<x, b>> \in files
        BY <3>1 DEF Holds
      <3> QED
        BY <3>2
    <2> QED
      BY <2>1 DEF IInv, HeldOK, NoBytesLost
  <1> QED
    BY <1>1, Invariant, PTL

\* The bytes of an event are beside it wherever it rests, and what is beside nothing
\* that cites it was left there by a crash.
THEOREM BytesFollow == Spec => []BytesFollowEvents
  <1>1. IInv => BytesFollowEvents
    <2> SUFFICES ASSUME IInv PROVE BytesFollowEvents
      OBVIOUS
    <2>0. TypeOK /\ PlaceOK /\ CarryOK /\ SoleOK /\ FilesOwned /\ ControlOK
      BY DEF IInv
    <2>1. BesideAtRest
      <3> SUFFICES ASSUME NEW e \in Event \ cut, place[e] # Unwritten, carry.event # e,
                          NEW b \in Cites[e] \ Beside(place[e]),
                          \A d \in Event \ {e} : ~(WriterOf[d] = WriterOf[e] /\ b \in Cites[d])
                   PROVE  FALSE
        BY DEF BesideAtRest
      <3>1. Mates(e, b) = {e}
        BY DEF Mates
      <3>2. Holds(e, b)
        BY <2>0, <3>1 DEF SoleOK, Taken
      <3> QED
        BY <2>0, <3>2 DEF Holds, Moving, Beside
    <2>2. NoStagedOrphan
      <3> SUFFICES ASSUME pc = "idle", NEW f \in files, f[1].kind = "inbox"
                   PROVE  \E e \in Event : InboxOf(e) = f[1] /\ f[2] \in Cites[e] /\
                            \/ place[e] = f[1]
                            \/ place[e] = Unwritten /\ f[2] \in ready[e]
                            \/ e \in cut
        BY DEF NoStagedOrphan
      <3>1. ~Carrying
        BY <2>0 DEF CarryOK
      <3> QED
        BY <2>0, <3>1 DEF FilesOwned, Owns, Moving
    <2>3. NothingLeftBehind
      <3> SUFFICES ASSUME NEW r \in Run, phase[r] = "finalized", NEW b \in Beside(Processing(r))
                   PROVE  \E e \in cut : b \in Cites[e]
        BY DEF NothingLeftBehind
      <3>1. <<Processing(r), b>> \in files
        BY DEF Beside
      <3>2. PICK e \in Event : Owns(e, <<Processing(r), b>>)
        BY <2>0, <3>1 DEF FilesOwned
      <3>3. place[e] # Processing(r) /\ Processing(r) # InboxOf(e)
        BY <2>0, DirKinds DEF PlaceOK, Within
      <3>4. ~(Moving(e, b) /\ carry.from = Processing(r))
        <4>1. ASSUME Carrying PROVE carry.from # Processing(r)
          <5>1. pc \in {"claim", "drain", "dispose"} => cur \in Run
            BY <2>0 DEF ControlOK, InRun
          <5>2. pc \in {"drain", "dispose"} => cur # r
            BY <2>0 DEF ControlOK
          <5>3. /\ pc \in {"claim", "drain", "dispose", "requeue"} /\ carry.event \in Event
                /\ pc = "claim" => carry.from = InboxOf(carry.event)
                /\ pc \in {"drain", "dispose"} => carry.from = Processing(cur)
                /\ pc = "requeue" => carry.from.kind = "failed"
            BY <2>0, <4>1 DEF CarryOK
          <5> QED
            BY <5>1, <5>2, <5>3, DirKinds
        <4> QED
          BY <4>1 DEF Moving
      <3> QED
        BY <3>2, <3>3, <3>4 DEF Owns
    <2> QED
      BY <2>1, <2>2, <2>3 DEF BytesFollowEvents
  <1> QED
    BY <1>1, Invariant, PTL
=============================================================================
