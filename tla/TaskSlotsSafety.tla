--------------------------- MODULE TaskSlotsSafety ---------------------------
(***************************************************************************)
(* What the slots promise, for any number of tasks, repositories, runs and *)
(* owner commands.  Every step either keeps and frees slots, admits one    *)
(* queued task below the caps, or overrides the caps for one task that no  *)
(* Co-work turn and no drain stands in the way of (SlotStep); the theorems *)
(* are read off that.                                                      *)
(***************************************************************************)
EXTENDS TaskSlotsProofs, FiniteSetTheorems

(* Task u's slot stays with the run that has it, still under way. *)
Kept(u) ==
  /\ slot'[u] = slot[u]
  /\ slot[u] # 0 /\ runs[u][slot[u]].at # "none" =>
       /\ runs'[u][slot[u]].at # "none"
       /\ runs'[u][slot[u]].kind = runs[u][slot[u]].kind

(* Task u ends up without a slot, for a reason that allows it. *)
Freed(u) ==
  /\ slot'[u] = 0
  /\ slot[u] # 0 => state'[u] \in SLOT_FREE \/ runs'[u][slot[u]].at \in {"none", "unwind"}

Quiet == \A u \in Task : Kept(u) \/ Freed(u)

(* The queue starts t: no drain, and both caps and Co-work leave room. *)
Admits(t) == Start(t, "queued", "prep") /\ ~Full(t) /\ UNCHANGED cowork

(* The owner or a resume starts t past the caps. *)
Overrides(t) ==
  /\ Start(t, "immediate", "prep") \/ Start(t, "resume", "select")
  /\ RepoOf[t] \notin cowork /\ (draining /\ slot[t] = 0 => HasActiveRun(t))
  /\ UNCHANGED cowork

(* A Co-work turn begins only where no task holds a slot. *)
CoworkMoves == \A r \in cowork' : r \in cowork \/ \A t \in Task : RepoOf[t] = r => slot[t] = 0

-----------------------------------------------------------------------------
(* A slot number that is not zero names a run. *)
LEMMA SlotNamesRun == ASSUME TypeOK, NEW u \in Task, slot[u] # 0 PROVE slot[u] \in Gen
<1>1. slot[u] \in 0..MaxGen
  BY DEF TypeOK
<1>2. QED
  BY <1>1, ConstantsOK DEF Gen

(* Only the task a row is written for can lose its slot. *)
LEMMA PublishSlot ==
  ASSUME TypeOK, NEW t \in Task, NEW s \in State, Publish(t, s)
  PROVE  /\ state'[t] = s
         /\ \A u \in Task : u # t => slot'[u] = slot[u]
         /\ s \in SLOT_FREE => slot'[t] = 0
         /\ s \notin SLOT_FREE => slot'[t] = slot[t]
<1>1. state' = [state EXCEPT ![t] = s] /\ state \in [Task -> State]
  BY DEF TypeOK, Publish, Move
<1>2. slot \in [Task -> 0..MaxGen]
  BY DEF TypeOK
<1>3. \/ s \in SLOT_FREE /\ slot' = [slot EXCEPT ![t] = 0]
      \/ ~(s \in SLOT_FREE /\ slot[t] # 0) /\ slot' = slot
  BY DEF Publish, Move
<1>4. QED
  BY <1>1, <1>2, <1>3

(* A run that returns takes away no slot but its own. *)
LEMMA ReturnSlot ==
  ASSUME TypeOK, NEW t \in Task, NEW g \in Gen, Move(t, state[t], slot[t] = g)
  PROVE  /\ \A u \in Task : u # t => slot'[u] = slot[u]
         /\ slot[t] = g => slot'[t] = 0
         /\ slot[t] # g => slot'[t] = slot[t]
<1>1. slot \in [Task -> 0..MaxGen]
  BY DEF TypeOK
<1>2. \/ slot[t] = g /\ slot' = [slot EXCEPT ![t] = 0]
      \/ ~(slot[t] = g /\ slot[t] # 0) /\ slot' = slot
  BY DEF Move
<1>3. QED
  BY <1>1, <1>2

(* A step that touches one task is quiet if it is quiet for that task. *)
LEMMA QuietAt ==
  ASSUME NEW t \in Task, \A u \in Task : u # t => slot'[u] = slot[u] /\ runs'[u] = runs[u],
         Kept(t) \/ Freed(t)
  PROVE  Quiet
BY DEF Quiet, Kept

(* A run that replaces its record leaves every other record alone. *)
LEMMA AtElsewhere ==
  ASSUME TypeOK, NEW t \in Task, NEW g \in Gen, NEW r, At(t, g, r)
  PROVE  /\ \A u \in Task : u # t => runs'[u] = runs[u]
         /\ \A h \in Gen : runs'[t][h] = IF h = g THEN r ELSE runs[t][h]
BY DEF TypeOK, At

(* A run that parks or settles its task hands the slot back. *)
LEMMA SettleQuiet ==
  ASSUME TypeOK, NEW t \in Task, NEW g \in Gen, NEW s \in SLOT_FREE, Settle(t, g, s)
  PROVE  Quiet
<1>1. s \in State /\ Publish(t, s) /\ At(t, g, NoRun)
  BY DEF SLOT_FREE, State, Settle
<1>2. Freed(t)
  BY <1>1, PublishSlot DEF Freed
<1>3. QED
  BY <1>1, <1>2, PublishSlot, AtElsewhere, QuietAt

(* A run that returns frees its own slot and no other run's. *)
LEMMA LeaveQuiet ==
  ASSUME TypeOK, NEW t \in Task, NEW g \in Gen, Leave(t, g)
  PROVE  Quiet
<1>1. Move(t, state[t], slot[t] = g) /\ At(t, g, NoRun)
  BY DEF Leave
<1>2. CASE slot[t] = g
  <2>1. slot'[t] = 0 /\ runs'[t][g] = NoRun
    BY <1>1, <1>2, ReturnSlot, AtElsewhere
  <2>2. Freed(t)
    BY <1>2, <2>1 DEF Freed, NoRun
  <2>3. QED
    BY <1>1, <2>2, ReturnSlot, AtElsewhere, QuietAt
<1>3. CASE slot[t] # g
  <2>1. slot'[t] = slot[t] /\ (slot[t] # 0 => runs'[t][slot[t]] = runs[t][slot[t]])
    BY <1>1, <1>3, ReturnSlot, AtElsewhere, SlotNamesRun
  <2>2. Kept(t)
    BY <2>1 DEF Kept
  <2>3. QED
    BY <1>1, <2>2, ReturnSlot, AtElsewhere, QuietAt
<1>4. QED
  BY <1>2, <1>3

(* Slots untouched and every run still under way with its kind. *)
LEMMA RunsGoOn ==
  ASSUME TypeOK, NEW t \in Task, \A u \in Task : u # t => slot'[u] = slot[u] /\ runs'[u] = runs[u],
         slot'[t] = slot[t],
         \A h \in Gen : runs[t][h].at # "none" =>
            runs'[t][h].at # "none" /\ runs'[t][h].kind = runs[t][h].kind
  PROVE  Quiet
<1>1. Kept(t)
  BY SlotNamesRun DEF Kept
<1>2. QED
  BY <1>1, QuietAt

(* A new implementor takes no slot. *)
LEMMA StartImplementorQuiet ==
  ASSUME TypeOK, NEW t \in Task, NEW g \in Gen, startImplementor(t, g)
  PROVE  Quiet
<1>1. "implementing" \in State /\ "implementing" \notin SLOT_FREE
      /\ Publish(t, "implementing")
  BY DEF startImplementor, State, SLOT_FREE
<1>2. \A u \in Task : slot'[u] = slot[u]
  BY <1>1, PublishSlot
<1>3. /\ \A u \in Task : u # t => runs'[u] = runs[u]
      /\ \A h \in Gen : runs'[t][h] =
           IF h = g THEN [runs[t][h] EXCEPT !.at = "work", !.turn = "busy"]
           ELSE IF h = live[t] THEN [runs[t][h] EXCEPT !.turn = "none"] ELSE runs[t][h]
  BY DEF startImplementor, TypeOK
<1>4. ASSUME NEW h \in Gen, runs[t][h].at # "none"
      PROVE  runs'[t][h].at # "none" /\ runs'[t][h].kind = runs[t][h].kind
  <2> DEFINE r == runs[t][h]
  <2>1. r \in Run
    BY RunTyped
  <2>2. \/ runs'[t][h] = [r EXCEPT !.at = "work", !.turn = "busy"]
        \/ runs'[t][h] = [r EXCEPT !.turn = "none"]
        \/ runs'[t][h] = r
    BY <1>3
  <2>3. r.at # "none"
    BY <1>4
  <2> HIDE DEF r
  <2>4. runs'[t][h].at # "none" /\ runs'[t][h].kind = r.kind
    BY <2>1, <2>2, <2>3 DEF Run
  <2>5. QED
    BY <2>4 DEF r
<1>5. QED
  BY <1>2, <1>3, <1>4, RunsGoOn

(* A run that only goes on to its next await keeps its slot. *)
LEMMA AdvanceQuiet ==
  ASSUME TypeOK, NEW t \in Task, NEW g \in Gen, NEW r \in Run, At(t, g, r),
         r.at # "none", r.kind = runs[t][g].kind, UNCHANGED slot
  PROVE  Quiet
BY AtElsewhere, RunsGoOn

(* Whatever update of itself takes a run to its next await. *)
LEMMA UpdateQuiet ==
  ASSUME TypeOK, NEW t \in Task, NEW g \in Gen, NEW at \in Awaits, at # "none",
         NEW turn \in Turns, UNCHANGED slot,
         \/ At(t, g, [runs[t][g] EXCEPT !.at = at])
         \/ At(t, g, [runs[t][g] EXCEPT !.at = at, !.turn = turn])
         \/ At(t, g, [runs[t][g] EXCEPT !.at = at, !.stops = live[t]])
         \/ At(t, g, [runs[t][g] EXCEPT !.at = at, !.turn = turn, !.stops = live[t]])
  PROVE  Quiet
<1> DEFINE r0 == runs[t][g]
<1>0. r0 \in Run /\ live[t] \in 0..MaxGen
  BY DEF TypeOK
<1>1. PICK r : /\ At(t, g, r)
               /\ \/ r = [r0 EXCEPT !.at = at]
                  \/ r = [r0 EXCEPT !.at = at, !.turn = turn]
                  \/ r = [r0 EXCEPT !.at = at, !.stops = live[t]]
                  \/ r = [r0 EXCEPT !.at = at, !.turn = turn, !.stops = live[t]]
  OBVIOUS
<1> HIDE DEF r0
<1>2. r \in Run /\ r.at = at /\ r.kind = r0.kind
  BY <1>0, <1>1 DEF Run, Awaits, Turns
<1>3. r.kind = runs[t][g].kind
  BY <1>2 DEF r0
<1>4. QED
  BY <1>1, <1>2, <1>3, AdvanceQuiet

(* The steps of a run, one lemma for each await. *)
LEMMA PrepDoneQuiet ==
  ASSUME TypeOK, NEW t \in Task, NEW g \in Gen, PrepDone(t, g)
  PROVE  Quiet
<1>1. CASE Settle(t, g, "failed")
  BY <1>1, SettleQuiet DEF SLOT_FREE
<1>2. CASE /\ Publish(t, "planning")
           /\ At(t, g, [runs[t][g] EXCEPT !.at = "plan", !.turn = "busy"])
  <2>1. "planning" \in State /\ "planning" \notin SLOT_FREE
    BY DEF State, SLOT_FREE
  <2>2. slot' = slot
    BY <1>2, <2>1 DEF Publish, Move
  <2>3. QED
    BY <1>2, <2>2, UpdateQuiet DEF Awaits, Turns
<1>3. CASE At(t, g, [runs[t][g] EXCEPT !.at = "select"]) /\ UNCHANGED slot
  BY <1>3, UpdateQuiet DEF Awaits, Turns
<1>4. QED
  BY <1>1, <1>2, <1>3 DEF PrepDone, Next0

(* The planner returns. *)
LEMMA PlanDoneQuiet ==
  ASSUME TypeOK, NEW t \in Task, NEW g \in Gen, PlanDone(t, g)
  PROVE  Quiet
<1>1. CASE Leave(t, g)
  BY <1>1, LeaveQuiet
<1>2. CASE Settle(t, g, "review")
  BY <1>2, SettleQuiet DEF SLOT_FREE
<1>3. CASE At(t, g, [runs[t][g] EXCEPT !.at = "select", !.turn = "none"]) /\ UNCHANGED slot
  BY <1>3, UpdateQuiet DEF Awaits, Turns
<1>4. QED
  BY <1>1, <1>2, <1>3 DEF PlanDone

(* Every way out of the model choice and of the compression. *)
LEMMA SelectQuiet ==
  ASSUME TypeOK, NEW t \in Task, NEW g \in Gen,
         \/ SelectDone(t, g) \/ ResumeSelectDone(t, g) \/ StartDone(t, g) \/ ResumeStartDone(t, g)
  PROVE  Quiet
<1>1. CASE Leave(t, g)
  BY <1>1, LeaveQuiet
<1>2. CASE \E s \in {"failed", "review"} : Settle(t, g, s)
  BY <1>2, SettleQuiet DEF SLOT_FREE
<1>3. CASE At(t, g, [runs[t][g] EXCEPT !.at = "start"]) /\ UNCHANGED slot
  BY <1>3, UpdateQuiet DEF Awaits, Turns
<1>4. CASE startImplementor(t, g)
  BY <1>4, StartImplementorQuiet
<1>5. CASE \E at \in {"unwind", "throw"} :
             At(t, g, [runs[t][g] EXCEPT !.at = at, !.stops = live[t]]) /\ UNCHANGED slot
  BY <1>5, UpdateQuiet DEF Awaits, Turns
<1>6. CASE SelectDone(t, g)
  BY <1>1, <1>2, <1>3, <1>4, <1>6 DEF SelectDone, Next0
<1>7. CASE ResumeSelectDone(t, g)
  BY <1>1, <1>2, <1>3, <1>4, <1>7 DEF ResumeSelectDone, Next0
<1>8. CASE StartDone(t, g)
  BY <1>4, <1>5, <1>8 DEF StartDone
<1>9. CASE ResumeStartDone(t, g)
  BY <1>1, <1>2, <1>4, <1>9 DEF ResumeStartDone
<1>10. QED
  BY <1>6, <1>7, <1>8, <1>9

(* A pipeline has its result. *)
LEMMA WorkDoneQuiet ==
  ASSUME TypeOK, NEW t \in Task, NEW g \in Gen, WorkDone(t, g)
  PROVE  Quiet
<1>1. PICK at \in {"unwind", "throw"} :
        /\ At(t, g, [runs[t][g] EXCEPT !.at = at, !.turn = "none", !.stops = live[t]])
        /\ \/ UNCHANGED slot
           \/ \E s \in {"done", "review", "paused"} : Publish(t, s)
  BY DEF WorkDone
<1>2. CASE UNCHANGED slot
  BY <1>1, <1>2, UpdateQuiet DEF Awaits, Turns
<1>3. CASE \E s \in {"done", "review", "paused"} : Publish(t, s)
  <2>1. PICK s \in {"done", "review", "paused"} : Publish(t, s)
    BY <1>3
  <2>2. s \in State /\ s \in SLOT_FREE
    BY DEF State, SLOT_FREE
  <2>3. Freed(t)
    BY <2>1, <2>2, PublishSlot DEF Freed
  <2>4. QED
    BY <1>1, <2>1, <2>2, <2>3, PublishSlot, AtElsewhere, QuietAt
<1>4. QED
  BY <1>1, <1>2, <1>3

(* A resume has its result. *)
LEMMA ResumeWorkDoneQuiet ==
  ASSUME TypeOK, NEW t \in Task, NEW g \in Gen, ResumeWorkDone(t, g)
  PROVE  Quiet
<1> DEFINE r == [runs[t][g] EXCEPT !.at = "unwind", !.turn = "none", !.stops = live[t]]
<1>1. At(t, g, r)
  BY DEF ResumeWorkDone
<1>2. r \in Run /\ r.at = "unwind" /\ r.kind = runs[t][g].kind
  <2>1. runs[t][g] \in Run /\ live[t] \in 0..MaxGen
    BY DEF TypeOK
  <2>2. QED
    BY <2>1 DEF Run
<1> HIDE DEF r
<1>3. CASE \E s \in {"review", "paused"} : Publish(t, s)
  <2>1. PICK s \in {"review", "paused"} : Publish(t, s)
    BY <1>3
  <2>2. s \in State /\ s \in SLOT_FREE
    BY DEF State, SLOT_FREE
  <2>3. Freed(t)
    BY <2>1, <2>2, PublishSlot DEF Freed
  <2>4. QED
    BY <1>1, <2>1, <2>2, <2>3, PublishSlot, AtElsewhere, QuietAt
<1>4. CASE Move(t, state[t], slot[t] = g)
  <2>1. CASE slot[t] = g
    <3>1. Freed(t)
      BY <1>1, <1>2, <1>4, <2>1, ReturnSlot, AtElsewhere DEF Freed
    <3>2. QED
      BY <1>1, <1>4, <3>1, ReturnSlot, AtElsewhere, QuietAt
  <2>2. CASE slot[t] # g
    <3>1. slot'[t] = slot[t] /\ \A u \in Task : u # t => slot'[u] = slot[u]
      BY <1>4, <2>2, ReturnSlot
    <3>2. \A u \in Task : u # t => runs'[u] = runs[u]
      BY <1>1, AtElsewhere
    <3>3. \A h \in Gen : runs[t][h].at # "none" =>
             runs'[t][h].at # "none" /\ runs'[t][h].kind = runs[t][h].kind
      BY <1>1, <1>2, AtElsewhere
    <3>4. QED
      BY <3>1, <3>2, <3>3, RunsGoOn
  <2>3. QED
    BY <2>1, <2>2
<1>5. QED
  BY <1>3, <1>4 DEF ResumeWorkDone

(* A finally has stopped its session. *)
LEMMA UnwoundQuiet ==
  ASSUME TypeOK, NEW t \in Task, NEW g \in Gen, Unwound(t, g)
  PROVE  Quiet
<1>1. /\ \A u \in Task : u # t => runs'[u] = runs[u]
      /\ runs'[t][g] = NoRun
      /\ \A k \in Gen : k # g =>
           runs'[t][k] = runs[t][k] \/ runs'[t][k] = [runs[t][k] EXCEPT !.turn = "none"]
  BY DEF Unwound, TypeOK
<1>2. ASSUME NEW k \in Gen, k # g
      PROVE  runs'[t][k].at = runs[t][k].at /\ runs'[t][k].kind = runs[t][k].kind
  <2>1. runs[t][k] \in Run
    BY RunTyped
  <2>2. QED
    BY <1>1, <1>2, <2>1 DEF Run
<1>3. CASE Publish(t, "failed")
  <2>1. "failed" \in State /\ "failed" \in SLOT_FREE
    BY DEF State, SLOT_FREE
  <2>2. Freed(t)
    BY <1>3, <2>1, PublishSlot DEF Freed
  <2>3. QED
    BY <1>1, <1>3, <2>1, <2>2, PublishSlot, QuietAt
<1>4. CASE Move(t, state[t], slot[t] = g)
  <2>1. CASE slot[t] = g
    <3>1. Freed(t)
      BY <1>1, <1>4, <2>1, ReturnSlot DEF Freed, NoRun
    <3>2. QED
      BY <1>1, <1>4, <3>1, ReturnSlot, QuietAt
  <2>2. CASE slot[t] # g
    <3>1. slot'[t] = slot[t] /\ \A u \in Task : u # t => slot'[u] = slot[u]
      BY <1>4, <2>2, ReturnSlot
    <3>2. Kept(t)
      BY <1>2, <2>2, <3>1, SlotNamesRun DEF Kept
    <3>3. QED
      BY <1>1, <3>1, <3>2, QuietAt
  <2>3. QED
    BY <2>1, <2>2
<1>5. QED
  BY <1>3, <1>4 DEF Unwound

(* No run step takes a slot. *)
LEMMA RunStepQuiet ==
  ASSUME TypeOK, NEW t \in Task, NEW g \in Gen, RunStep(t, g)
  PROVE  Quiet /\ UNCHANGED cowork
<1>1. Quiet
  BY PrepDoneQuiet, PlanDoneQuiet, SelectQuiet, WorkDoneQuiet, ResumeWorkDoneQuiet, UnwoundQuiet
  DEF RunStep
<1>2. UNCHANGED Commands
  BY DEF RunStep, PrepDone, PlanDone, SelectDone, StartDone, ResumeSelectDone, ResumeStartDone,
         WorkDone, ResumeWorkDone, Unwound
<1>3. QED
  BY <1>1, <1>2 DEF Commands

-----------------------------------------------------------------------------
(* Handlers that write a row and at most cut or restart turns. *)
SameStage(t) ==
  /\ \A u \in Task : u # t => runs'[u] = runs[u]
  /\ \A h \in Gen : runs'[t][h].at = runs[t][h].at /\ runs'[t][h].kind = runs[t][h].kind

(* No run record moved. *)
LEMMA NoRunsMoved == ASSUME NEW t \in Task, UNCHANGED runs PROVE SameStage(t)
BY DEF SameStage

(* Cutting or restarting turns moves no run to another await. *)
LEMMA TurnsSame ==
  ASSUME TypeOK, NEW t \in Task, NEW turn \in Turns, NEW chosen \in SUBSET Gen,
         runs' = [runs EXCEPT ![t] = [g \in Gen |->
           IF g \in chosen THEN [runs[t][g] EXCEPT !.turn = turn] ELSE runs[t][g]]]
  PROVE  SameStage(t)
<1>1. /\ \A u \in Task : u # t => runs'[u] = runs[u]
      /\ \A h \in Gen :
           runs'[t][h] = runs[t][h] \/ runs'[t][h] = [runs[t][h] EXCEPT !.turn = turn]
  BY DEF TypeOK
<1>2. ASSUME NEW h \in Gen
      PROVE  runs'[t][h].at = runs[t][h].at /\ runs'[t][h].kind = runs[t][h].kind
  <2>1. runs[t][h] \in Run
    BY RunTyped
  <2>2. QED
    BY <1>1, <2>1 DEF Run
<1>3. QED
  BY <1>1, <1>2 DEF SameStage

(* A handler that leaves slots and stages alone. *)
LEMMA StageQuiet ==
  ASSUME TypeOK, NEW t \in Task, SameStage(t), UNCHANGED slot
  PROVE  Quiet
BY RunsGoOn DEF SameStage

(* A handler that writes a row and leaves the stages alone. *)
LEMMA PublishQuiet ==
  ASSUME TypeOK, NEW t \in Task, NEW s \in State, Publish(t, s), SameStage(t)
  PROVE  Quiet
<1>1. CASE s \in SLOT_FREE
  <2>1. Freed(t)
    BY <1>1, PublishSlot DEF Freed
  <2>2. QED
    BY <2>1, PublishSlot, QuietAt DEF SameStage
<1>2. CASE s \notin SLOT_FREE
  BY <1>2, PublishSlot, RunsGoOn DEF SameStage
<1>3. QED
  BY <1>1, <1>2

(* No step outside this classification moves a slot. *)
SlotStep == (Quiet /\ CoworkMoves) \/ \E t \in Task : Admits(t) \/ Overrides(t)

(* No Co-work turn begins. *)
LEMMA CoworkSame == ASSUME UNCHANGED cowork PROVE CoworkMoves
BY DEF CoworkMoves

(* enqueueOrRun admits its task or leaves the slots alone. *)
LEMMA EnqueueStep ==
  ASSUME TypeOK, NEW t \in Task, NEW s, NEW q, enqueueOrRun(t, s, q), UNCHANGED cowork
  PROVE  SlotStep
<1>1. CASE UNCHANGED <<runs, slot>>
  BY <1>1, StageQuiet, NoRunsMoved, CoworkSame DEF SlotStep
<1>2. CASE ~Full(t) /\ Start(t, "queued", "prep")
  BY <1>2 DEF SlotStep, Admits
<1>3. QED
  BY <1>1, <1>2 DEF enqueueOrRun

(* The commands after their awaits. *)
LEMMA ContinueStep ==
  ASSUME TypeOK, NEW t \in Task, Continue(t)
  PROVE  SlotStep
<1>0. UNCHANGED cowork /\ CoworkMoves
  BY CoworkSame
  DEF Continue, Dispatched, AgentsStopped, TornDown, Retried, Paused, ResumeMissing,
      ResumeRefused, ResumeNoop, ResumeSteers, ResumePipeline, ResumeImplementor
<1>1. CASE Dispatched(t)
  <2>1. CASE enqueueOrRun(t, "intake", queue)
    BY <1>0, <2>1, EnqueueStep
  <2>2. CASE UNCHANGED <<runs, slot>>
    BY <1>0, <2>2, StageQuiet, NoRunsMoved DEF SlotStep
  <2>3. QED
    BY <1>1, <2>1, <2>2 DEF Dispatched
<1>2. CASE Retried(t)
  <2>1. CASE enqueueOrRun(t, "queued", Dropped(t))
    BY <1>0, <2>1, EnqueueStep
  <2>2. CASE Publish(t, "failed") /\ UNCHANGED runs
    BY <1>0, <2>2, PublishQuiet, NoRunsMoved DEF SlotStep, State
  <2>3. QED
    BY <1>2, <2>1, <2>2 DEF Retried
<1>3. CASE TornDown(t) \/ ResumeMissing(t)
  <2>1. UNCHANGED runs /\ \E s \in {"cancelled", "closed", "done", "failed"} : Publish(t, s)
    BY <1>3 DEF TornDown, ResumeMissing
  <2>2. QED
    BY <1>0, <2>1, PublishQuiet, NoRunsMoved DEF SlotStep, State
<1>4. CASE ResumeRefused(t) \/ ResumeNoop(t)
  <2>1. UNCHANGED <<runs, slot>>
    BY <1>4 DEF ResumeRefused, ResumeNoop
  <2>2. QED
    BY <1>0, <2>1, StageQuiet, NoRunsMoved DEF SlotStep
<1>5. CASE AgentsStopped(t)
  <2>1. runs' = [runs EXCEPT ![t] = [g \in Gen |->
          IF g \in Gen THEN [runs[t][g] EXCEPT !.turn = "none"] ELSE runs[t][g]]]
    BY <1>5 DEF AgentsStopped
  <2>2. SameStage(t) /\ UNCHANGED slot
    BY <1>5, <2>1, TurnsSame DEF Turns, AgentsStopped
  <2>3. QED
    BY <1>0, <2>2, StageQuiet DEF SlotStep
<1>6. CASE Paused(t)
  <2> DEFINE chosen == {g \in Gen : g = call[t].run /\ runs[t][g].turn = "busy"}
  <2>1. runs' = [runs EXCEPT ![t] = [g \in Gen |->
          IF g \in chosen THEN [runs[t][g] EXCEPT !.turn = "idle"] ELSE runs[t][g]]]
    BY <1>6 DEF Paused
  <2>2. chosen \in SUBSET Gen
    OBVIOUS
  <2> HIDE DEF chosen
  <2>3. SameStage(t) /\ Publish(t, "paused")
    BY <1>6, <2>1, <2>2, TurnsSame DEF Turns, Paused
  <2>4. QED
    BY <1>0, <2>3, PublishQuiet DEF SlotStep, State
<1>7. CASE ResumeSteers(t)
  <2> DEFINE chosen == {g \in Gen : g = live[t] /\ runs[t][g].turn = "idle"}
  <2>1. runs' = [runs EXCEPT ![t] = [g \in Gen |->
          IF g \in chosen THEN [runs[t][g] EXCEPT !.turn = "busy"] ELSE runs[t][g]]]
    BY <1>7 DEF ResumeSteers
  <2>2. chosen \in SUBSET Gen
    OBVIOUS
  <2> HIDE DEF chosen
  <2>3. SameStage(t) /\ Publish(t, "implementing")
    BY <1>7, <2>1, <2>2, TurnsSame DEF Turns, ResumeSteers
  <2>4. QED
    BY <1>0, <2>3, PublishQuiet DEF SlotStep, State
<1>8. CASE ResumePipeline(t) \/ ResumeImplementor(t)
  <2>1. /\ Start(t, "immediate", "prep") \/ Start(t, "resume", "select")
        /\ ~Refuses(t)
    BY <1>8 DEF ResumePipeline, ResumeImplementor
  <2>2. QED
    BY <1>0, <2>1 DEF SlotStep, Overrides, Refuses, CoworkBusy
<1>9. QED
  BY <1>1, <1>2, <1>3, <1>4, <1>5, <1>6, <1>7, <1>8 DEF Continue

(* The commands up to their awaits. *)
LEMMA CommandStep ==
  ASSUME TypeOK, NEW t \in Task, Command(t)
  PROVE  SlotStep
<1>0. UNCHANGED cowork /\ CoworkMoves
  BY CoworkSame DEF Command, Dispatch, StartImmediately, Ask, Cancel
<1>1. CASE Dispatch(t) \/ Ask(t)
  <2>1. UNCHANGED <<runs, slot>>
    BY <1>1 DEF Dispatch, Ask
  <2>2. QED
    BY <1>0, <2>1, StageQuiet, NoRunsMoved DEF SlotStep
<1>2. CASE StartImmediately(t)
  BY <1>0, <1>2 DEF StartImmediately, SlotStep, Overrides
<1>3. CASE Cancel(t)
  <2>1. UNCHANGED runs /\ (UNCHANGED slot \/ Publish(t, "cancelled"))
    BY <1>3 DEF Cancel
  <2>2. QED
    BY <1>0, <2>1, StageQuiet, PublishQuiet, NoRunsMoved DEF SlotStep, State
<1>4. QED
  BY <1>1, <1>2, <1>3 DEF Command

(* The pump. *)
LEMMA PumpSlots == ASSUME TypeOK, PumpStep PROVE SlotStep
<1>0. UNCHANGED cowork /\ CoworkMoves
  BY CoworkSame DEF PumpStep, Rows
<1>1. CASE UNCHANGED <<runs, slot>>
  <2>1. Quiet
    BY <1>1, SlotNamesRun DEF Quiet, Kept
  <2>2. QED
    BY <1>0, <2>1 DEF SlotStep
<1>2. CASE /\ scan > 0 /\ scan <= Len(queue) /\ ~draining /\ Cardinality(Active) < MaxConcurrent
           /\ ~repoAtCapacity(queue[scan]) /\ Start(queue[scan], "queued", "prep")
  <2>1. scan \in 1..Len(queue) /\ queue \in Seq(Task)
    BY <1>2, LenProperties DEF TypeOK
  <2>2. queue[scan] \in Task
    BY <2>1, ElementOfSeq
  <2>3. Cardinality(Active) \in Nat
    <3>1. Active \in SUBSET Task
      BY DEF Active
    <3>2. QED
      BY <3>1, ConstantsOK, FS_Subset, FS_CardinalityType
  <2>4. ~(Cardinality(Active) >= MaxConcurrent)
    BY <1>2, <2>3, ConstantsOK
  <2>5. Admits(queue[scan])
    BY <1>0, <1>2, <2>4 DEF Admits, Full
  <2>6. QED
    BY <2>2, <2>5 DEF SlotStep
<1>3. QED
  BY <1>1, <1>2 DEF PumpStep

(* Every step is one of the three kinds. *)
LEMMA NextSlots == ASSUME TypeOK, [Next]_vars PROVE SlotStep
<1>1. CASE \E t \in Task, g \in Gen : RunStep(t, g)
  BY <1>1, RunStepQuiet, CoworkSame DEF SlotStep
<1>2. CASE \E t \in Task : FireWake(t)
  BY <1>2, StageQuiet, NoRunsMoved, CoworkSame DEF SlotStep, FireWake
<1>3. CASE \E t \in Task : RequeueAfterBoot(t)
  <2>1. PICK t \in Task : RequeueAfterBoot(t)
    BY <1>3
  <2>2. UNCHANGED cowork /\ (enqueueOrRun(t, "queued", queue) \/ UNCHANGED <<runs, slot>>)
    BY <2>1 DEF RequeueAfterBoot
  <2>3. QED
    BY <2>2, EnqueueStep, StageQuiet, NoRunsMoved, CoworkSame DEF SlotStep
<1>4. ASSUME UNCHANGED <<runs, slot>> PROVE Quiet
  BY <1>4, SlotNamesRun DEF Quiet, Kept
<1>5. CASE \E r \in Repo : CoworkBegin(r)
  <2>1. UNCHANGED <<runs, slot>> /\ CoworkMoves
    BY <1>5 DEF CoworkBegin, TaskVars, CoworkMoves, coworkTaskConflict
  <2>2. QED
    BY <1>4, <2>1 DEF SlotStep
<1>6. CASE (\E r \in Repo : CoworkEnd(r)) \/ DrainBegins \/ DrainReleased
  <2>1. UNCHANGED <<runs, slot>> /\ CoworkMoves
    BY <1>6 DEF CoworkEnd, DrainBegins, DrainReleased, TaskVars, CoworkMoves
  <2>2. QED
    BY <1>4, <2>1 DEF SlotStep
<1>7. CASE Restart
  <2>1. cowork' = {} /\ \A u \in Task : slot'[u] = 0 /\ \A h \in Gen : runs'[u][h] = NoRun
    BY <1>7 DEF Restart
  <2>2. Quiet /\ CoworkMoves
    BY <2>1, SlotNamesRun DEF Quiet, Freed, NoRun, CoworkMoves
  <2>3. QED
    BY <2>2 DEF SlotStep
<1>8. CASE UNCHANGED vars
  BY <1>4, <1>8, CoworkSame DEF SlotStep, vars
<1>9. QED
  BY <1>1, <1>2, <1>3, <1>5, <1>6, <1>7, <1>8, ContinueStep, CommandStep, PumpSlots DEF Next

-----------------------------------------------------------------------------
(* What a start does to the slots and runs. *)
LEMMA StartSlots ==
  ASSUME TypeOK, NEW t \in Task, NEW kind, NEW at, at # "none", Start(t, kind, at)
  PROVE  /\ \A u \in Task : u # t => slot'[u] = slot[u] /\ runs'[u] = runs[u]
         /\ slot'[t] # 0 /\ runs'[t][slot'[t]].at # "none" /\ runs'[t][slot'[t]].kind = kind
<1>1. PICK g \in Gen :
        /\ runs' = [runs EXCEPT ![t][g] = [at |-> at, kind |-> kind, turn |-> "none", stops |-> 0]]
        /\ slot' = [slot EXCEPT ![t] = g]
  BY DEF Start
<1>2. g # 0
  BY ConstantsOK DEF Gen
<1>3. QED
  BY <1>1, <1>2 DEF TypeOK

(* A started task, and only it, has a new slot with a run under way. *)
LEMMA StartShape ==
  ASSUME TypeOK, NEW t \in Task, Admits(t) \/ Overrides(t)
  PROVE  /\ \A u \in Task : u # t => slot'[u] = slot[u] /\ runs'[u] = runs[u]
         /\ slot'[t] # 0 /\ runs'[t][slot'[t]].at # "none"
         /\ Overrides(t) => runs'[t][slot'[t]].kind # "queued"
<1>1. CASE Admits(t) /\ ~Overrides(t)
  BY <1>1, StartSlots DEF Admits
<1>2. CASE Overrides(t)
  BY <1>2, StartSlots DEF Overrides
<1>3. QED
  BY <1>1, <1>2

(* A slot keeps its owner. *)
LEMMA OwnerInductive == ASSUME TypeOK, SlotHasOwner, SlotStep PROVE SlotHasOwner'
<1>1. CASE Quiet
  BY <1>1 DEF Quiet, Kept, Freed, SlotHasOwner, Active
<1>2. CASE \E t \in Task : Admits(t) \/ Overrides(t)
  BY <1>2, StartShape DEF SlotHasOwner, Active
<1>3. QED
  BY <1>1, <1>2 DEF SlotStep

(* However a resume, a cancel and an old run's finalizer interleave, the   *)
(* activePipelines entry of a task belongs to a run that has not returned. *)
THEOREM NoSlotLeaks == Spec => []SlotHasOwner
<1>1. Init => SlotHasOwner
  BY DEF Init, SlotHasOwner, Active
<1>2. TypeOK /\ SlotHasOwner /\ [Next]_vars => SlotHasOwner'
  BY NextSlots, OwnerInductive
<1>3. QED
  BY <1>1, <1>2, TypeCorrect, PTL DEF Spec

(* Co-work and pipelines stay apart. *)
LEMMA CoworkInductive == ASSUME TypeOK, CoworkExclusive, SlotStep PROVE CoworkExclusive'
<1>1. CASE Quiet /\ CoworkMoves
  BY <1>1 DEF Quiet, Kept, Freed, CoworkMoves, CoworkExclusive, Active
<1>2. CASE \E t \in Task : Admits(t) \/ Overrides(t)
  <2>1. PICK t \in Task : Admits(t) \/ Overrides(t)
    BY <1>2
  <2>2. cowork' = cowork /\ RepoOf[t] \notin cowork
    BY <2>1 DEF Admits, Overrides, Full, repoAtCapacity
  <2>3. QED
    BY <2>1, <2>2, StartShape DEF CoworkExclusive, Active
<1>3. QED
  BY <1>1, <1>2 DEF SlotStep

(* The Co-work turn and the pipelines of one checkout exclude each other    *)
(* over any number of repositories: each side checks the other in the same  *)
(* step in which it claims its place.                                       *)
THEOREM CoworkApart == Spec => []CoworkExclusive
<1>1. Init => CoworkExclusive
  BY DEF Init, CoworkExclusive, Active
<1>2. TypeOK /\ CoworkExclusive /\ [Next]_vars => CoworkExclusive'
  BY NextSlots, CoworkInductive
<1>3. QED
  BY <1>1, <1>2, TypeCorrect, PTL DEF Spec

(* While a planned restart drains, no queued, started or resumed task slips *)
(* in unless an agent of its already runs.                                  *)
THEOREM DrainHolds == Spec => DrainAdmitsNothing
<1> DEFINE Holds == \A t \in Task : draining /\ slot[t] = 0 /\ slot'[t] # 0 => HasActiveRun(t)
<1>1. TypeOK /\ [Next]_vars => Holds
  <2>1. SUFFICES ASSUME TypeOK, [Next]_vars, NEW t \in Task,
                        draining, slot[t] = 0, slot'[t] # 0
                 PROVE  HasActiveRun(t)
    OBVIOUS
  <2>2. ~Quiet
    BY <2>1 DEF Quiet, Kept, Freed
  <2>3. PICK u \in Task : Admits(u) \/ Overrides(u)
    BY <2>1, <2>2, NextSlots DEF SlotStep
  <2>4. u = t
    BY <2>1, <2>3, StartShape
  <2>5. ~Admits(t)
    BY <2>1 DEF Admits, Full
  <2>6. QED
    BY <2>1, <2>3, <2>4, <2>5 DEF Overrides
<1>2. [Next]_vars /\ TypeOK => [Holds]_vars
  BY <1>1
<1>3. QED
  BY <1>2, TypeCorrect, PTL DEF Spec, DrainAdmitsNothing

(* The supersede rule of releasePipelineSlot: no older run's late finalizer *)
(* takes a slot away.                                                       *)
THEOREM SlotsReturned == Spec => ReleasedByOwnerOrState
<1> DEFINE Rule == \A t \in Task : slot[t] # 0 /\ slot'[t] = 0 =>
              state'[t] \in SLOT_FREE \/ runs'[t][slot[t]].at \in {"none", "unwind"}
<1>1. TypeOK /\ [Next]_vars => Rule
  <2>1. SUFFICES ASSUME TypeOK, [Next]_vars, NEW t \in Task, slot[t] # 0, slot'[t] = 0
                 PROVE  state'[t] \in SLOT_FREE \/ runs'[t][slot[t]].at \in {"none", "unwind"}
    OBVIOUS
  <2>2. CASE Quiet
    BY <2>1, <2>2 DEF Quiet, Kept, Freed
  <2>3. CASE \E u \in Task : Admits(u) \/ Overrides(u)
    BY <2>1, <2>3, StartShape
  <2>4. QED
    BY <2>1, <2>2, <2>3, NextSlots DEF SlotStep
<1>2. [Next]_vars /\ TypeOK => [Rule]_vars
  BY <1>1
<1>3. QED
  BY <1>2, TypeCorrect, PTL DEF Spec, ReleasedByOwnerOrState

-----------------------------------------------------------------------------
(* Counting: a set inside a small enough one plus one task stays below the *)
(* cap.                                                                    *)
LEMMA OneMore ==
  ASSUME NEW cap \in Nat, NEW S \in SUBSET Task, NEW t \in Task, NEW T \in SUBSET (S \cup {t}),
         ~(Cardinality(S) >= cap)
  PROVE  Cardinality(T) <= cap
<1>1. IsFiniteSet(S) /\ Cardinality(S) \in Nat
  BY ConstantsOK, FS_Subset, FS_CardinalityType
<1>2. IsFiniteSet(S \cup {t}) /\ Cardinality(S \cup {t}) <= Cardinality(S) + 1
  BY <1>1, FS_AddElement
<1>3. Cardinality(T) <= Cardinality(S \cup {t})
  BY <1>2, FS_Subset
<1>4. Cardinality(T) \in Nat /\ Cardinality(S \cup {t}) \in Nat
  BY <1>2, FS_Subset, FS_CardinalityType
<1>5. QED
  BY <1>1, <1>2, <1>3, <1>4

(* A subset stays below the cap. *)
LEMMA NoMore ==
  ASSUME NEW cap \in Nat, NEW S \in SUBSET Task, NEW T \in SUBSET S, Cardinality(S) <= cap
  PROVE  Cardinality(T) <= cap
<1>1. IsFiniteSet(S) /\ IsFiniteSet(T) /\ Cardinality(T) <= Cardinality(S)
  BY ConstantsOK, FS_Subset
<1>2. Cardinality(T) \in Nat /\ Cardinality(S) \in Nat
  BY <1>1, FS_CardinalityType
<1>3. QED
  BY <1>1, <1>2

AdmittedIn(r) == {t \in Admitted : RepoOf[t] = r}

(* Steps that start nothing from the queue admit nobody. *)
LEMMA QuietAdmits ==
  ASSUME TypeOK, SlotHasOwner, Quiet \/ \E t \in Task : Overrides(t)
  PROVE  Admitted' \subseteq Admitted
<1>1. CASE Quiet
  <2>1. SUFFICES ASSUME NEW u \in Task, slot'[u] # 0, runs'[u][slot'[u]].kind = "queued"
                 PROVE  slot[u] # 0 /\ runs[u][slot[u]].kind = "queued"
    BY DEF Admitted, Active
  <2>2. Kept(u)
    BY <1>1, <2>1 DEF Quiet, Freed
  <2>3. slot[u] # 0 /\ runs[u][slot[u]].at # "none"
    BY <2>1, <2>2 DEF Kept, SlotHasOwner, Active
  <2>4. QED
    BY <2>1, <2>2, <2>3 DEF Kept
<1>2. CASE \E t \in Task : Overrides(t)
  <2>1. PICK t \in Task : Overrides(t)
    BY <1>2
  <2>2. QED
    BY <2>1, StartShape DEF Admitted, Active
<1>3. QED
  BY <1>1, <1>2

(* A start from the queue adds that one task. *)
LEMMA AdmitsOne ==
  ASSUME TypeOK, NEW t \in Task, Admits(t)
  PROVE  Admitted' \subseteq Admitted \cup {t}
BY StartShape DEF Admitted, Active

(* Both caps are kept by every step. *)
LEMMA CapsInductive ==
  ASSUME TypeOK, SlotHasOwner, AdmissionWithinCaps, SlotStep
  PROVE  AdmissionWithinCaps'
<1>0. /\ Admitted \in SUBSET Task /\ Active \in SUBSET Task /\ Admitted \subseteq Active
      /\ Admitted' \in SUBSET Task
  BY DEF Admitted, Active
<1>1. CASE Quiet \/ \E t \in Task : Overrides(t)
  <2>1. Admitted' \subseteq Admitted
    BY <1>1, QuietAdmits
  <2>2. Cardinality(Admitted') <= MaxConcurrent
    BY <1>0, <2>1, NoMore, ConstantsOK DEF AdmissionWithinCaps
  <2>3. ASSUME MaxPerRepo > 0, NEW r \in Repo
        PROVE  Cardinality({t \in Admitted' : RepoOf[t] = r}) <= MaxPerRepo
    <3>1. {t \in Admitted' : RepoOf[t] = r} \subseteq AdmittedIn(r)
      BY <2>1 DEF AdmittedIn
    <3>2. AdmittedIn(r) \in SUBSET Task /\ Cardinality(AdmittedIn(r)) <= MaxPerRepo
      BY <1>0, <2>3 DEF AdmissionWithinCaps, AdmittedIn
    <3>3. QED
      BY <3>1, <3>2, NoMore, ConstantsOK
  <2>4. QED
    BY <2>2, <2>3 DEF AdmissionWithinCaps
<1>2. CASE \E t \in Task : Admits(t)
  <2>1. PICK t \in Task : Admits(t)
    BY <1>2
  <2>2. Admitted' \subseteq Admitted \cup {t}
    BY <2>1, AdmitsOne
  <2>3. ~(Cardinality(Active) >= MaxConcurrent) /\ ~repoAtCapacity(t)
    BY <2>1 DEF Admits, Full
  <2>4. Cardinality(Admitted') <= MaxConcurrent
    <3>1. Admitted' \in SUBSET (Active \cup {t})
      BY <1>0, <2>2
    <3>2. QED
      BY <1>0, <2>3, <3>1, OneMore, ConstantsOK
  <2>5. ASSUME MaxPerRepo > 0, NEW r \in Repo
        PROVE  Cardinality({u \in Admitted' : RepoOf[u] = r}) <= MaxPerRepo
    <3>1. CASE RepoOf[t] = r
      <4>1. {u \in Admitted' : RepoOf[u] = r} \in SUBSET (ActiveIn(r) \cup {t})
        BY <1>0, <2>2 DEF ActiveIn
      <4>2. ActiveIn(r) \in SUBSET Task /\ ~(Cardinality(ActiveIn(r)) >= MaxPerRepo)
        BY <1>0, <2>3, <2>5, <3>1 DEF ActiveIn, repoAtCapacity
      <4>3. QED
        BY <4>1, <4>2, OneMore, ConstantsOK
    <3>2. CASE RepoOf[t] # r
      <4>1. {u \in Admitted' : RepoOf[u] = r} \subseteq AdmittedIn(r)
        BY <2>2, <3>2 DEF AdmittedIn
      <4>2. AdmittedIn(r) \in SUBSET Task /\ Cardinality(AdmittedIn(r)) <= MaxPerRepo
        BY <1>0, <2>5 DEF AdmissionWithinCaps, AdmittedIn
      <4>3. QED
        BY <4>1, <4>2, NoMore, ConstantsOK
    <3>3. QED
      BY <3>1, <3>2
  <2>6. QED
    BY <2>4, <2>5 DEF AdmissionWithinCaps
<1>3. QED
  BY <1>1, <1>2 DEF SlotStep

(* Neither cap is ever exceeded by runs that came through the queue.  The  *)
(* strengthening is SlotHasOwner: a slot left with a returned run would    *)
(* count as whatever that run was.                                         *)
THEOREM CapsHold == Spec => []AdmissionWithinCaps
<1>1. Init => AdmissionWithinCaps
  <2>1. SUFFICES ASSUME Init PROVE AdmissionWithinCaps
    OBVIOUS
  <2>2. Admitted = {} /\ \A r \in Repo : {t \in Admitted : RepoOf[t] = r} = {}
    BY <2>1 DEF Init, Admitted, Active
  <2>3. QED
    BY <2>2, FS_EmptySet, ConstantsOK DEF AdmissionWithinCaps
<1>2. TypeOK /\ SlotHasOwner /\ AdmissionWithinCaps /\ [Next]_vars => AdmissionWithinCaps'
  BY NextSlots, CapsInductive
<1>3. QED
  BY <1>1, <1>2, TypeCorrect, NoSlotLeaks, PTL DEF Spec
=============================================================================
