--------------------------- MODULE TaskSlotsResume ---------------------------
(***************************************************************************)
(* What a second start of a task finds.  The flag this.resuming, which     *)
(* turns a second Resume into a no-op, is never left behind: it stands for *)
(* a resume that is still starting.  A new implementor displaces the one   *)
(* before it, so no two work at once; and a cancelled task goes back to    *)
(* work in two windows only.                                               *)
(***************************************************************************)
EXTENDS TaskSlotsSafety

(* Run g of task t is a resume on its way to its implementor. *)
Waiting(t, g) == runs[t][g].kind = "resume" /\ runs[t][g].at \in {"select", "start"}

(* A step on task t that adds no flag keeps the invariant if it drops t's  *)
(* flag or leaves every starting resume of t where it can still drop it.   *)
LEMMA FlagAt ==
  ASSUME ResumingHasRun, NEW t \in Task, resuming' \subseteq resuming, resuming \subseteq Task,
         \A u \in Task : u # t => runs'[u] = runs[u],
         t \notin resuming' \/ \A g \in Gen : Waiting(t, g) => Waiting(t, g)'
  PROVE  ResumingHasRun'
BY DEF ResumingHasRun, Waiting

(* A handler that leaves the stages alone. *)
LEMMA StageFlag ==
  ASSUME TypeOK, ResumingHasRun, NEW t \in Task, SameStage(t), resuming' \subseteq resuming
  PROVE  ResumingHasRun'
<1>1. \A g \in Gen : Waiting(t, g) => Waiting(t, g)'
  BY DEF SameStage, Waiting
<1>2. QED
  BY <1>1, FlagAt DEF SameStage, TypeOK

(* Run g moves on, and is no starting resume: every other run stands still. *)
LEMMA OtherRunFlag ==
  ASSUME TypeOK, ResumingHasRun, NEW t \in Task, NEW g \in Gen, NEW r, At(t, g, r),
         ~Waiting(t, g), resuming' \subseteq resuming
  PROVE  ResumingHasRun'
<1>1. \A h \in Gen : Waiting(t, h) => Waiting(t, h)'
  BY AtElsewhere DEF Waiting
<1>2. QED
  BY <1>1, AtElsewhere, FlagAt DEF TypeOK

(* A new implementor moves no other starting resume. *)
LEMMA StartImplementorRuns ==
  ASSUME TypeOK, NEW t \in Task, NEW g \in Gen, startImplementor(t, g)
  PROVE  /\ \A u \in Task : u # t => runs'[u] = runs[u]
         /\ \A h \in Gen : h # g /\ Waiting(t, h) => Waiting(t, h)'
<1>1. /\ \A u \in Task : u # t => runs'[u] = runs[u]
      /\ \A h \in Gen : h # g =>
           runs'[t][h] = runs[t][h] \/ runs'[t][h] = [runs[t][h] EXCEPT !.turn = "none"]
  BY DEF startImplementor, TypeOK
<1>2. ASSUME NEW h \in Gen, h # g, Waiting(t, h) PROVE Waiting(t, h)'
  <2>1. runs[t][h] \in Run
    BY RunTyped
  <2>2. runs'[t][h].at = runs[t][h].at /\ runs'[t][h].kind = runs[t][h].kind
    BY <1>1, <1>2, <2>1 DEF Run
  <2>3. QED
    BY <1>2, <2>2 DEF Waiting
<1>3. QED
  BY <1>1, <1>2

(* A new implementor leaves no flag behind. *)
LEMMA StartImplementorFlag ==
  ASSUME TypeOK, ResumingHasRun, NEW t \in Task, NEW g \in Gen, startImplementor(t, g),
         ~Waiting(t, g) \/ t \notin resuming', resuming' \subseteq resuming
  PROVE  ResumingHasRun'
BY StartImplementorRuns, FlagAt DEF TypeOK

(* A finally moves no starting resume. *)
LEMMA UnwoundFlag ==
  ASSUME TypeOK, ResumingHasRun, NEW t \in Task, NEW g \in Gen, Unwound(t, g)
  PROVE  ResumingHasRun'
<1>1. /\ \A u \in Task : u # t => runs'[u] = runs[u]
      /\ \A k \in Gen : k # g =>
           runs'[t][k] = runs[t][k] \/ runs'[t][k] = [runs[t][k] EXCEPT !.turn = "none"]
  BY DEF Unwound, TypeOK
<1>2. ~Waiting(t, g) /\ resuming' = resuming
  BY DEF Unwound, Waiting
<1>3. ASSUME NEW k \in Gen, Waiting(t, k) PROVE Waiting(t, k)'
  <2>1. runs[t][k] \in Run /\ k # g
    BY <1>2, <1>3, RunTyped
  <2>2. runs'[t][k].at = runs[t][k].at /\ runs'[t][k].kind = runs[t][k].kind
    BY <1>1, <2>1 DEF Run
  <2>3. QED
    BY <1>3, <2>2 DEF Waiting
<1>4. QED
  BY <1>1, <1>2, <1>3, FlagAt DEF TypeOK

(* The steps of a run. *)
LEMMA RunStepFlag ==
  ASSUME TypeOK, ResumingHasRun, NEW t \in Task, NEW g \in Gen, RunStep(t, g)
  PROVE  ResumingHasRun'
<1>0. resuming \subseteq Task
  BY DEF TypeOK
<1>1. CASE \/ PrepDone(t, g) \/ PlanDone(t, g) \/ WorkDone(t, g) \/ ResumeWorkDone(t, g)
           \/ SelectDone(t, g) \/ StartDone(t, g)
  <2>1. ~Waiting(t, g) /\ resuming' = resuming
    BY <1>1 DEF PrepDone, PlanDone, WorkDone, ResumeWorkDone, SelectDone, StartDone, Step, Waiting
  <2>2. (\E r : At(t, g, r)) \/ startImplementor(t, g)
    BY <1>1 DEF PrepDone, PlanDone, WorkDone, ResumeWorkDone, SelectDone, StartDone,
                Settle, Leave, Next0
  <2>3. QED
    BY <2>1, <2>2, OtherRunFlag, StartImplementorFlag
<1>2. CASE ResumeSelectDone(t, g)
  <2>1. CASE resuming' = resuming \ {t} /\ \E r : At(t, g, r)
    BY <1>0, <2>1, AtElsewhere, FlagAt
  <2>2. CASE resuming' = resuming \ {t} /\ startImplementor(t, g)
    BY <2>2, StartImplementorFlag
  <2>3. CASE UNCHANGED resuming /\ Next0(t, g, "start")
    <3>1. [runs[t][g] EXCEPT !.at = "start"].at = "start"
          /\ [runs[t][g] EXCEPT !.at = "start"].kind = runs[t][g].kind
      <4> DEFINE r0 == runs[t][g]
      <4>1. r0 \in Run
        BY RunTyped
      <4> HIDE DEF r0
      <4>2. [r0 EXCEPT !.at = "start"].at = "start" /\ [r0 EXCEPT !.at = "start"].kind = r0.kind
        BY <4>1 DEF Run
      <4>3. QED
        BY <4>2 DEF r0
    <3>2. PICK r : At(t, g, r) /\ r.at = "start" /\ r.kind = runs[t][g].kind
      BY <2>3, <3>1 DEF Next0
    <3>3. /\ \A u \in Task : u # t => runs'[u] = runs[u]
          /\ \A h \in Gen : runs'[t][h] = IF h = g THEN r ELSE runs[t][h]
      BY <3>2, AtElsewhere
    <3>4. \A h \in Gen : Waiting(t, h) => Waiting(t, h)'
      BY <3>2, <3>3 DEF Waiting
    <3>5. QED
      BY <1>0, <2>3, <3>3, <3>4, FlagAt
  <2>4. QED
    BY <1>2, <2>1, <2>2, <2>3 DEF ResumeSelectDone, Settle, Leave
<1>3. CASE ResumeStartDone(t, g)
  <2>1. resuming' = resuming \ {t}
    BY <1>3 DEF ResumeStartDone
  <2>2. (\E r : At(t, g, r)) \/ startImplementor(t, g)
    BY <1>3 DEF ResumeStartDone, Settle, Leave
  <2>3. \A u \in Task : u # t => runs'[u] = runs[u]
    BY <2>2, AtElsewhere, StartImplementorRuns
  <2>4. QED
    BY <1>0, <2>1, <2>3, FlagAt
<1>4. QED
  BY <1>1, <1>2, <1>3, UnwoundFlag DEF RunStep

(* A start takes the place of a record that was free. *)
LEMMA StartFlag ==
  ASSUME TypeOK, ResumingHasRun, NEW t \in Task, NEW kind, NEW at, Start(t, kind, at),
         \/ resuming' \subseteq resuming
         \/ kind = "resume" /\ at = "select" /\ resuming' = resuming \cup {t}
  PROVE  ResumingHasRun'
<1> DEFINE r == [at |-> at, kind |-> kind, turn |-> "none", stops |-> 0]
<1>1. PICK g \in Gen : runs[t][g] = NoRun /\ runs' = [runs EXCEPT ![t][g] = r]
  BY DEF Start
<1>2. /\ \A u \in Task : u # t => runs'[u] = runs[u]
      /\ \A h \in Gen : h # g => runs'[t][h] = runs[t][h]
      /\ runs'[t][g] = r
  BY <1>1 DEF TypeOK
<1>3. ~Waiting(t, g)
  BY <1>1 DEF Waiting, NoRun
<1>4. \A h \in Gen : Waiting(t, h) => Waiting(t, h)'
  BY <1>2, <1>3 DEF Waiting
<1>5. CASE resuming' \subseteq resuming
  BY <1>2, <1>4, <1>5, FlagAt DEF TypeOK
<1>6. CASE kind = "resume" /\ at = "select" /\ resuming' = resuming \cup {t}
  <2>1. Waiting(t, g)'
    BY <1>2, <1>6 DEF Waiting
  <2>2. QED
    BY <1>2, <1>6, <2>1 DEF ResumingHasRun, Waiting, TypeOK
<1>7. QED
  BY <1>5, <1>6

(* Every step keeps the flag with its resume. *)
LEMMA NextFlag == ASSUME TypeOK, ResumingHasRun, [Next]_vars PROVE ResumingHasRun'
<1>1. ASSUME NEW t \in Task, NEW s, NEW q, enqueueOrRun(t, s, q), resuming' \subseteq resuming
      PROVE  ResumingHasRun'
  BY <1>1, StartFlag, StageFlag, NoRunsMoved DEF enqueueOrRun
<1>2. ASSUME UNCHANGED runs, resuming' \subseteq resuming PROVE ResumingHasRun'
  BY <1>2 DEF ResumingHasRun
<1>3. ASSUME NEW t \in Task, Continue(t) PROVE ResumingHasRun'
  <2>1. CASE Dispatched(t) \/ Retried(t)
    BY <1>1, <1>2, <2>1 DEF Dispatched, Retried
  <2>2. CASE TornDown(t) \/ ResumeMissing(t) \/ ResumeRefused(t) \/ ResumeNoop(t)
    BY <1>2, <2>2 DEF TornDown, ResumeMissing, ResumeRefused, ResumeNoop
  <2>3. CASE AgentsStopped(t)
    <3>1. runs' = [runs EXCEPT ![t] = [g \in Gen |->
            IF g \in Gen THEN [runs[t][g] EXCEPT !.turn = "none"] ELSE runs[t][g]]]
      BY <2>3 DEF AgentsStopped
    <3>2. SameStage(t)
      BY <3>1, TurnsSame DEF Turns
    <3>3. QED
      BY <2>3, <3>2, StageFlag DEF AgentsStopped
  <2>4. CASE Paused(t) \/ ResumeSteers(t)
    <3>1. PICK turn \in Turns, chosen \in SUBSET Gen :
            runs' = [runs EXCEPT ![t] = [g \in Gen |->
              IF g \in chosen THEN [runs[t][g] EXCEPT !.turn = turn] ELSE runs[t][g]]]
      <4>1. CASE Paused(t)
        <5>0. "idle" \in Turns
          BY DEF Turns
        <5> WITNESS "idle" \in Turns, {g \in Gen : g = call[t].run /\ runs[t][g].turn = "busy"} \in SUBSET Gen
        <5>1. QED
          BY <4>1 DEF Paused
      <4>2. CASE ResumeSteers(t)
        <5>0. "busy" \in Turns
          BY DEF Turns
        <5> WITNESS "busy" \in Turns, {g \in Gen : g = live[t] /\ runs[t][g].turn = "idle"} \in SUBSET Gen
        <5>1. QED
          BY <4>2 DEF ResumeSteers
      <4>3. QED
        BY <2>4, <4>1, <4>2
    <3>2. SameStage(t)
      BY <3>1, TurnsSame
    <3>3. QED
      BY <2>4, <3>2, StageFlag DEF Paused, ResumeSteers
  <2>5. CASE ResumePipeline(t) \/ ResumeImplementor(t)
    BY <2>5, StartFlag DEF ResumePipeline, ResumeImplementor
  <2>6. QED
    BY <1>3, <2>1, <2>2, <2>3, <2>4, <2>5 DEF Continue
<1>4. ASSUME NEW t \in Task, Command(t) PROVE ResumingHasRun'
  BY <1>2, <1>4, StartFlag DEF Command, Dispatch, StartImmediately, Ask, Cancel
<1>5. ASSUME NEW t \in Task, FireWake(t) \/ RequeueAfterBoot(t) PROVE ResumingHasRun'
  BY <1>1, <1>2, <1>5 DEF FireWake, RequeueAfterBoot
<1>6. CASE PumpStep
  <2>1. CASE UNCHANGED runs
    BY <1>2, <1>6, <2>1 DEF PumpStep, Rows
  <2>2. CASE scan > 0 /\ scan <= Len(queue) /\ Start(queue[scan], "queued", "prep")
    <3>1. scan \in 1..Len(queue) /\ queue \in Seq(Task)
      BY <2>2, LenProperties DEF TypeOK
    <3>2. queue[scan] \in Task
      BY <3>1, ElementOfSeq
    <3>3. QED
      BY <1>6, <2>2, <3>2, StartFlag DEF PumpStep, Rows
  <2>3. QED
    BY <1>6, <2>1, <2>2 DEF PumpStep
<1>7. CASE DrainBegins \/ DrainReleased \/ \E r \in Repo : CoworkBegin(r) \/ CoworkEnd(r)
  BY <1>2, <1>7 DEF DrainBegins, DrainReleased, CoworkBegin, CoworkEnd, TaskVars
<1>8. CASE Restart
  BY <1>8 DEF Restart, ResumingHasRun
<1>9. CASE UNCHANGED vars
  BY <1>2, <1>9 DEF vars
<1>10. QED
  BY <1>3, <1>4, <1>5, <1>6, <1>7, <1>8, <1>9, RunStepFlag DEF Next

(* Whatever interrupts a resume while it chooses a model or compresses its *)
(* context, the flag that makes the next Resume a no-op falls with it.     *)
THEOREM ResumeNeverStuck == Spec => []ResumingHasRun
<1>1. Init => ResumingHasRun
  BY DEF Init, ResumingHasRun
<1>2. TypeOK /\ ResumingHasRun /\ [Next]_vars => ResumingHasRun'
  BY NextFlag
<1>3. QED
  BY <1>1, <1>2, TypeCorrect, PTL DEF Spec

-----------------------------------------------------------------------------
(* Run g of task t has an agent only while it plans, or as the task's      *)
(* registered session (this.live).                                         *)
Session(t, g) == runs[t][g].turn # "none" =>
  \/ runs[t][g].at = "plan"
  \/ runs[t][g].at = "work" /\ live[t] = g

SessionsLive == \A t \in Task : \A g \in Gen : Session(t, g)

(* A step on one task leaves the sessions of the others alone. *)
LEMMA SessionAt ==
  ASSUME SessionsLive, NEW t \in Task,
         \A u \in Task : u # t => runs'[u] = runs[u] /\ live'[u] = live[u],
         \A g \in Gen : Session(t, g)'
  PROVE  SessionsLive'
BY DEF SessionsLive, Session

(* A run that goes on without an agent, returns or begins to plan. *)
LEMMA OtherSession ==
  ASSUME TypeOK, SessionsLive, NEW t \in Task, NEW g \in Gen, NEW r, At(t, g, r),
         r.turn = "none" \/ r.at = "plan", UNCHANGED live
  PROVE  SessionsLive'
<1>1. \A h \in Gen : Session(t, h)'
  BY AtElsewhere DEF SessionsLive, Session
<1>2. QED
  BY <1>1, AtElsewhere, SessionAt

(* Stopping turns, and pausing or steering one that is under way, makes no *)
(* session where there was none.                                           *)
LEMMA TurnsSession ==
  ASSUME TypeOK, SessionsLive, NEW t \in Task, UNCHANGED live,
         \A u \in Task : u # t => runs'[u] = runs[u],
         \A g \in Gen : /\ runs'[t][g].at = runs[t][g].at
                        /\ runs[t][g].turn = "none" => runs'[t][g].turn = "none"
  PROVE  SessionsLive'
<1>1. ASSUME NEW g \in Gen PROVE Session(t, g)'
  <2>1. Session(t, g)
    BY DEF SessionsLive
  <2>2. QED
    BY <2>1 DEF Session
<1>2. QED
  BY <1>1, SessionAt

(* startImplementor stops the session it displaces, and there is no other. *)
LEMMA StartImplementorSession ==
  ASSUME TypeOK, SessionsLive, NEW t \in Task, NEW g \in Gen, startImplementor(t, g)
  PROVE  SessionsLive'
<1>1. /\ \A u \in Task : u # t => runs'[u] = runs[u] /\ live'[u] = live[u]
      /\ live'[t] = g
      /\ runs'[t][g] = [runs[t][g] EXCEPT !.at = "work", !.turn = "busy"]
      /\ \A h \in Gen : h # g =>
           runs'[t][h] = IF h = live[t] THEN [runs[t][h] EXCEPT !.turn = "none"] ELSE runs[t][h]
  BY DEF startImplementor, TypeOK
<1>2. \A h \in Gen : [runs[t][h] EXCEPT !.turn = "none"].turn = "none"
  BY RunTyped DEF Run
<1>3. [runs[t][g] EXCEPT !.at = "work", !.turn = "busy"].at = "work"
  BY RunTyped DEF Run
<1>4. ASSUME NEW h \in Gen PROVE Session(t, h)'
  <2>1. CASE h = g
    BY <1>1, <1>3, <2>1 DEF Session
  <2>2. CASE h # g /\ h = live[t]
    BY <1>1, <1>2, <2>2 DEF Session
  <2>3. CASE h # g /\ h # live[t]
    <3>1. runs'[t][h] = runs[t][h] /\ Session(t, h)
      BY <1>1, <2>3 DEF SessionsLive
    <3>2. QED
      BY <2>3, <3>1 DEF Session
  <2>4. QED
    BY <2>1, <2>2, <2>3
<1>5. QED
  BY <1>1, <1>4, SessionAt

(* A finally unregisters the session it has stopped, and no other. *)
LEMMA UnwoundSession ==
  ASSUME TypeOK, SessionsLive, NEW t \in Task, NEW g \in Gen, Unwound(t, g)
  PROVE  SessionsLive'
<1> DEFINE h == runs[t][g].stops
<1>1. /\ \A u \in Task : u # t => runs'[u] = runs[u] /\ live'[u] = live[u]
      /\ live'[t] = IF live[t] = h THEN 0 ELSE live[t]
      /\ \A k \in Gen : runs'[t][k] =
           IF k = g THEN NoRun
           ELSE IF k = h /\ live[t] = h THEN [runs[t][k] EXCEPT !.turn = "none"]
           ELSE runs[t][k]
  BY DEF Unwound, TypeOK
<1>2. \A k \in Gen : [runs[t][k] EXCEPT !.turn = "none"].turn = "none"
  BY RunTyped DEF Run
<1> HIDE DEF h
<1>3. ASSUME NEW k \in Gen PROVE Session(t, k)'
  <2>1. CASE runs'[t][k].turn = "none"
    BY <2>1 DEF Session
  <2>2. CASE runs'[t][k] = runs[t][k] /\ ~(k = h /\ live[t] = h)
    <3>1. Session(t, k)
      BY DEF SessionsLive
    <3>2. live[t] = k => live'[t] = k
      BY <1>1, <2>2
    <3>3. QED
      BY <2>2, <3>1, <3>2 DEF Session
  <2>3. CASE k = g
    <3>1. runs'[t][k] = NoRun
      BY <1>1, <2>3
    <3>2. QED
      BY <2>1, <3>1 DEF NoRun
  <2>4. CASE k # g /\ k = h /\ live[t] = h
    <3>1. runs'[t][k] = [runs[t][k] EXCEPT !.turn = "none"]
      BY <1>1, <2>4
    <3>2. QED
      BY <1>2, <2>1, <3>1
  <2>5. QED
    BY <1>1, <2>2, <2>3, <2>4
<1>4. QED
  BY <1>1, <1>3, SessionAt

(* What the updates of a run do to its turn. *)
LEMMA TurnOf ==
  ASSUME NEW r \in Run, NEW at, NEW h
  PROVE  /\ [r EXCEPT !.at = at].turn = r.turn
         /\ [r EXCEPT !.at = at, !.stops = h].turn = r.turn
         /\ [r EXCEPT !.at = at, !.turn = "none"].turn = "none"
         /\ [r EXCEPT !.at = at, !.turn = "none", !.stops = h].turn = "none"
         /\ [r EXCEPT !.at = "plan", !.turn = "busy"].at = "plan"
BY DEF Run

(* The steps of a run: each ends its turn, begins to plan or registers the *)
(* new session.                                                            *)
LEMMA RunStepSession ==
  ASSUME TypeOK, SessionsLive, NEW t \in Task, NEW g \in Gen, RunStep(t, g)
  PROVE  SessionsLive'
<1> DEFINE r0 == runs[t][g]
<1>0. r0 \in Run /\ NoRun.turn = "none"
  BY RunTyped DEF NoRun
<1>1. r0.at \notin {"plan", "work"} => r0.turn = "none"
  BY DEF SessionsLive, Session
<1>2. ASSUME NEW r, At(t, g, r), r.turn = "none" \/ r.at = "plan", UNCHANGED live
      PROVE  SessionsLive'
  BY <1>2, OtherSession
<1>3. ASSUME \/ Leave(t, g)
             \/ \E s : Settle(t, g, s)
             \/ \E at : Next0(t, g, at) /\ r0.at \in {"prep", "select"},
             UNCHANGED live
      PROVE  SessionsLive'
  <2>1. CASE At(t, g, NoRun)
    BY <1>0, <1>2, <1>3, <2>1
  <2>2. ASSUME NEW at, Next0(t, g, at), r0.at \in {"prep", "select"} PROVE SessionsLive'
    BY <1>0, <1>1, <1>2, <1>3, <2>2, TurnOf DEF Next0
  <2>3. QED
    BY <1>3, <2>1, <2>2 DEF Leave, Settle
<1>4. CASE PrepDone(t, g)
  <2>1. CASE At(t, g, [r0 EXCEPT !.at = "plan", !.turn = "busy"])
    BY <1>0, <1>2, <1>4, <2>1, TurnOf DEF PrepDone
  <2>2. QED
    BY <1>3, <1>4, <2>1 DEF PrepDone, Step
<1>5. CASE PlanDone(t, g)
  <2>1. CASE At(t, g, [r0 EXCEPT !.at = "select", !.turn = "none"])
    BY <1>0, <1>2, <1>5, <2>1, TurnOf DEF PlanDone
  <2>2. QED
    BY <1>3, <1>5, <2>1 DEF PlanDone
<1>6. CASE SelectDone(t, g) \/ ResumeSelectDone(t, g) \/ ResumeStartDone(t, g)
  BY <1>3, <1>6, StartImplementorSession DEF SelectDone, ResumeSelectDone, ResumeStartDone, Step
<1>7. CASE StartDone(t, g)
  <2>1. ASSUME NEW at, At(t, g, [r0 EXCEPT !.at = at, !.stops = live[t]]), UNCHANGED live
        PROVE  SessionsLive'
    <3>1. r0.turn = "none"
      BY <1>1, <1>7 DEF StartDone, Step
    <3> HIDE DEF r0
    <3>2. [r0 EXCEPT !.at = at, !.stops = live[t]].turn = "none"
      BY <1>0, <3>1, TurnOf
    <3>3. QED
      BY <1>2, <2>1, <3>2
  <2>2. QED
    BY <1>7, <2>1, StartImplementorSession DEF StartDone
<1>8. CASE WorkDone(t, g) \/ ResumeWorkDone(t, g)
  <2>1. PICK at : At(t, g, [r0 EXCEPT !.at = at, !.turn = "none", !.stops = live[t]])
    BY <1>8 DEF WorkDone, ResumeWorkDone
  <2> HIDE DEF r0
  <2>2. [r0 EXCEPT !.at = at, !.turn = "none", !.stops = live[t]].turn = "none"
    BY <1>0, TurnOf
  <2>3. QED
    BY <1>2, <1>8, <2>1, <2>2 DEF WorkDone, ResumeWorkDone
<1>9. QED
  BY <1>4, <1>5, <1>6, <1>7, <1>8, UnwoundSession DEF RunStep

(* A start takes a free record, and its agent comes later. *)
LEMMA StartSession ==
  ASSUME TypeOK, SessionsLive, NEW t \in Task, NEW kind, NEW at, Start(t, kind, at), UNCHANGED live
  PROVE  SessionsLive'
<1> DEFINE r == [at |-> at, kind |-> kind, turn |-> "none", stops |-> 0]
<1>1. PICK g \in Gen : At(t, g, r)
  BY DEF Start, At
<1>2. r.turn = "none"
  OBVIOUS
<1> HIDE DEF r
<1>3. QED
  BY <1>1, <1>2, OtherSession

LEMMA ContinueSession ==
  ASSUME TypeOK, SessionsLive, NEW t \in Task, Continue(t)
  PROVE  SessionsLive'
<1>1. ASSUME NEW s, NEW q, enqueueOrRun(t, s, q), UNCHANGED live PROVE SessionsLive'
  BY <1>1, StartSession DEF enqueueOrRun, SessionsLive, Session
<1>2. CASE UNCHANGED <<runs, live>>
  BY <1>2 DEF SessionsLive, Session
<1>3. CASE AgentsStopped(t)
  <2>1. /\ \A u \in Task : u # t => runs'[u] = runs[u] /\ live'[u] = live[u]
        /\ \A g \in Gen : runs'[t][g] = [runs[t][g] EXCEPT !.turn = "none"]
    BY <1>3 DEF AgentsStopped, TypeOK
  <2>2. \A g \in Gen : [runs[t][g] EXCEPT !.turn = "none"].turn = "none"
    BY RunTyped DEF Run
  <2>3. \A g \in Gen : Session(t, g)'
    BY <2>1, <2>2 DEF Session
  <2>4. QED
    BY <2>1, <2>3, SessionAt
<1>4. CASE Paused(t) \/ ResumeSteers(t)
  <2>1. \A g \in Gen : /\ [runs[t][g] EXCEPT !.turn = "idle"].at = runs[t][g].at
                      /\ [runs[t][g] EXCEPT !.turn = "busy"].at = runs[t][g].at
    BY RunTyped DEF Run
  <2>2. \A u \in Task : u # t => runs'[u] = runs[u]
    BY <1>4 DEF Paused, ResumeSteers, TypeOK
  <2>3. \A g \in Gen : \/ runs'[t][g] = runs[t][g]
                      \/ /\ runs[t][g].turn # "none"
                         /\ runs'[t][g] \in {[runs[t][g] EXCEPT !.turn = "idle"],
                                          [runs[t][g] EXCEPT !.turn = "busy"]}
    <3>1. CASE Paused(t)
      BY <3>1 DEF Paused, TypeOK
    <3>2. CASE ResumeSteers(t)
      BY <3>2 DEF ResumeSteers, TypeOK
    <3>3. QED
      BY <1>4, <3>1, <3>2
  <2>4. ASSUME NEW g \in Gen
        PROVE  /\ runs'[t][g].at = runs[t][g].at
               /\ runs[t][g].turn = "none" => runs'[t][g].turn = "none"
    BY <2>1, <2>3
  <2>5. QED
    BY <1>4, <2>2, <2>4, TurnsSession DEF Paused, ResumeSteers
<1>5. QED
  BY <1>1, <1>2, <1>3, <1>4, StartSession
     DEF Continue, Dispatched, Retried, TornDown, ResumeMissing, ResumeRefused, ResumeNoop,
         ResumePipeline, ResumeImplementor

LEMMA NextSession == ASSUME TypeOK, SessionsLive, [Next]_vars PROVE SessionsLive'
<1>1. CASE UNCHANGED <<runs, live>>
  BY <1>1 DEF SessionsLive, Session
<1>2. ASSUME NEW t \in Task, Command(t) \/ FireWake(t) \/ RequeueAfterBoot(t) PROVE SessionsLive'
  BY <1>1, <1>2, StartSession
     DEF Command, Dispatch, StartImmediately, Ask, Cancel, FireWake, RequeueAfterBoot, enqueueOrRun
<1>3. CASE PumpStep
  <2>1. CASE scan > 0 /\ scan <= Len(queue) /\ Start(queue[scan], "queued", "prep")
    <3>1. scan \in 1..Len(queue) /\ queue \in Seq(Task)
      BY <2>1, LenProperties DEF TypeOK
    <3>2. queue[scan] \in Task
      BY <3>1, ElementOfSeq
    <3>3. QED
      BY <1>3, <2>1, <3>2, StartSession DEF PumpStep, Rows
  <2>2. QED
    BY <1>1, <1>3, <2>1 DEF PumpStep, Rows
<1>4. CASE DrainBegins \/ DrainReleased \/ \E r \in Repo : CoworkBegin(r) \/ CoworkEnd(r)
  BY <1>1, <1>4 DEF DrainBegins, DrainReleased, CoworkBegin, CoworkEnd, TaskVars
<1>5. CASE Restart
  BY <1>5 DEF Restart, SessionsLive, Session, NoRun
<1>6. CASE UNCHANGED vars
  BY <1>1, <1>6 DEF vars
<1>7. QED
  BY <1>2, <1>3, <1>4, <1>5, <1>6, RunStepSession, ContinueSession DEF Next

(* Two implementors of one task never work at once, whatever stale runs,   *)
(* Resumes and Retries start them: startImplementor stops the session it   *)
(* displaces.  The second agent that OneAgentPerTask finds is a planner.   *)
OneImplementor == \A t \in Task : \A g, h \in Gen :
  /\ runs[t][g].at = "work" /\ runs[t][g].turn = "busy"
  /\ runs[t][h].at = "work" /\ runs[t][h].turn = "busy"
  => g = h

(* At most one implementor of a task works, at every moment (this.live).   *)
THEOREM ImplementorIsAlone == Spec => []OneImplementor
<1>1. Init => SessionsLive
  BY DEF Init, SessionsLive, Session, NoRun
<1>2. TypeOK /\ SessionsLive /\ [Next]_vars => SessionsLive'
  BY NextSession
<1>3. SessionsLive => OneImplementor
  BY DEF SessionsLive, Session, OneImplementor
<1>4. QED
  BY <1>1, <1>2, <1>3, TypeCorrect, PTL DEF Spec

-----------------------------------------------------------------------------
(* A cancelled task goes back to work in two windows only: in a run that   *)
(* was preparing its workspace, and in a Resume asked for before.  Every   *)
(* later await of a run looks again, and so does the boot ("Cancellation   *)
(* is terminal until an explicit Retry").                                  *)
CancelHolds == [][\A t \in Task :
  Cancelled(t) /\ state'[t] \in {"planning", "implementing"} =>
    \/ \E g \in Gen : runs[t][g].at = "prep" /\ runs'[t][g].at = "plan"
    \/ call[t].op \in {"resume", "autoResume"}]_vars

(* What the rule asks of a step for one task. *)
Held(t) == Cancelled(t) /\ state'[t] \in {"planning", "implementing"} =>
    \/ \E g \in Gen : runs[t][g].at = "prep" /\ runs'[t][g].at = "plan"
    \/ call[t].op \in {"resume", "autoResume"}

(* A step that writes one row, or none, can only break the rule there. *)
LEMMA RowWritten ==
  ASSUME TypeOK, NEW t \in Task, NEW s, state' = [state EXCEPT ![t] = s],
         s \in {"planning", "implementing"} => ~Cancelled(t) \/ Held(t)
  PROVE  \A u \in Task : Held(u)
<1>1. state'[t] = s /\ \A u \in Task : u # t => state'[u] = state[u]
  BY DEF TypeOK
<1>2. ASSUME NEW u \in Task, u # t PROVE Held(u)
  BY <1>1, <1>2 DEF Held, Cancelled
<1>3. Held(t)
  BY <1>1 DEF Held
<1>4. QED
  BY <1>2, <1>3

LEMMA RowKept == ASSUME UNCHANGED state PROVE \A u \in Task : Held(u)
BY DEF Held, Cancelled

LEMMA RunStepHeld ==
  ASSUME TypeOK, NEW t \in Task, NEW g \in Gen, RunStep(t, g)
  PROVE  \A u \in Task : Held(u)
<1>1. ASSUME NEW s, Move(t, s, s \in SLOT_FREE), s \notin {"planning", "implementing"} \/ ~Cancelled(t)
      PROVE  \A u \in Task : Held(u)
  BY <1>1, RowWritten DEF Move
<1>2. ASSUME NEW frees, Move(t, state[t], frees) PROVE \A u \in Task : Held(u)
  BY <1>2, RowWritten DEF Move, Cancelled
<1>3. ASSUME Leave(t, g) \/ \E s \in {"failed", "review"} : Settle(t, g, s)
      PROVE  \A u \in Task : Held(u)
  BY <1>1, <1>2, <1>3 DEF Leave, Settle, Publish
<1>4. ASSUME startImplementor(t, g), ~Cancelled(t) PROVE \A u \in Task : Held(u)
  BY <1>1, <1>4 DEF startImplementor, Publish
<1>5. CASE PrepDone(t, g)
  <2>1. CASE /\ Publish(t, "planning")
             /\ At(t, g, [runs[t][g] EXCEPT !.at = "plan", !.turn = "busy"])
    <3>1. [runs[t][g] EXCEPT !.at = "plan", !.turn = "busy"].at = "plan"
      BY RunTyped DEF Run
    <3>2. runs'[t][g].at = "plan" /\ runs[t][g].at = "prep"
      <4>1. At(t, g, [runs[t][g] EXCEPT !.at = "plan", !.turn = "busy"]) /\ runs[t][g].at = "prep"
        BY <1>5, <2>1 DEF PrepDone, Step
      <4>2. runs'[t][g] = [runs[t][g] EXCEPT !.at = "plan", !.turn = "busy"]
        BY <4>1, AtElsewhere
      <4>3. QED
        BY <3>1, <4>1, <4>2
    <3>3. Held(t)
      BY <3>2 DEF Held
    <3>4. QED
      BY <2>1, <3>3, RowWritten DEF Publish, Move
  <2>2. QED
    BY <1>3, <1>5, <2>1, RowKept DEF PrepDone
<1>6. CASE PlanDone(t, g) \/ SelectDone(t, g) \/ StartDone(t, g) \/ ResumeSelectDone(t, g)
           \/ ResumeStartDone(t, g)
  BY <1>3, <1>4, <1>6, RowKept
     DEF PlanDone, SelectDone, StartDone, ResumeSelectDone, ResumeStartDone
<1>7. CASE WorkDone(t, g) \/ ResumeWorkDone(t, g) \/ Unwound(t, g)
  BY <1>1, <1>2, <1>7, RowKept DEF WorkDone, ResumeWorkDone, Unwound, Publish
<1>8. QED
  BY <1>5, <1>6, <1>7 DEF RunStep

LEMMA NextHeld == ASSUME TypeOK, Next PROVE \A u \in Task : Held(u)
<1>1. ASSUME NEW t \in Task, NEW s, state' = [state EXCEPT ![t] = s],
             s \notin {"planning", "implementing"}
      PROVE  \A u \in Task : Held(u)
  BY <1>1, RowWritten
<1>2. ASSUME NEW t \in Task, NEW s, NEW q, enqueueOrRun(t, s, q), s \in {"intake", "queued"}
      PROVE  \A u \in Task : Held(u)
  BY <1>1, <1>2 DEF enqueueOrRun
<1>3. ASSUME NEW t \in Task, Continue(t) PROVE \A u \in Task : Held(u)
  <2>1. CASE ResumeSteers(t) \/ ResumeImplementor(t)
    <3>1. Held(t)
      BY <2>1 DEF ResumeSteers, ResumeImplementor, Resumed, Held
    <3>2. state' = [state EXCEPT ![t] = "implementing"]
      BY <2>1 DEF ResumeSteers, ResumeImplementor, Publish, Move
    <3>3. QED
      BY <3>1, <3>2, RowWritten
  <2>2. CASE TornDown(t) \/ Retried(t) \/ Paused(t) \/ ResumeMissing(t)
    BY <1>1, <1>2, <2>2 DEF TornDown, Retried, Paused, ResumeMissing, Publish, Move
  <2>3. CASE Dispatched(t) \/ AgentsStopped(t) \/ ResumeRefused(t) \/ ResumeNoop(t) \/ ResumePipeline(t)
    BY <1>2, <2>3, RowKept DEF Dispatched, AgentsStopped, ResumeRefused, ResumeNoop, ResumePipeline
  <2>4. QED
    BY <1>3, <2>1, <2>2, <2>3 DEF Continue
<1>4. ASSUME NEW t \in Task, Command(t) PROVE \A u \in Task : Held(u)
  BY <1>1, <1>4, RowKept DEF Command, Dispatch, StartImmediately, Ask, Cancel, Publish, Move
<1>5. ASSUME NEW t \in Task, FireWake(t) \/ RequeueAfterBoot(t) PROVE \A u \in Task : Held(u)
  BY <1>2, <1>5, RowKept DEF FireWake, RequeueAfterBoot
<1>6. CASE PumpStep \/ DrainBegins \/ DrainReleased \/ \E r \in Repo : CoworkBegin(r) \/ CoworkEnd(r)
  BY <1>6, RowKept DEF PumpStep, DrainBegins, DrainReleased, CoworkBegin, CoworkEnd, TaskVars
<1>7. CASE Restart
  BY <1>7 DEF Restart, AfterBoot, Held, Cancelled
<1>8. QED
  BY <1>3, <1>4, <1>5, <1>6, <1>7, RunStepHeld DEF Next

(* The finding on Cancel has no third way: outside the two windows a       *)
(* cancelled task stays cancelled until its Retry.                         *)
THEOREM CancelWindows == Spec => CancelHolds
<1>1. TypeOK /\ [Next]_vars => [\A t \in Task : Held(t)]_vars
  BY NextHeld
<1>2. QED
  BY <1>1, TypeCorrect, PTL DEF Spec, CancelHolds, Held
=============================================================================
