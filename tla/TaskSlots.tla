------------------------------ MODULE TaskSlots ------------------------------
(***************************************************************************)
(* server/src/orchestrator/threadManager.ts: which tasks may run.  A task  *)
(* is dispatched, waits in a FIFO queue while the caps are full, and then  *)
(* owns a concurrency slot while its pipeline (or a Resume) runs.  The     *)
(* owner starts, pauses, resumes, cancels, retries, closes and accepts     *)
(* tasks while their runs sit at any await; Co-work turns, planned-restart *)
(* drains and restarts of the process come in between.                     *)
(*                                                                         *)
(* One action is the code between two awaits: the process is a single      *)
(* JavaScript thread.  `planning` also stands for researching,             *)
(* `implementing` also for qa, and `interrupted` is a failed row whose     *)
(* error is RESTART_AUTO_RESUME_MSG.  Left out: token safety, deadlines,   *)
(* sub-tasks and collaborators, the read lane, the approval and Proceed    *)
(* gates, auto-review, the self-improvement round and the cap-park sweep.  *)
(***************************************************************************)
EXTENDS Naturals, Sequences, FiniteSets

CONSTANTS Task, Repo,
          RepoOf,         \* repoCapKey of each task's workspace
          MaxConcurrent,  \* settings().maxConcurrent
          MaxPerRepo,     \* setting_max_concurrent_per_repo, 0 = unlimited
          MaxGen,         \* bound: run records kept for one task
          MaxCommands,    \* bound: owner commands, Co-work turns included
          MaxBounces      \* bound: planned drains and restarts

ASSUME ConstantsOK ==
  /\ IsFiniteSet(Task)
  /\ RepoOf \in [Task -> Repo]
  /\ MaxConcurrent \in Nat /\ MaxPerRepo \in Nat /\ MaxGen \in Nat
  /\ MaxCommands \in Nat /\ MaxBounces \in Nat

VARIABLES state,     \* Thread.state
          runs,      \* the task's run promises: where each one awaits
          slot,      \* activePipelines and activePipelineToken: the run that owns the slot
          live,      \* this.live: the run whose implementor session is open
          queue,     \* dispatchQueue
          scan,      \* index of the pump's FIFO pass, 0 when none is under way
          resuming,  \* this.resuming
          call,      \* the owner's pending async command on a task
          cowork,    \* repositories with a Co-worker turn
          draining,  \* restartDraining()
          requeue,   \* tasks the boot's re-queue timer will visit
          wake,      \* the in-memory auto-resume owed to a task
          commands, bounces  \* bounds: how many have happened

vars == <<state, runs, slot, live, queue, scan, resuming, call, cowork,
          draining, requeue, wake, commands, bounces>>

Gen       == 1..MaxGen
State     == {"none", "intake", "queued", "planning", "implementing", "review", "paused",
              "failed", "interrupted", "done", "cancelled", "closed"}
SLOT_FREE == {"review", "paused", "failed", "interrupted", "done", "cancelled", "closed"}
CLOSEABLE == {"done", "failed", "interrupted", "cancelled", "review", "paused"}
DONEABLE  == {"review", "paused"}
CoworkConflict == {"planning", "implementing"}

(* A run promise: the await it is at, how it was admitted, whether an agent *)
(* turn of its is under way (a paused turn is idle: it does not return by   *)
(* itself), and the session its finally is waiting to stop.                 *)
Run    == [at : {"none", "prep", "plan", "select", "start", "work", "unwind", "throw"},
           kind : {"queued", "immediate", "resume"},
           turn : {"none", "busy", "idle"}, stops : 0..MaxGen]
NoRun  == [at |-> "none", kind |-> "queued", turn |-> "none", stops |-> 0]
Call   == [op : {"none", "dispatch", "retry", "resume", "autoResume", "pause",
                 "cancel", "close", "done"},
           saw : State, run : 0..MaxGen]
NoCall == [op |-> "none", saw |-> "none", run |-> 0]

QueuedOnce == \A i, j \in 1..Len(queue) : queue[i] = queue[j] => i = j

TypeOK ==
  /\ state \in [Task -> State] /\ runs \in [Task -> [Gen -> Run]]
  /\ slot \in [Task -> 0..MaxGen] /\ live \in [Task -> 0..MaxGen]
  /\ queue \in Seq(Task) /\ QueuedOnce /\ scan \in Nat
  /\ resuming \in SUBSET Task /\ call \in [Task -> Call]
  /\ cowork \in SUBSET Repo /\ draining \in BOOLEAN
  /\ requeue \in SUBSET Task /\ wake \in [Task -> {"none", "timer", "held"}]
  /\ commands \in 0..MaxCommands /\ bounces \in 0..MaxBounces

Init ==
  /\ state = [t \in Task |-> "none"] /\ runs = [t \in Task |-> [g \in Gen |-> NoRun]]
  /\ slot = [t \in Task |-> 0] /\ live = [t \in Task |-> 0]
  /\ queue = <<>> /\ scan = 0 /\ resuming = {}
  /\ call = [t \in Task |-> NoCall] /\ cowork = {} /\ draining = FALSE
  /\ requeue = {} /\ wake = [t \in Task |-> "none"]
  /\ commands = 0 /\ bounces = 0

-----------------------------------------------------------------------------
(* Readings of the state. *)

Cancelled(t)    == state[t] = "cancelled"
HasActiveRun(t) == live[t] # 0 \/ \E g \in Gen : runs[t][g].turn # "none"
Active          == {t \in Task : slot[t] # 0}
ActiveIn(r)     == {t \in Active : RepoOf[t] = r}

repoAtCapacity(t) ==
  \/ RepoOf[t] \in cowork
  \/ MaxPerRepo > 0 /\ Cardinality(ActiveIn(RepoOf[t])) >= MaxPerRepo

coworkTaskConflict(r) ==
  \E t \in Task : RepoOf[t] = r /\ (slot[t] # 0 \/ state[t] \in CoworkConflict)

Queued(t)   == \E i \in 1..Len(queue) : queue[i] = t
Remove(i)   == SubSeq(queue, 1, i - 1) \o SubSeq(queue, i + 1, Len(queue))

(* dropFromQueue *)
Dropped(t) == IF Queued(t) THEN Remove(CHOOSE i \in 1..Len(queue) : queue[i] = t) ELSE queue

(* recoverReleasedCapacity fires every auto-resume a hold had kept. *)
Released == [t \in Task |-> IF wake[t] = "held" THEN "timer" ELSE wake[t]]

-----------------------------------------------------------------------------
(* The steps every handler is made of. *)

(* A state row is written and, when the task no longer works or its own run *)
(* hands the slot back, the slot is released: releasePipelineSlot pumps.    *)
Move(t, s, frees) ==
  /\ state' = [state EXCEPT ![t] = s]
  /\ \/ frees /\ slot[t] # 0
        /\ slot' = [slot EXCEPT ![t] = 0] /\ scan' = 1 /\ wake' = Released
     \/ ~(frees /\ slot[t] # 0) /\ UNCHANGED <<slot, scan, wake>>

(* setState, publishState: parked and settled states free the slot whoever *)
(* owns it.                                                                *)
Publish(t, s) == Move(t, s, s \in SLOT_FREE)

At(t, g, r) == runs' = [runs EXCEPT ![t][g] = r]

\* mutant: the finalizer frees the slot without comparing its token
Leave_AnyToken(t, g) == Move(t, state[t], TRUE) /\ At(t, g, NoRun)

\* mutant: an early return skips the finalizer
Leave_KeepsSlot(t, g) == Move(t, state[t], FALSE) /\ At(t, g, NoRun)

(* Run g returns: its release frees the slot only while g still owns it. *)
Leave(t, g) == Move(t, state[t], slot[t] = g) /\ At(t, g, NoRun)

(* Run g parks or fails its task and returns. *)
Settle(t, g, s) == Publish(t, s) /\ At(t, g, NoRun)

(* reservePipelineSlot and the run up to its first await. *)
Start(t, kind, at) ==
  \E g \in Gen :
    /\ runs[t][g] = NoRun /\ \A h \in 1..(g - 1) : runs[t][h] # NoRun
    /\ runs' = [runs EXCEPT ![t][g] = [at |-> at, kind |-> kind, turn |-> "none", stops |-> 0]]
    /\ slot' = [slot EXCEPT ![t] = g]

(* No slot now for fresh work: drain, global cap, Co-work or per-repo cap. *)
Full(t) == draining \/ Cardinality(Active) >= MaxConcurrent \/ repoAtCapacity(t)

\* mutant: a task already waiting is pushed again
enqueueOrRun_PushesAgain(t, s, q) ==
  \/ /\ Full(t)
     /\ state' = [state EXCEPT ![t] = "queued"] /\ queue' = Append(q, t)
     /\ UNCHANGED <<runs, slot>>
  \/ /\ ~Full(t)
     /\ state' = [state EXCEPT ![t] = s] /\ queue' = q
     /\ Start(t, "queued", "prep")

(* q is the queue enqueueOrRun finds, s the state of a task it starts. *)
enqueueOrRun(t, s, q) ==
  \/ /\ Full(t)
     /\ state' = [state EXCEPT ![t] = "queued"]
     /\ queue' = IF \E i \in 1..Len(q) : q[i] = t THEN q ELSE Append(q, t)
     /\ UNCHANGED <<runs, slot>>
  \/ /\ ~Full(t)
     /\ state' = [state EXCEPT ![t] = s] /\ queue' = q
     /\ Start(t, "queued", "prep")

-----------------------------------------------------------------------------
(* The run promises. *)

Step(t, g, at) == scan = 0 /\ runs[t][g].at = at
Next0(t, g, at) == At(t, g, [runs[t][g] EXCEPT !.at = at])

Commands == <<queue, call, cowork, draining, requeue, commands, bounces>>

(* prepareTaskWorkspace has returned; nothing re-reads the state here. *)
PrepDone(t, g) ==
  /\ Step(t, g, "prep")
  /\ \/ Settle(t, g, "failed")                         \* the workspace is gone
     \/ /\ Publish(t, "planning")
        /\ At(t, g, [runs[t][g] EXCEPT !.at = "plan", !.turn = "busy"])
     \/ /\ Next0(t, g, "select")                        \* routed around the planner
        /\ UNCHANGED <<state, slot, scan, wake>>
  /\ UNCHANGED <<live, resuming, Commands>>

(* The planner has answered, failed or been stopped. *)
PlanDone(t, g) ==
  /\ Step(t, g, "plan")
  /\ \/ Cancelled(t) /\ Leave(t, g)
     \/ ~Cancelled(t) /\ Settle(t, g, "review")         \* usage-capped
     \/ /\ ~Cancelled(t)
        /\ At(t, g, [runs[t][g] EXCEPT !.at = "select", !.turn = "none"])
        /\ UNCHANGED <<state, slot, scan, wake>>
  /\ UNCHANGED <<live, resuming, Commands>>

(* startImplementor: the new session displaces and stops an older one. *)
startImplementor(t, g) ==
  /\ Publish(t, "implementing")
  /\ runs' = [runs EXCEPT ![t] = [h \in Gen |->
       IF h = g THEN [runs[t][h] EXCEPT !.at = "work", !.turn = "busy"]
       ELSE IF h = live[t] THEN [runs[t][h] EXCEPT !.turn = "none"] ELSE runs[t][h]]]
  /\ live' = [live EXCEPT ![t] = g]

(* runPipeline past autoSelectModel and the provider gate. *)
SelectDone(t, g) ==
  /\ Step(t, g, "select") /\ runs[t][g].kind # "resume"
  /\ \/ Settle(t, g, "review") /\ UNCHANGED live       \* no compliant model
     \/ Cancelled(t) /\ Leave(t, g) /\ UNCHANGED live
     \/ /\ ~Cancelled(t) /\ UNCHANGED live
        /\ \E s \in {"failed", "review"} : Settle(t, g, s)
     \/ /\ ~Cancelled(t) /\ Next0(t, g, "start")        \* cold: compress first
        /\ UNCHANGED <<state, slot, scan, wake, live>>
     \/ ~Cancelled(t) /\ startImplementor(t, g)
  /\ UNCHANGED <<resuming, Commands>>

(* The compression is over; a throw leaves through runImplementorQa's      *)
(* finally, which stops whatever implementor the task has.                 *)
StartDone(t, g) ==
  /\ Step(t, g, "start") /\ runs[t][g].kind # "resume"
  /\ \/ /\ \E at \in {"unwind", "throw"} :
             /\ at = "unwind" => Cancelled(t)
             /\ At(t, g, [runs[t][g] EXCEPT !.at = at, !.stops = live[t]])
        /\ UNCHANGED <<state, slot, scan, wake, live>>
     \/ ~Cancelled(t) /\ startImplementor(t, g)
  /\ UNCHANGED <<resuming, Commands>>

\* mutant: a refused resume keeps its coalescing flag
ResumeSelectDone_KeepsFlag(t, g) ==
  /\ Step(t, g, "select") /\ runs[t][g].kind = "resume"
  /\ \/ \E s \in {"failed", "review"} : Settle(t, g, s) /\ UNCHANGED <<live, resuming>>
     \/ Cancelled(t) /\ Leave(t, g) /\ resuming' = resuming \ {t} /\ UNCHANGED live
     \/ /\ ~Cancelled(t) /\ Next0(t, g, "start")
        /\ UNCHANGED <<state, slot, scan, wake, live, resuming>>
     \/ ~Cancelled(t) /\ startImplementor(t, g) /\ resuming' = resuming \ {t}
  /\ UNCHANGED Commands

(* runImplementorOnlyResume: the same two awaits; the flag falls once the  *)
(* implementor is live or the start was abandoned.                         *)
ResumeSelectDone(t, g) ==
  /\ Step(t, g, "select") /\ runs[t][g].kind = "resume"
  /\ \/ /\ \E s \in {"failed", "review"} : Settle(t, g, s)
        /\ resuming' = resuming \ {t} /\ UNCHANGED live
     \/ Cancelled(t) /\ Leave(t, g) /\ resuming' = resuming \ {t} /\ UNCHANGED live
     \/ /\ ~Cancelled(t) /\ Next0(t, g, "start")
        /\ UNCHANGED <<state, slot, scan, wake, live, resuming>>
     \/ ~Cancelled(t) /\ startImplementor(t, g) /\ resuming' = resuming \ {t}
  /\ UNCHANGED Commands

ResumeStartDone(t, g) ==
  /\ Step(t, g, "start") /\ runs[t][g].kind = "resume"
  /\ resuming' = resuming \ {t}
  /\ \/ /\ UNCHANGED live                               \* no implementor
        /\ IF state[t] = "implementing" THEN Settle(t, g, "review") ELSE Leave(t, g)
     \/ ~Cancelled(t) /\ startImplementor(t, g)
  /\ UNCHANGED Commands

(* The agent's result reaches the pipeline: settle, then stop the session. *)
WorkDone(t, g) ==
  /\ Step(t, g, "work") /\ runs[t][g].kind # "resume" /\ runs[t][g].turn # "idle"
  /\ \E at \in {"unwind", "throw"} :
       /\ At(t, g, [runs[t][g] EXCEPT !.at = at, !.turn = "none", !.stops = live[t]])
       /\ IF at = "throw" \/ Cancelled(t)
          THEN UNCHANGED <<state, slot, scan, wake>>
          ELSE \E s \in {"done", "review", "paused"} : Publish(t, s)
  /\ UNCHANGED <<live, resuming, Commands>>

(* A resumed run releases its slot at once; its stopLive is not awaited. *)
ResumeWorkDone(t, g) ==
  /\ Step(t, g, "work") /\ runs[t][g].kind = "resume" /\ runs[t][g].turn # "idle"
  /\ At(t, g, [runs[t][g] EXCEPT !.at = "unwind", !.turn = "none", !.stops = live[t]])
  /\ IF state[t] = "implementing" THEN \E s \in {"review", "paused"} : Publish(t, s)
     ELSE Move(t, state[t], slot[t] = g)
  /\ UNCHANGED <<live, resuming, Commands>>

(* stopLive has returned: the session it named is down. *)
Unwound(t, g) ==
  /\ scan = 0 /\ runs[t][g].at \in {"unwind", "throw"}
  /\ LET h == runs[t][g].stops IN
       /\ runs' = [runs EXCEPT ![t] = [k \in Gen |->
            IF k = g THEN NoRun
            ELSE IF k = h /\ live[t] = h THEN [runs[t][k] EXCEPT !.turn = "none"]
            ELSE runs[t][k]]]
       /\ live' = [live EXCEPT ![t] = IF @ = h THEN 0 ELSE @]
  /\ IF runs[t][g].at = "throw" /\ ~Cancelled(t) THEN Publish(t, "failed")
     ELSE Move(t, state[t], slot[t] = g)
  /\ UNCHANGED <<resuming, Commands>>

-----------------------------------------------------------------------------
(* The queue. *)

Rows == <<live, resuming, call, cowork, draining, requeue, commands, bounces>>

\* mutant: the pump does not ask whether a restart drains
PumpStep_IgnoresDrain ==
  /\ scan > 0
  /\ \/ /\ scan > Len(queue) \/ Cardinality(Active) >= MaxConcurrent
        /\ scan' = 0 /\ UNCHANGED <<state, runs, slot, queue, wake>>
     \/ /\ scan <= Len(queue) /\ Cardinality(Active) < MaxConcurrent
        /\ state[queue[scan]] = "queued" /\ ~repoAtCapacity(queue[scan])
        /\ queue' = Remove(scan) /\ Start(queue[scan], "queued", "prep")
        /\ UNCHANGED <<state, scan, wake>>
  /\ UNCHANGED Rows

\* mutant: the per-repo cap only holds for the head of the queue
PumpStep_SkipsRepoCap ==
  /\ scan > 0
  /\ \/ /\ draining \/ scan > Len(queue) \/ Cardinality(Active) >= MaxConcurrent
        /\ scan' = 0 /\ UNCHANGED <<state, runs, slot, queue, wake>>
     \/ /\ ~draining /\ scan <= Len(queue) /\ Cardinality(Active) < MaxConcurrent
        /\ queue' = Remove(scan)
        /\ \/ state[queue[scan]] # "queued" /\ UNCHANGED <<runs, slot>>
           \/ state[queue[scan]] = "queued" /\ Start(queue[scan], "queued", "prep")
        /\ UNCHANGED <<state, scan, wake>>
  /\ UNCHANGED Rows

\* mutant: the pump takes the newest entry of the line
PumpStep_NewestFirst ==
  /\ scan > 0
  /\ \/ /\ draining \/ scan > Len(queue) \/ Cardinality(Active) >= MaxConcurrent
        /\ scan' = 0 /\ UNCHANGED <<state, runs, slot, queue, wake>>
     \/ /\ ~draining /\ scan <= Len(queue) /\ Cardinality(Active) < MaxConcurrent
        /\ LET i == Len(queue) IN
             /\ queue' = Remove(i)
             /\ \/ state[queue[i]] # "queued" /\ UNCHANGED <<runs, slot>>
                \/ state[queue[i]] = "queued" /\ Start(queue[i], "queued", "prep")
        /\ UNCHANGED <<state, scan, wake>>
  /\ UNCHANGED Rows

(* One iteration of pumpQueueOnce.  No other handler runs inside a pass.   *)
PumpStep ==
  /\ scan > 0
  /\ \/ /\ draining \/ scan > Len(queue) \/ Cardinality(Active) >= MaxConcurrent
        /\ scan' = 0 /\ UNCHANGED <<state, runs, slot, queue, wake>>
     \/ /\ ~draining /\ scan <= Len(queue) /\ Cardinality(Active) < MaxConcurrent
        /\ LET t == queue[scan] IN
             \/ /\ state[t] # "queued"
                /\ queue' = Remove(scan) /\ UNCHANGED <<runs, slot, scan>>
             \/ /\ state[t] = "queued" /\ repoAtCapacity(t)
                /\ scan' = scan + 1 /\ UNCHANGED <<runs, slot, queue>>
             \/ /\ state[t] = "queued" /\ ~repoAtCapacity(t)
                /\ queue' = Remove(scan) /\ Start(t, "queued", "prep") /\ UNCHANGED scan
        /\ UNCHANGED <<state, wake>>
  /\ UNCHANGED Rows

-----------------------------------------------------------------------------
(* Owner commands.  A command that awaits leaves its continuation in call. *)

Idle(t) == scan = 0 /\ call[t] = NoCall
Owner   == commands < MaxCommands /\ commands' = commands + 1
Await(t, op, g) == call' = [call EXCEPT ![t] = [op |-> op, saw |-> state[t], run |-> g]]
Resumed(t, ops) == scan = 0 /\ call[t].op \in ops /\ call' = [call EXCEPT ![t] = NoCall]

(* dispatch, up to the git read; a task is dispatched once. *)
Dispatch(t) ==
  /\ Idle(t) /\ state[t] = "none"
  /\ state' = [state EXCEPT ![t] = "intake"]
  /\ call' = [call EXCEPT ![t] = [op |-> "dispatch", saw |-> "intake", run |-> 0]]
  /\ UNCHANGED <<runs, slot, live, queue, scan, resuming, cowork, draining,
                 requeue, wake, commands, bounces>>

(* Cancelled or closed while the baseline was read: not enqueued. *)
Dispatched(t) ==
  /\ Resumed(t, {"dispatch"})
  /\ IF state[t] = "intake" THEN enqueueOrRun(t, "intake", queue)
     ELSE UNCHANGED <<state, queue, runs, slot>>
  /\ UNCHANGED <<live, scan, resuming, cowork, draining, requeue, wake, commands, bounces>>

\* mutant: the override also overrides the Co-work check
StartImmediately_BesideCowork(t) ==
  /\ scan = 0 /\ Owner /\ state[t] = "queued" /\ slot[t] = 0 /\ ~draining
  /\ queue' = Dropped(t) /\ Start(t, "immediate", "prep")
  /\ UNCHANGED <<state, live, scan, resuming, call, cowork, draining, requeue, wake, bounces>>

StartImmediately(t) ==
  /\ scan = 0 /\ Owner
  /\ state[t] = "queued" /\ slot[t] = 0 /\ ~draining /\ RepoOf[t] \notin cowork
  /\ queue' = Dropped(t) /\ Start(t, "immediate", "prep")
  /\ UNCHANGED <<state, live, scan, resuming, call, cowork, draining, requeue, wake, bounces>>

(* The commands that only start: what each refuses, and what it awaits. *)
Ask(t) ==
  /\ Idle(t) /\ Owner
  /\ \/ state[t] = "cancelled" /\ Await(t, "retry", 0)
     \/ state[t] \notin {"none", "cancelled"} /\ Await(t, "resume", 0)
     \/ live[t] # 0 /\ Await(t, "pause", live[t])
     \/ state[t] \in CLOSEABLE /\ Await(t, "close", 0)
     \/ state[t] \in DONEABLE /\ Await(t, "done", 0)
  /\ UNCHANGED <<state, runs, slot, live, queue, scan, resuming, cowork, draining,
                 requeue, wake, bounces>>

(* cancelThread with no agent to stop runs through without an await. *)
Cancel(t) ==
  /\ scan = 0 /\ Owner /\ state[t] # "none"
  /\ queue' = Dropped(t)
  /\ \/ /\ HasActiveRun(t) /\ Idle(t) /\ Await(t, "cancel", 0)
        /\ UNCHANGED <<state, slot, scan, wake, resuming>>
     \/ /\ ~HasActiveRun(t) /\ UNCHANGED call
        /\ Publish(t, "cancelled") /\ resuming' = resuming \ {t}
  /\ UNCHANGED <<runs, live, cowork, draining, requeue, bounces>>

(* A teardown's stops have landed: no agent of the task is left running. *)
AgentsStopped(t) ==
  /\ scan = 0 /\ call[t].op \in {"cancel", "close", "done"} /\ HasActiveRun(t)
  /\ runs' = [runs EXCEPT ![t] = [g \in Gen |-> [runs[t][g] EXCEPT !.turn = "none"]]]
  /\ live' = [live EXCEPT ![t] = 0]
  /\ UNCHANGED <<state, slot, queue, scan, resuming, call, cowork, draining,
                 requeue, wake, commands, bounces>>

(* cancelThread, closeThread and markDone after their stops. *)
TornDown(t) ==
  /\ ~HasActiveRun(t)
  /\ \/ Resumed(t, {"cancel"}) /\ Publish(t, "cancelled")
     \/ Resumed(t, {"close"}) /\ Publish(t, "closed")
     \/ Resumed(t, {"done"}) /\ Publish(t, "done")
  /\ resuming' = resuming \ {t}
  /\ UNCHANGED <<runs, live, queue, cowork, draining, requeue, commands, bounces>>

(* retryThread after ensureWorktreesPresent; the state is not read again. *)
Retried(t) ==
  /\ Resumed(t, {"retry"})
  /\ \/ Publish(t, "failed") /\ UNCHANGED <<runs, queue, resuming>>
     \/ /\ enqueueOrRun(t, "queued", Dropped(t))
        /\ resuming' = resuming \ {t} /\ UNCHANGED <<scan, wake>>
  /\ UNCHANGED <<live, cowork, draining, requeue, commands, bounces>>

(* interruptThread after run.interrupt(): the turn is cut short. *)
Paused(t) ==
  /\ Resumed(t, {"pause"}) /\ Publish(t, "paused")
  /\ runs' = [runs EXCEPT ![t] = [g \in Gen |->
       IF g = call[t].run /\ runs[t][g].turn = "busy"
       THEN [runs[t][g] EXCEPT !.turn = "idle"] ELSE runs[t][g]]]
  /\ UNCHANGED <<live, queue, resuming, cowork, draining, requeue, commands, bounces>>

(* resumeThread after ensureWorktreesPresent, on the row it read before.   *)
CoworkBusy(t) == RepoOf[t] \in cowork
Refuses(t)    == CoworkBusy(t) \/ (draining /\ slot[t] = 0 /\ ~HasActiveRun(t))
Reenters(t)   == call[t].saw \in {"failed", "interrupted"}

ResumeMissing(t) ==
  /\ Resumed(t, {"resume", "autoResume"}) /\ Publish(t, "failed")
  /\ UNCHANGED <<runs, live, queue, resuming, cowork, draining, requeue, commands, bounces>>

\* mutant: an automatic resume refused by a hold is dropped
ResumeRefused_DropsPromise(t) ==
  /\ Resumed(t, {"resume", "autoResume"}) /\ Refuses(t)
  /\ UNCHANGED <<state, runs, slot, live, queue, scan, resuming, cowork, draining,
                 requeue, wake, commands, bounces>>

(* A refused automatic resume is held for the release that clears it.      *)
ResumeRefused(t) ==
  /\ Resumed(t, {"resume", "autoResume"}) /\ Refuses(t)
  /\ wake' = [wake EXCEPT ![t] =
       IF call[t].op = "autoResume" /\ state[t] = "interrupted" THEN "held" ELSE @]
  /\ UNCHANGED <<state, runs, slot, live, queue, scan, resuming, cowork, draining,
                 requeue, commands, bounces>>

(* Queued, or a run is already coming up. *)
ResumeNoop(t) ==
  /\ Resumed(t, {"resume", "autoResume"}) /\ ~Refuses(t)
  /\ \/ call[t].saw = "queued"
     \/ live[t] = 0 /\ Reenters(t) /\ (slot[t] # 0 \/ Cancelled(t))
     \/ live[t] = 0 /\ ~Reenters(t) /\ t \in resuming
  /\ UNCHANGED <<state, runs, slot, live, queue, scan, resuming, cowork, draining,
                 requeue, wake, commands, bounces>>

(* The session is open: steer it.  No slot is reserved. *)
ResumeSteers(t) ==
  /\ Resumed(t, {"resume", "autoResume"}) /\ ~Refuses(t)
  /\ call[t].saw # "queued" /\ live[t] # 0
  /\ Publish(t, "implementing")
  /\ runs' = [runs EXCEPT ![t] = [g \in Gen |->
       IF g = live[t] /\ runs[t][g].turn = "idle"
       THEN [runs[t][g] EXCEPT !.turn = "busy"] ELSE runs[t][g]]]
  /\ UNCHANGED <<live, queue, resuming, cowork, draining, requeue, commands, bounces>>

(* A failed task re-enters runPipeline, past the caps. *)
ResumePipeline(t) ==
  /\ Resumed(t, {"resume", "autoResume"}) /\ ~Refuses(t)
  /\ live[t] = 0 /\ Reenters(t) /\ slot[t] = 0 /\ ~Cancelled(t)
  /\ Start(t, "immediate", "prep")
  /\ UNCHANGED <<state, live, queue, scan, resuming, cowork, draining, requeue,
                 wake, commands, bounces>>

(* Any other task talks to the implementor only: resumeImplementorOnly. *)
ResumeImplementor(t) ==
  /\ Resumed(t, {"resume", "autoResume"}) /\ ~Refuses(t)
  /\ call[t].saw # "queued" /\ live[t] = 0 /\ ~Reenters(t) /\ t \notin resuming
  /\ resuming' = resuming \cup {t} /\ state' = [state EXCEPT ![t] = "implementing"]
  /\ Start(t, "resume", "select")
  /\ UNCHANGED <<live, queue, scan, cowork, draining, requeue, wake, commands, bounces>>

-----------------------------------------------------------------------------
(* Co-work turns, the restart drain and the boot. *)

TaskVars == <<state, runs, slot, live, queue, resuming, call, requeue>>

CoworkBegin(r) ==
  /\ scan = 0 /\ Owner /\ ~draining /\ r \notin cowork /\ ~coworkTaskConflict(r)
  /\ cowork' = cowork \cup {r}
  /\ UNCHANGED <<TaskVars, scan, draining, wake, bounces>>

\* mutant: the end of a Co-work turn does not wake the queue
CoworkEnd_NoPump(r) ==
  /\ scan = 0 /\ r \in cowork
  /\ cowork' = cowork \ {r} /\ wake' = Released
  /\ UNCHANGED <<TaskVars, scan, draining, commands, bounces>>

CoworkEnd(r) ==
  /\ scan = 0 /\ r \in cowork
  /\ cowork' = cowork \ {r} /\ scan' = 1 /\ wake' = Released
  /\ UNCHANGED <<TaskVars, draining, commands, bounces>>

DrainBegins ==
  /\ scan = 0 /\ ~draining /\ bounces < MaxBounces
  /\ draining' = TRUE /\ bounces' = bounces + 1
  /\ UNCHANGED <<TaskVars, cowork, scan, wake, commands>>

(* restartDrainReleased: the planned restart proved moot or was refused. *)
DrainReleased ==
  /\ scan = 0 /\ draining
  /\ draining' = FALSE /\ scan' = 1 /\ wake' = Released
  /\ UNCHANGED <<TaskVars, cowork, commands, bounces>>

(* fireRestartResume, from its timer or from a release: it goes on to      *)
(* resumeThread, is held, or finds the promise already kept.               *)
FireWake(t) ==
  /\ scan = 0 /\ wake[t] = "timer" /\ call[t] = NoCall
  /\ \/ /\ state[t] # "interrupted" \/ slot[t] # 0 \/ t \in resuming
        /\ wake' = [wake EXCEPT ![t] = "none"] /\ UNCHANGED call
     \/ /\ state[t] = "interrupted" /\ slot[t] = 0 /\ t \notin resuming
        /\ IF draining \/ CoworkBusy(t)
           THEN wake' = [wake EXCEPT ![t] = "held"] /\ UNCHANGED call
           ELSE wake' = [wake EXCEPT ![t] = "none"] /\ Await(t, "autoResume", 0)
  /\ UNCHANGED <<state, runs, slot, live, queue, scan, resuming, cowork, draining,
                 requeue, commands, bounces>>

(* The boot's timer puts the rows it found queued back in line. *)
RequeueAfterBoot(t) ==
  /\ scan = 0 /\ t \in requeue /\ requeue' = requeue \ {t}
  /\ IF state[t] = "queued" /\ slot[t] = 0 THEN enqueueOrRun(t, "queued", queue)
     ELSE UNCHANGED <<state, queue, runs, slot>>
  /\ UNCHANGED <<live, scan, resuming, call, cowork, draining, wake, commands, bounces>>

(* What markInterrupted and reviveStrandedAutoResumes make of each row;    *)
(* gaveUp are the promises older than the revival budget.                  *)
AfterBoot(gaveUp) == [t \in Task |->
  IF t \in gaveUp THEN "failed"
  ELSE IF state[t] = "intake" THEN "queued"
  ELSE IF state[t] \in {"planning", "implementing"} THEN "interrupted"
  ELSE state[t]]

\* mutant: the boot forgets rows that were already queued
Restart_ForgetsQueued ==
  /\ bounces < MaxBounces /\ bounces' = bounces + 1
  /\ state' = AfterBoot({})
  /\ requeue' = {t \in Task : state[t] = "intake"}
  /\ wake' = [t \in Task |-> IF state'[t] = "interrupted" THEN "timer" ELSE "none"]
  /\ runs' = [t \in Task |-> [g \in Gen |-> NoRun]]
  /\ slot' = [t \in Task |-> 0] /\ live' = [t \in Task |-> 0]
  /\ queue' = <<>> /\ scan' = 0 /\ resuming' = {}
  /\ call' = [t \in Task |-> NoCall] /\ cowork' = {} /\ draining' = FALSE
  /\ UNCHANGED commands

(* The process dies, planned or not, and boots: only the rows survive. *)
Restart ==
  /\ scan = 0 /\ bounces < MaxBounces /\ bounces' = bounces + 1
  /\ \E gaveUp \in SUBSET {t \in Task : state[t] = "interrupted"} : state' = AfterBoot(gaveUp)
  /\ requeue' = {t \in Task : state'[t] = "queued"}
  /\ wake' = [t \in Task |-> IF state'[t] = "interrupted" THEN "timer" ELSE "none"]
  /\ runs' = [t \in Task |-> [g \in Gen |-> NoRun]]
  /\ slot' = [t \in Task |-> 0] /\ live' = [t \in Task |-> 0]
  /\ queue' = <<>> /\ scan' = 0 /\ resuming' = {}
  /\ call' = [t \in Task |-> NoCall] /\ cowork' = {} /\ draining' = FALSE
  /\ UNCHANGED commands

-----------------------------------------------------------------------------
RunStep(t, g) ==
  \/ PrepDone(t, g) \/ PlanDone(t, g) \/ SelectDone(t, g) \/ StartDone(t, g)
  \/ ResumeSelectDone(t, g) \/ ResumeStartDone(t, g)
  \/ WorkDone(t, g) \/ ResumeWorkDone(t, g) \/ Unwound(t, g)

Continue(t) ==
  \/ Dispatched(t) \/ AgentsStopped(t) \/ TornDown(t) \/ Retried(t) \/ Paused(t)
  \/ ResumeMissing(t) \/ ResumeRefused(t) \/ ResumeNoop(t) \/ ResumeSteers(t)
  \/ ResumePipeline(t) \/ ResumeImplementor(t)

Command(t) == Dispatch(t) \/ StartImmediately(t) \/ Ask(t) \/ Cancel(t)

Next ==
  \/ \E t \in Task, g \in Gen : RunStep(t, g)
  \/ \E t \in Task : Continue(t) \/ Command(t) \/ FireWake(t) \/ RequeueAfterBoot(t)
  \/ \E r \in Repo : CoworkBegin(r) \/ CoworkEnd(r)
  \/ PumpStep \/ DrainBegins \/ DrainReleased \/ Restart

Spec == Init /\ [][Next]_vars

(* Awaited work returns (a turn the owner paused does not, Unwound and     *)
(* WorkDone aside), timers fire, a Co-work turn ends and a drain is        *)
(* released or ends in the restart; the owner never has to do anything.    *)
FairSpec ==
  /\ Spec
  /\ \A t \in Task : WF_vars(Continue(t)) /\ WF_vars(FireWake(t)) /\ WF_vars(RequeueAfterBoot(t))
  /\ \A t \in Task, g \in Gen : WF_vars(RunStep(t, g))
  /\ \A r \in Repo : WF_vars(CoworkEnd(r))
  /\ WF_vars(PumpStep) /\ WF_vars(DrainReleased)

-----------------------------------------------------------------------------
(* Properties. *)

(* No slot leaks: whatever frees or replaces runs, a held slot belongs to a *)
(* run that has not returned (the "set 4, only 3 leave the queue" report).  *)
SlotHasOwner == \A t \in Active : runs[t][slot[t]].at # "none"

(* A queued row is never stranded: it waits in the dispatch queue, its run *)
(* has its slot, the boot timer will visit it or a cancel is tearing it    *)
(* down.                                                                   *)
QueuedIsOwned == \A t \in Task : state[t] = "queued" =>
  Queued(t) \/ slot[t] # 0 \/ t \in requeue \/ call[t].op = "cancel"

(* No wakeup is lost: outside a pump pass, a task waits in line only for a *)
(* reason that whoever ends it pumps for: the drain, a cap, a Co-work turn. *)
NoLostWakeup == scan = 0 =>
  \A i \in 1..Len(queue) : state[queue[i]] = "queued" => Full(queue[i])

(* The line is served in order: a pass starts a task only past those that   *)
(* their own repository holds up ("must NOT block a queued task for a       *)
(* DIFFERENT (free) repo behind it").                                       *)
ServedInTurn == [][\A i, j \in 1..Len(queue) :
  i < j /\ scan > 0 /\ slot[queue[j]] = 0 /\ slot'[queue[j]] # 0 /\ state[queue[i]] = "queued"
    => repoAtCapacity(queue[i])]_vars

(* Runs admitted through the queue never exceed either cap, however starts *)
(* that bypass it, releases and pump passes interleave.                    *)
Admitted == {t \in Active : runs[t][slot[t]].kind = "queued"}
AdmissionWithinCaps ==
  /\ Cardinality(Admitted) <= MaxConcurrent
  /\ MaxPerRepo > 0 => \A r \in Repo :
       Cardinality({t \in Admitted : RepoOf[t] = r}) <= MaxPerRepo

(* No pipeline or Resume holds a slot in a repository with a Co-work turn. *)
CoworkExclusive == \A t \in Active : RepoOf[t] \notin cowork

(* A planned restart waits for the work it found: while it drains, only a  *)
(* task that already has an agent may take a slot.                         *)
DrainAdmitsNothing == [][\A t \in Task :
  draining /\ slot[t] = 0 /\ slot'[t] # 0 => HasActiveRun(t)]_vars

(* The coalescing flag that makes Resume a no-op never outlives the start  *)
(* it stands for.                                                          *)
ResumingHasRun == \A t \in resuming : \E g \in Gen :
  runs[t][g].kind = "resume" /\ runs[t][g].at \in {"select", "start"}

(* The supersede rule: a slot is taken from a run only by that run's return *)
(* or because its task is parked or settled, never by an older run's late   *)
(* finalizer.                                                               *)
ReleasedByOwnerOrState == [][\A t \in Task : slot[t] # 0 /\ slot'[t] = 0 =>
  state'[t] \in SLOT_FREE \/ runs'[t][slot[t]].at \in {"none", "unwind"}]_vars

(* A queued task is started, or taken off the queue by its owner.          *)
QueuedStarts == \A t \in Task : state[t] = "queued" ~> state[t] # "queued"

(* The promise "auto-resuming..." a restart writes on a task is kept.      *)
AutoResumeDelivered == \A t \in Task : state[t] = "interrupted" ~> state[t] # "interrupted"

(* "they still count toward the active total": a task whose paused turn is *)
(* set to work again holds a slot.                                         *)
ResumeCounts == [][\A t \in Task, g \in Gen :
  runs[t][g].turn = "idle" /\ runs'[t][g].turn = "busy" => slot'[t] # 0]_vars

(* "Cancellation is terminal until an explicit Retry": a cancelled task    *)
(* does not go back to work by itself.                                     *)
CancelIsTerminal == [][\A t \in Task :
  state[t] = "cancelled" => state'[t] \notin {"planning", "implementing"}]_vars

(* "one-role-per-slot": no two agents of one task work at the same time.   *)
OneAgentPerTask == \A t \in Task :
  \A g, h \in Gen : runs[t][g].turn = "busy" /\ runs[t][h].turn = "busy" => g = h
=============================================================================
