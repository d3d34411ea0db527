--------------------------- MODULE ReviewInjections ---------------------------
(***************************************************************************)
(* The auto-review lane of one task, and the owner instructions sent while *)
(* it runs (orchestrator/reviewInjections.ts, the auto-review half of      *)
(* threadManager.ts and the episode rows of db.ts).                        *)
(*                                                                         *)
(* The lane claims the parked task, runs a reviewer, may send the work     *)
(* back to an implementor, and settles the task on the last verdict.  An   *)
(* append is a row the reviewer must acknowledge; an interrupt discards    *)
(* the review and sends the task back to an implementor.  A step runs from *)
(* one await to the next, so a command of the owner may land between any   *)
(* two.  A verdict, a stop or an error of an agent is a choice.            *)
(***************************************************************************)
EXTENDS Naturals, FiniteSets

CONSTANTS Append, Interrupt,  \* instructions, by their mode
          Run, NoRun,         \* run ids; a fresh one is one nothing names
          MaxClicks,          \* bound: clicks on Auto-review, Mark done, Cancel
          MaxFaults,          \* bound: restarts and failovers of a fix round
          FixRounds,          \* maxReviewFixRounds
          Recoveries,         \* MAX_REVIEW_RECOVERIES
          Misses,             \* verdicts that may omit an acknowledgement
          Passes,             \* continuations for late instructions
          Resumer, Nobody     \* bound: resumes under way at a time

Instruction == Append \cup Interrupt

ASSUME ConstantsOK ==
  /\ Append \cap Interrupt = {} /\ NoRun \notin Run
  /\ MaxClicks \in Nat /\ MaxFaults \in Nat
  /\ FixRounds \in Nat /\ Recoveries \in Nat /\ Misses \in Nat /\ Passes \in Nat
  /\ Nobody \notin Resumer
  /\ IsFiniteSet(Instruction) /\ IsFiniteSet(Run)
  /\ Cardinality(Run) > Cardinality(Instruction) + 3  \* one is always free

VARIABLES task,      \* threads.state
          claims,    \* claim tokens made so far
          owner,     \* token of the running episode, 0 if none runs
          accepted,  \* token of the episode if its outcome is accepted, else 0
          row,       \* the review_injections row of each instruction
          lane,      \* where runAutoReview is
          reviewer,  \* liveReviewer
          live,      \* the live implementor
          resume,    \* where each runImplementorOnlyResume is, and its rows
          resuming,  \* the resume whose start the coalescing flag is set for
          slot,      \* the resume that holds the task's slot
          sched,     \* a resume waits for the lane's task to end
          stopping,  \* interrupts that await reviewer.stop()
          settling,  \* a Mark done or Cancel that awaits its stops
          settles,   \* Mark dones and Cancels made so far
  boots, relaunches

agents == <<reviewer, live>>
commands == <<sched, stopping, settling>>
resumes == <<resume, resuming, slot>>
bounds == <<settles, boots, relaunches>>
Clicks == claims + settles
vars == <<task, claims, owner, accepted, row, lane, agents, resumes, commands, bounds>>

OpenStatus == {"accepted", "reviewer", "acknowledged", "queued", "implementor", "implemented"}
Dropped  == {"none", "failed", "too_late"}
Status   == OpenStatus \cup Dropped \cup {"handled"}
State    == {"review", "reviewing", "implementing", "failed", "done", "cancelled"}
Terminal == {"done", "cancelled"}
FixPlace == {"fixstart", "fix", "drainstart", "drain", "fixstop"}
LanePc   == {"idle", "claim", "launch", "turn", "gap", "unwound"} \cup FixPlace
Verdict  == {"accept", "issues", "reject"}
NoVerdict == {"stopped", "error"}

AtRest == [pc |-> "idle", tok |-> 0, run |-> NoRun, rows |-> {}, verdict |-> "error",
           misses |-> 0, tries |-> 0, passes |-> 0, round |-> 0]
NoResume == [pc |-> "idle", rows |-> {}]
AllRest == [r \in Resumer |-> NoResume]

RowType == [st : Status, tok : 0..MaxClicks, run : Run \cup {NoRun}, ack : BOOLEAN, built : BOOLEAN]
LaneType ==
  [pc : LanePc, tok : 0..MaxClicks, run : Run \cup {NoRun}, rows : SUBSET Instruction,
   verdict : Verdict \cup NoVerdict \cup {"fixed"}, misses : 0..Misses, tries : 0..Recoveries,
   passes : 0..Passes, round : 0..FixRounds]

TypeOK ==
  /\ task \in State /\ claims \in 0..MaxClicks
  /\ owner \in 0..MaxClicks /\ accepted \in 0..MaxClicks
  /\ row \in [Instruction -> RowType] /\ lane \in LaneType
  /\ reviewer \in Run \cup {NoRun} /\ live \in Run \cup {NoRun}
  /\ resume \in [Resumer -> [pc : {"idle", "pick", "start", "run"}, rows : SUBSET Instruction]]
  /\ resuming \in Resumer \cup {Nobody} /\ slot \in Resumer \cup {Nobody}
  /\ sched \in BOOLEAN /\ stopping \subseteq Interrupt
  /\ settling \in {"none"} \cup Terminal
  /\ settles \in 0..MaxClicks /\ boots \in 0..MaxFaults /\ relaunches \in 0..MaxFaults

NewRow(st, tok, r) == [st |-> st, tok |-> tok, run |-> r, ack |-> FALSE, built |-> FALSE]
NoRow == NewRow("none", 0, NoRun)

Init ==
  /\ task = "review" /\ claims = 0 /\ owner = 0 /\ accepted = 0
  /\ row = [i \in Instruction |-> NoRow]
  /\ lane = AtRest /\ reviewer = NoRun /\ live = NoRun
  /\ resume = AllRest /\ resuming = Nobody /\ slot = Nobody
  /\ sched = FALSE /\ stopping = {} /\ settling = "none"
  /\ settles = 0 /\ boots = 0 /\ relaunches = 0

-----------------------------------------------------------------------------
(* The store's queries and updates, on a table of rows.  A row's run is    *)
(* the one its delivery names, while it is delivered.                      *)
Open(rows) == {i \in Instruction : rows[i].st \in OpenStatus}
OpenOf(rows, tok) == {i \in Open(rows) : rows[i].tok = tok}
Queued(rows) == {i \in Instruction : rows[i].st = "queued"}
QueuedInterrupts(rows) == Queued(rows) \cap Interrupt

(* pendingReviewer, under the running episode's token or with none. *)
Pending(rows) == {i \in Instruction :
  rows[i].st \in {"accepted", "reviewer", "implemented"} /\ ~rows[i].ack /\ rows[i].tok = owner}

To(rows, S, st) ==
  [i \in Instruction |-> IF i \in S THEN [rows[i] EXCEPT !.st = st, !.run = NoRun] ELSE rows[i]]
Delivered(rows, S, st, r) ==
  [i \in Instruction |-> IF i \in S THEN [rows[i] EXCEPT !.st = st, !.run = r] ELSE rows[i]]
Acknowledged(rows, S) ==
  [i \in Instruction |->
     IF i \in S THEN [rows[i] EXCEPT !.st = "acknowledged", !.run = NoRun, !.ack = TRUE]
                ELSE rows[i]]
Implemented(rows, S) ==
  [i \in Instruction |->
     IF i \in S THEN [rows[i] EXCEPT !.st = "implemented", !.run = NoRun, !.ack = FALSE, !.built = TRUE]
                ELSE rows[i]]

(* requeueForReviewer and reassignOpenToEpisode. *)
Renewed(rows, S, tok) ==
  [i \in Instruction |->
     IF i \in S THEN [rows[i] EXCEPT !.st = "accepted", !.tok = tok, !.run = NoRun, !.ack = FALSE]
                ELSE rows[i]]

Done(rows, S) == {i \in S : rows[i].built \/ rows[i].st \in {"implemented", "handled"}}

-----------------------------------------------------------------------------
InUse == {reviewer, live, lane.run} \cup {row[i].run : i \in Instruction}
Fresh == CHOOSE r \in Run : r \notin InUse

Running == lane.pc \notin {"idle", "unwound"}
Cancelled == task = "cancelled"

(* autoReviewOwns, and the gate of Inject and Resume. *)
Owned == owner # 0 \/ (Running /\ ~Cancelled)
Gate == task = "reviewing" \/ Owned

(* autoReviewTasks: the promise of the lane exists once it runs. *)
HasTask == lane.pc \notin {"idle", "claim"}

(* A command lands between two macrotasks: not while a lane that ended     *)
(* still unwinds, and in a claim's teardown only if it waits for a run.    *)
Quiet == lane.pc # "unwound" /\ (lane.pc = "claim" => lane.run # NoRun)

Move(to) == lane' = [lane EXCEPT !.pc = to]
End == lane' = [AtRest EXCEPT !.pc = "unwound"] /\ reviewer' = NoRun /\ slot' = Nobody

(* finishAutoReview: only the running token may settle the task. *)
Park ==
  /\ task' = IF owner = lane.tok /\ task \notin {"review"} \cup Terminal THEN "review" ELSE task
  /\ owner' = IF owner = lane.tok THEN 0 ELSE owner

Accept ==
  /\ owner' = IF owner = lane.tok THEN 0 ELSE owner
  /\ IF owner = lane.tok /\ task = "reviewing"
     THEN task' = "done" /\ accepted' = lane.tok
     ELSE UNCHANGED <<task, accepted>>

(* A resume takes the flag and the slot, whoever had them. *)
Idle == {r \in Resumer : resume[r].pc = "idle"}
BeginResume(S) ==
  LET r == CHOOSE x \in Idle : TRUE IN
  /\ Idle # {} /\ task' = "implementing"
  /\ resume' = [resume EXCEPT ![r] = [pc |-> "pick", rows |-> S]]
  /\ resuming' = r /\ slot' = r
Occupied == resuming # Nobody \/ slot # Nobody

-----------------------------------------------------------------------------
(* autoReview: the claim.  Its teardown of an older run is awaited. *)
Claim ==
  /\ task = "review" /\ ~Owned /\ Quiet /\ QueuedInterrupts(row) = {}
  /\ Clicks < MaxClicks
  /\ task' = "reviewing" /\ claims' = claims + 1 /\ owner' = claims + 1 /\ accepted' = 0
  /\ lane' = [AtRest EXCEPT !.pc = "claim", !.tok = claims + 1, !.run = live]
  /\ UNCHANGED <<row, agents, resumes, commands, bounds>>

Kick ==
  /\ lane.pc = "claim" /\ lane' = [lane EXCEPT !.pc = "launch", !.run = NoRun]
  /\ row' = Renewed(row, Open(row) \cap Append, lane.tok)
  /\ reviewer' = NoRun /\ live' = NoRun /\ resuming' = Nobody
  /\ UNCHANGED <<task, claims, owner, accepted, resume, slot, commands, bounds>>

(* injectThread's auto-review gate, append. *)
AppendTo(i) ==
  /\ Gate /\ Quiet /\ row[i].st = "none"
  /\ row' = [row EXCEPT ![i] =
       IF reviewer # NoRun THEN NewRow("reviewer", owner, reviewer)
       ELSE IF live # NoRun THEN NewRow("implementor", owner, live)
       ELSE NewRow("accepted", owner, NoRun)]
  /\ UNCHANGED <<task, claims, owner, accepted, lane, agents, resumes, commands, bounds>>

(* ... and interrupt: the resume waits for the lane's task, if it has one. *)
Supersede(i) ==
  LET queued == NewRow("queued", owner, NoRun) IN
  /\ Gate /\ Quiet /\ row[i].st = "none"
  /\ \/ /\ live # NoRun
        /\ row' = [row EXCEPT ![i] = NewRow("implementor", owner, live)]
        /\ sched' = (sched \/ HasTask)
        /\ UNCHANGED <<task, resumes, stopping>>
     \/ /\ live = NoRun /\ reviewer # NoRun
        /\ row' = [row EXCEPT ![i] = queued] /\ stopping' = stopping \cup {i}
        /\ UNCHANGED <<task, resumes, sched>>
     \/ /\ live = NoRun /\ reviewer = NoRun /\ HasTask
        /\ row' = [row EXCEPT ![i] = queued] /\ sched' = TRUE
        /\ UNCHANGED <<task, resumes, stopping>>
     \/ /\ live = NoRun /\ reviewer = NoRun /\ ~HasTask
        /\ IF task \in Terminal
           THEN row' = [row EXCEPT ![i] = NewRow("failed", owner, NoRun)] /\ UNCHANGED <<task, resumes>>
           ELSE BeginResume({i}) /\ row' = [row EXCEPT ![i] = queued]
        /\ UNCHANGED <<sched, stopping>>
  /\ UNCHANGED <<claims, owner, accepted, lane, agents, settling, bounds>>

(* reviewer.stop() returned, or threw.  The lane waits for the same        *)
(* child's end after it, so its task still exists.                         *)
stopped(i, schedules) ==
  /\ i \in stopping /\ stopping' = stopping \ {i}
  /\ \/ sched' = (sched \/ schedules) /\ UNCHANGED row
     \/ row' = To(row, {i}, "failed") /\ UNCHANGED sched
  /\ UNCHANGED <<task, claims, owner, accepted, lane, agents, resumes, settling, bounds>>

Stopped_Forgets(i) == stopped(i, FALSE)
Stopped(i) == stopped(i, TRUE)

(* routeReviewRecipientRace: the owner saw a reviewer that is gone. *)
TooLate(i) ==
  /\ ~Gate /\ Quiet /\ row[i].st = "none"
  /\ IF task \in Terminal
     THEN row' = [row EXCEPT ![i] = NewRow("too_late", 0, NoRun)] /\ UNCHANGED <<task, resumes>>
     ELSE IF live # NoRun
     THEN row' = [row EXCEPT ![i] = NewRow("implementor", owner, live)] /\ UNCHANGED <<task, resumes>>
     ELSE /\ row' = [row EXCEPT ![i] = NewRow("queued", owner, NoRun)]
          /\ IF Occupied \/ i \in Append THEN UNCHANGED <<task, resumes>> ELSE BeginResume({i})
  /\ UNCHANGED <<claims, owner, accepted, lane, agents, commands, bounds>>

(* resumeThread without a message, on a parked task. *)
Resume ==
  /\ task = "review" /\ ~Owned /\ Quiet
  /\ IF live # NoRun
     THEN task' = "implementing" /\ UNCHANGED resumes
     ELSE resuming = Nobody /\ BeginResume(Queued(row))
  /\ UNCHANGED <<claims, owner, accepted, row, lane, agents, commands, bounds>>

(* markDone and cancelThread check the state, stop the task's agents ...   *)
Settle(to) ==
  /\ settling = "none" /\ Quiet /\ Clicks < MaxClicks
  /\ \/ to = "done" /\ task \in {"review", "reviewing"}
     \/ to = "cancelled" /\ task \notin Terminal
  /\ settling' = to /\ settles' = settles + 1
  /\ UNCHANGED <<task, claims, owner, accepted, row, lane, agents, resumes, sched, stopping, boots, relaunches>>

(* ... and settle whatever the task has become.  stop() waits a bounded    *)
(* time, so a run may still be winding down.                               *)
Settled ==
  /\ settling # "none" /\ Quiet
  /\ row' = To(row, Open(row), "failed")
  /\ task' = settling /\ owner' = 0 /\ resuming' = Nobody /\ slot' = Nobody
  /\ reviewer' = NoRun /\ live' = NoRun /\ settling' = "none"
  /\ UNCHANGED <<claims, accepted, lane, resume, sched, stopping, bounds>>

-----------------------------------------------------------------------------
(* runRole: a reviewer starts with every pending instruction in its prompt. *)
ReviewerStarts ==
  /\ lane.pc = "launch"
  /\ lane' = [lane EXCEPT !.pc = "turn", !.run = Fresh]
  /\ reviewer' = Fresh /\ row' = Delivered(row, Pending(row), "reviewer", Fresh)
  /\ UNCHANGED <<task, claims, owner, accepted, live, resumes, commands, bounds>>

ReviewerFails ==
  /\ lane.pc = "launch"
  /\ lane' = [lane EXCEPT !.pc = "gap", !.run = NoRun, !.verdict = "error"]
  /\ UNCHANGED <<task, claims, owner, accepted, row, agents, resumes, commands, bounds>>

Ends(v) == /\ lane' = [lane EXCEPT !.pc = "gap", !.run = NoRun, !.verdict = v, !.misses = 0]
           /\ reviewer' = NoRun

(* awaitStructuredReviewResult: a verdict whose summary names some of the  *)
(* pending instructions.  It stands only if none is left; if the run is    *)
(* over, or has missed too often, it is an error; else the lane waits.     *)
Answers(v, S) ==
  LET left == Pending(row) \ S IN
  /\ lane.pc = "turn"
  /\ \/ left = {} /\ row' = Acknowledged(row, S) /\ Ends(v)
     \/ left # {} /\ row' = To(Acknowledged(row, S), left, "failed") /\ Ends("error")
     \/ /\ left # {} /\ lane.misses < Misses /\ row' = Acknowledged(row, S)
        /\ lane' = [lane EXCEPT !.misses = @ + 1]
        /\ UNCHANGED reviewer
  /\ UNCHANGED <<task, claims, owner, accepted, live, resumes, commands, bounds>>

(* A run that stops without a verdict hands its instructions to the next.  *)
breaks(v, carries) ==
  /\ lane.pc = "turn" /\ Ends(v)
  /\ row' = IF carries THEN Renewed(row, Pending(row), owner) ELSE row
  /\ UNCHANGED <<task, claims, owner, accepted, live, resumes, commands, bounds>>

Breaks_KeepsClaim(v) == breaks(v, FALSE)
Breaks(v) == breaks(v, TRUE)

-----------------------------------------------------------------------------
(* After the reviewer's own stop() one macrotask decides what comes next.  *)
AtGap == lane.pc = "gap" /\ stopping = {}
recovers(most) == lane.verdict = "stopped" /\ lane.passes = 0 /\ lane.tries < most /\ ~Cancelled
Recovers_OnceMore == recovers(Recoveries + 1)
Recovers == recovers(Recoveries)
Late == IF lane.passes < Passes THEN {} ELSE Pending(row)

(* reviewToVerdict: one more run for a stop that decided nothing. *)
recover(tries) ==
  /\ AtGap /\ Recovers
  /\ lane' = [lane EXCEPT !.pc = "launch", !.verdict = "error", !.tries = tries]
  /\ UNCHANGED <<task, claims, owner, accepted, row, agents, resumes, commands, bounds>>

Recover_Forgets == recover(lane.tries)
Recover == recover(lane.tries + 1)

(* drainLateReviewerInjections: an instruction came after the turn ended. *)
ReadLate ==
  /\ AtGap /\ ~Recovers /\ Pending(row) # {} /\ lane.passes < Passes
  /\ lane' = [lane EXCEPT !.pc = "launch", !.verdict = "error", !.passes = @ + 1]
  /\ UNCHANGED <<task, claims, owner, accepted, row, agents, resumes, commands, bounds>>

Decides == AtGap /\ ~Recovers /\ (Pending(row) = {} \/ lane.passes = Passes)

(* Instructions past the last continuation fail, and the verdict with them. *)
Drained == To(row, Late, "failed")
FinalVerdict == IF Late = {} THEN lane.verdict ELSE "error"

(* parkSupersededAutoReview. *)
Superseding(rows) ==
  {i \in Interrupt : rows[i].tok = lane.tok /\ rows[i].st \notin Dropped}
HandedOver(rows) ==
  LET S == Superseding(rows) IN To(To(rows, S, "queued"), Done(rows, S), "handled")
IsSuperseded(rows) == Superseding(rows) # {} /\ owner = lane.tok

DropVerdict ==
  /\ Decides /\ IsSuperseded(Drained)
  /\ row' = HandedOver(Drained) /\ Park /\ End
  /\ UNCHANGED <<claims, accepted, live, resume, resuming, commands, bounds>>

goesOn(fenced) == Decides /\ ~(fenced /\ IsSuperseded(Drained))
GoesOn_AnyVerdict == goesOn(FALSE)
GoesOn == goesOn(TRUE)

HandsBack == FinalVerdict = "issues" /\ lane.round < FixRounds /\ ~Cancelled

(* runReviewFixRound up to its first await ... *)
StartFix ==
  LET rows == HandedOver(Drained)
      mine == {i \in OpenOf(rows, lane.tok) \cap Append :
                 rows[i].st \in {"accepted", "acknowledged", "implemented"}} IN
  /\ GoesOn /\ HandsBack
  /\ lane' = [AtRest EXCEPT !.pc = "fixstart", !.tok = lane.tok, !.round = lane.round, !.rows = mine]
  /\ row' = To(rows, mine, "queued")
  /\ UNCHANGED <<task, claims, owner, accepted, agents, resumes, commands, bounds>>

(* ... or no implementor backend may be used. *)
fixBlocked(parks) ==
  /\ GoesOn /\ HandsBack
  /\ row' = HandedOver(Drained) /\ End
  /\ IF parks THEN Park ELSE task' = "failed" /\ UNCHANGED owner
  /\ UNCHANGED <<claims, accepted, live, resume, resuming, commands, bounds>>

FixBlocked_LeavesFailed == fixBlocked(FALSE)
FixBlocked == fixBlocked(TRUE)

(* finalizeReview. *)
Finalize ==
  LET rows == HandedOver(Drained)
      all  == OpenOf(rows, lane.tok)
      mine == all \cap Append IN
  /\ GoesOn /\ ~HandsBack /\ End
  /\ IF Cancelled \/ owner # lane.tok
     THEN row' = rows /\ UNCHANGED <<task, owner, accepted>>
     ELSE \/ /\ FinalVerdict \in NoVerdict
             /\ row' = To(rows, all, "failed") /\ Park /\ UNCHANGED accepted
          \/ /\ FinalVerdict \in {"issues", "reject"}
             /\ row' = To(To(rows, mine, "queued"), Done(rows, mine), "handled")
             /\ Park /\ UNCHANGED accepted
          \/ /\ FinalVerdict = "accept" /\ Accept
             /\ row' = IF task = "reviewing" THEN To(rows, mine, "handled") ELSE rows
  /\ UNCHANGED <<claims, live, resume, resuming, commands, bounds>>

-----------------------------------------------------------------------------
(* The fix implementor is up: it gets the rows queued for it, and those    *)
(* that came while it was starting.                                        *)
FixStarts ==
  LET mine == lane.rows \cup {i \in OpenOf(row, lane.tok) \cap Append : row[i].st = "accepted"} IN
  /\ lane.pc = "fixstart" /\ ~Cancelled
  /\ lane' = [lane EXCEPT !.pc = "fix", !.run = Fresh, !.rows = {}]
  /\ live' = Fresh /\ task' = "implementing"
  /\ row' = Delivered(row, mine, "implementor", Fresh)
  /\ UNCHANGED <<claims, owner, accepted, reviewer, resumes, commands, bounds>>

(* A cancelled task starts none; a start that throws ends the lane. *)
FixAborts ==
  /\ lane.pc \in {"fixstart", "drainstart"} /\ End
  /\ IF Cancelled THEN UNCHANGED <<task, owner>> ELSE Park
  /\ UNCHANGED <<claims, accepted, row, live, resume, resuming, commands, bounds>>

(* awaitImplementorCompletion: a failover replaces the run. *)
FixRelaunches ==
  /\ lane.pc = "fix" /\ ~Cancelled /\ boots + relaunches < MaxFaults
  /\ relaunches' = relaunches + 1 /\ live' = Fresh /\ task' = "implementing"
  /\ UNCHANGED <<claims, owner, accepted, row, lane, reviewer, resumes, commands, settles, boots>>

(* The end of the round: implemented rows wait for the re-check. *)
Finish(rows, ok) ==
  LET mine == {i \in OpenOf(rows, lane.tok) : rows[i].st = "implementor" /\ rows[i].run = lane.run} IN
  /\ lane' = [lane EXCEPT !.pc = "fixstop", !.run = NoRun, !.rows = {}, !.verdict = IF ok /\ ~Cancelled THEN "fixed" ELSE "error"]
  /\ IF Cancelled THEN row' = rows /\ UNCHANGED <<task, owner>>
     ELSE IF ok THEN row' = Implemented(rows, mine) /\ task' = "reviewing" /\ UNCHANGED owner
     ELSE /\ row' = To(rows, mine, "failed")
          /\ task' = IF owner = lane.tok THEN "review" ELSE "reviewing"
          /\ owner' = IF owner = lane.tok THEN 0 ELSE owner

(* drainQueuedFollowUps runs whatever is queued first, if the run did well. *)
Boundary(rows, ok) ==
  IF ok /\ Queued(rows) # {} /\ ~Cancelled
  THEN /\ lane' = [lane EXCEPT !.pc = "drainstart", !.rows = Queued(rows)]
       /\ row' = rows /\ UNCHANGED <<task, owner>>
  ELSE Finish(rows, ok)

FixEnds(ok) ==
  /\ lane.pc = "fix" /\ Boundary(row, ok)
  /\ UNCHANGED <<claims, accepted, agents, resumes, commands, bounds>>

DrainStarts ==
  /\ lane.pc = "drainstart" /\ ~Cancelled
  /\ Move("drain") /\ live' = Fresh /\ task' = "implementing"
  /\ row' = Delivered(row, lane.rows, "implementor", Fresh)
  /\ UNCHANGED <<claims, owner, accepted, reviewer, resumes, commands, bounds>>

DrainEnds(ok) ==
  /\ lane.pc = "drain"
  /\ Boundary(To(row, lane.rows, IF ok THEN "handled" ELSE "failed"), ok)
  /\ UNCHANGED <<claims, accepted, agents, resumes, commands, bounds>>

(* stopLive returned: the next review, or the lane is over. *)
FixStops ==
  /\ lane.pc = "fixstop" /\ live' = NoRun
  /\ IF lane.verdict # "fixed" \/ Cancelled THEN End /\ UNCHANGED <<task, owner, row>>
     ELSE /\ row' = HandedOver(row)
          /\ IF IsSuperseded(row) THEN Park /\ End
             ELSE /\ lane' = [AtRest EXCEPT !.pc = "launch", !.tok = lane.tok, !.round = lane.round + 1]
                  /\ UNCHANGED <<task, owner, reviewer, slot>>
  /\ UNCHANGED <<claims, accepted, resume, resuming, commands, bounds>>

(* An implementor's process is over: onEnd drops the handle. *)
HandleDrops ==
  /\ live # NoRun /\ live' = NoRun
  /\ UNCHANGED <<task, claims, owner, accepted, row, lane, reviewer, resumes, commands, bounds>>

-----------------------------------------------------------------------------
(* scheduleReviewerInterruptResume, once the lane's task has ended. *)
unwind(hands) ==
  LET S == QueuedInterrupts(row) IN
  /\ lane.pc = "unwound" /\ lane' = AtRest /\ sched' = FALSE
  /\ IF ~sched \/ S = {} THEN UNCHANGED <<row, task, resumes>>
     ELSE IF task \in Terminal THEN row' = To(row, S, "failed") /\ UNCHANGED <<task, resumes>>
     ELSE IF live # NoRun THEN
       row' = (IF hands THEN Delivered(row, S, "implementor", live) ELSE row) /\ UNCHANGED <<task, resumes>>
     ELSE IF Occupied THEN UNCHANGED <<row, task, resumes>>
     ELSE BeginResume(S) /\ UNCHANGED row
  /\ UNCHANGED <<claims, owner, accepted, agents, stopping, settling, bounds>>

Unwind_PassesLiveBy == unwind(FALSE)
Unwind == unwind(TRUE)

(* runImplementorOnlyResume reads the queue after its first await ... *)
ResumeReads(r) ==
  /\ resume[r].pc = "pick"
  /\ \/ /\ resume' = [resume EXCEPT ![r] = [pc |-> "start", rows |-> @.rows \cup Queued(row)]]
        /\ UNCHANGED <<task, resuming, slot>>
     \/ /\ resume' = [resume EXCEPT ![r] = NoResume]
        /\ task' = "failed" /\ resuming' = Nobody /\ slot' = Nobody
  /\ UNCHANGED <<claims, owner, accepted, row, lane, agents, commands, bounds>>

(* ... and its start, however it ends, clears the flag. *)
ResumeStarts(r) ==
  /\ resume[r].pc = "start" /\ ~Cancelled
  /\ resume' = [resume EXCEPT ![r].pc = "run"] /\ resuming' = Nobody
  /\ live' = Fresh /\ task' = "implementing"
  /\ row' = Delivered(row, resume[r].rows, "implementor", Fresh)
  /\ UNCHANGED <<claims, owner, accepted, lane, reviewer, slot, commands, bounds>>

(* A parked task has no episode, and frees the slot whoever holds it. *)
ParkResumed(r) ==
  /\ resume' = [resume EXCEPT ![r] = NoResume]
  /\ IF task = "implementing"
     THEN task' = "review" /\ owner' = 0 /\ slot' = Nobody
     ELSE slot' = (IF slot = r THEN Nobody ELSE slot) /\ UNCHANGED <<task, owner>>

ResumeFails(r) ==
  /\ resume[r].pc = "start" /\ ParkResumed(r) /\ resuming' = Nobody
  /\ UNCHANGED <<claims, accepted, row, lane, agents, commands, bounds>>

ResumeEnds(r, ok) ==
  /\ resume[r].pc = "run" /\ ParkResumed(r)
  /\ row' = To(row, resume[r].rows, IF ok THEN "handled" ELSE "failed")
  /\ UNCHANGED <<claims, accepted, lane, agents, resuming, commands, bounds>>

(* The process dies and boots: reconcileInterruptedAutoReview,             *)
(* markInterrupted and reconcileReviewInjectionsAfterRestart.              *)
Boot ==
  LET built == {i \in Open(row) : row[i].built \/ row[i].st = "implemented"} IN
  /\ boots + relaunches < MaxFaults /\ boots' = boots + 1
  /\ task' = IF task \in Terminal THEN task
             ELSE IF owner # 0 \/ task = "reviewing" \/ lane.pc \in FixPlace THEN "review"
             ELSE IF task = "implementing" THEN "failed" ELSE task
  /\ owner' = 0
  /\ row' = To(To(row, Open(row), "queued"), built, "handled")
  /\ lane' = AtRest /\ reviewer' = NoRun /\ live' = NoRun
  /\ resume' = AllRest /\ resuming' = Nobody /\ slot' = Nobody
  /\ sched' = FALSE /\ stopping' = {} /\ settling' = "none"
  /\ UNCHANGED <<claims, accepted, settles, relaunches>>

-----------------------------------------------------------------------------
LaneStep ==
  \/ Kick \/ ReviewerStarts \/ ReviewerFails
  \/ \E v \in Verdict : \E S \in SUBSET Pending(row) : Answers(v, S)
  \/ \E v \in NoVerdict : Breaks(v)
  \/ lane.pc = "gap" /\ (Recover \/ ReadLate \/ DropVerdict \/ StartFix \/ FixBlocked \/ Finalize)
  \/ FixStarts \/ FixAborts \/ DrainStarts \/ FixStops \/ Unwind
  \/ \E ok \in BOOLEAN : FixEnds(ok) \/ DrainEnds(ok)

ResumeStep == \E r \in Resumer :
  \/ ResumeReads(r) \/ ResumeStarts(r) \/ ResumeFails(r) \/ \E ok \in BOOLEAN : ResumeEnds(r, ok)

Command ==
  \/ Claim \/ Resume \/ \E to \in Terminal : Settle(to)
  \/ \E i \in Append : AppendTo(i)
  \/ \E i \in Interrupt : Supersede(i)
  \/ \E i \in Instruction : TooLate(i)

Next ==
  \/ Command \/ LaneStep \/ ResumeStep \/ FixRelaunches \/ HandleDrops \/ Settled
  \/ \E i \in Interrupt : Stopped(i)
  \/ Boot

Spec == Init /\ [][Next]_vars

(* An agent's turn ends with a result or an end of its process, a stop     *)
(* returns, and the event loop runs what waits for them.  Nothing that the *)
(* owner does, and no end of a resume, has to happen.                      *)
Fairness ==
  /\ WF_lane(LaneStep)
  /\ \A i \in Interrupt : WF_stopping(Stopped(i))

FairSpec == Spec /\ Fairness

-----------------------------------------------------------------------------
(* A row of the running episode, or of none, claims delivery to a reviewer *)
(* only while that run is the lane's live turn: the table is "the          *)
(* authority that prevents that narrative from ever claiming delivery      *)
(* without a recipient run" (reviewInjections.ts:85-91).  A row whose      *)
(* episode was taken from its lane in the turn keeps the claim.            *)
DeliveredIsLive ==
  \A i \in Instruction :
    row[i].st = "reviewer" /\ row[i].tok = owner => lane.pc = "turn" /\ row[i].run = lane.run

(* "The reviewer is the only agent on this thread"                         *)
(* (threadManager.ts:15236-15238): no implementor is live beside it.       *)
OneAgent == reviewer = NoRun \/ live = NoRun

(* A running episode has a lane that will settle it; one without would     *)
(* own its task for ever, and refuse each Resume and Auto-review.          *)
NoOrphanEpisode == owner # 0 => Running /\ lane.tok = owner

(* An interrupt discards its review (threadManager.ts:15353-15391): a      *)
(* verdict accepts the task only if each interrupt of its episode failed,  *)
(* and after it none joins the episode, and none that failed is taken up   *)
(* again, unless a resume still carries it.                                *)
SupersededNotAccepted ==
  [][\A i \in Interrupt : accepted' # 0 /\ row'[i].tok = accepted' =>
       \/ row'[i].st \in Dropped
       \/ /\ accepted' = accepted /\ row[i].tok = accepted
          /\ row[i].st \in Dropped => \E r \in Resumer : i \in resume[r].rows]_vars

(* An accepting verdict closes as handled only what the reviewer           *)
(* acknowledged or saw implemented ("a durable reviewer instruction whose  *)
(* acknowledgement fences the verdict", threadManager.ts:13915).           *)
AcceptedWasRead ==
  accepted # 0 =>
    \A i \in Append : row[i].tok = accepted /\ row[i].st = "handled" => row[i].ack \/ row[i].built

(* The "exactly one callback" of a lane's task (threadManager.ts:13335) leaves *)
(* no interrupt queued: each is with a live implementor, with the resume   *)
(* it starts, or failed.  Only a restart drops the callback, and it puts   *)
(* every row in order itself.                                              *)
PromiseKept ==
  [][sched /\ ~sched' => boots' # boots \/ QueuedInterrupts(row') \subseteq UNION {resume'[r].rows : r \in Resumer}]_vars

(* However often it is interrupted, misses or relaunches, a lane ends ...  *)
LaneEnds == Running ~> ~Running

(* ... because each of its steps spends something that nothing gives back, *)
(* neither the lane's own steps nor a command: a fix round; the review     *)
(* before the fix; in a review the recoveries and late passes, in a fix    *)
(* round the instructions that may still be queued for a follow-up run;    *)
(* the way to the end of a turn; the acknowledgements that may be missed.  *)
Unserved == {i \in Instruction : row[i].st \in {"none", "queued"}} \ lane.rows
Way ==
  CASE lane.pc = "fixstart" -> 4
    [] lane.pc = "fix" -> 3
    [] lane.pc \in {"launch", "drainstart"} -> 2
    [] lane.pc \in {"turn", "drain"} -> 1
    [] OTHER -> 0
Left ==
  <<FixRounds - lane.round,
    IF lane.pc = "claim" THEN 2 ELSE IF lane.pc \in FixPlace THEN 0 ELSE 1,
    IF lane.pc \in FixPlace THEN Cardinality(Unserved)
                            ELSE (Recoveries + Passes) - (lane.tries + lane.passes),
    Way,
    Misses - lane.misses>>
Lower(m, n) == \E k \in 1..5 : m[k] < n[k] /\ \A l \in 1..(k - 1) : m[l] = n[l]
LaneDescends ==
  [][Running /\ Running' => UNCHANGED <<lane, Left>> \/ Lower(Left', Left)]_vars

(* A superseded review's instruction reaches a resumed implementor or      *)
(* fails, with no further click, unless the server restarts or no backend  *)
(* may be used (threadManager.ts:13333-13336).                             *)
InterruptGoesOn ==
  \A i \in Interrupt :
    (row[i].st = "queued" /\ (sched \/ i \in stopping) /\ boots = 0)
      ~> \/ row[i].st # "queued" \/ task = "failed" \/ boots > 0
         \/ \E r \in Resumer : i \in resume[r].rows
=============================================================================
