# Garden Gnome Orchestrator: TLA+ models and proofs

The orchestrator (`server/`, TypeScript, one Node process) takes coding tasks from
an owner, runs them through AI agents (planner, researcher, implementor, QA,
reviewer) in git workspaces, and survives deploys of itself: agents running under
the server rebuild the server and ask it to bounce onto the new build.  This
directory models the parts where awaits, timers, crashes and several actors meet.

Paths below are relative to the repository root; `threadManager.ts` and
`restartCoordinator.ts` are in `server/src/orchestrator/`.

## 1. Inventory

| Component | State it keeps | Operations | What is hard | What makes it correct |
|---|---|---|---|---|
| Restart coordinator (`restartCoordinator.ts`, `selfRestart.ts`, `index.ts`) | kv row of requesters, retry timer, `firing` latch, in-flight requesters, planned-restart marker | `start`, `request`, `workChanged`, `tick`, `fire`, `consumePlannedRestart` | refusals, retries, a crash in the settle window, requests during an attempt | an accepted build is never forgotten; a refusal reopens admission; recoveries are not retried |
| Task slots and queue (`threadManager.ts`) | `Thread.state` rows, `activePipelines` with tokens, `dispatchQueue`, `live`, `resuming`, auto-resume promises | dispatch, pump, start now, pause, resume, cancel, retry, close, done, boot recovery | every handler awaits; stale finalizers; caps by-passed on purpose; restart in the middle | no leaked slot, no stranded queued row, caps, exclusion with Co-work, drain admits nothing |
| Pipeline stages and QA loop (`threadManager.ts`) | stage outputs, `liveRole`, `liveQa`, QA rounds | `runPipeline`, `runImplementorQa`, `qaLoop` | resume mid-stage, fix hand-off | stages are not repeated, QA passes only what it saw |
| Auto-review, review injections (`reviewInjections.ts`, `threadManager.ts`) | durable episodes with a claim token, injection rows, live reviewer and implementor | claim, review, recover, fix round, verdict, append, interrupt, resume, Mark done, Cancel, boot | an instruction at any await of the lane; a verdict already on its way; failovers; restarts | no verdict settles over an unread or superseding instruction; one agent; each episode is settled |
| Injection routing and receipts (`injection.ts`, `injectionReceipts.ts`, `agents/inputLedger.ts`) | held notes, receipts pending/sent/delivered/read/failed, watches | expect, observe, bind, deliver, ack, settle, recover | callbacks after a run ended, restart, resend | status only rises on proof, nothing is lost on restart |
| Token safety, timed tasks, deadlines | parks, blocking windows, active deadlines | arm, park, release, expire | timers racing completion | a park is released; a deadline fires once |
| Accounts and capacity (`accounts/`, `capacityRouting.ts`) | cap latches, cooldowns, current account | select, mark capped, release, rotate | stale usage against a fresh refusal | no capped account is picked; a latch ends |
| Goals, scheduler, cron | goal cycles, due schedules | tick, dispatch, complete | a missed or a doubled tick | one task per cycle or occurrence |
| Co-work (`cowork.ts`) | sessions, turns, workspace claims | send, cancel, finish | claims against pipelines | one writer per workspace |
| Sub-tasks, shotgun | parent and child rows | delegate, collect | a parent waiting on a cancelled child | a parent always wakes |
| Git transactions (`server/scripts/git-transaction.cjs`) | SQLite ticket rows, lease files, guard database, `index.lock` | register, look, probe, reap, acquire, release | processes die at any line; busy databases; older programs | one writer, in ticket order; no live ticket is reaped; nobody waits for a dead one |
| Worktrees | worktree rows | place, merge, remove | one step of several failing | no work is lost |
| Agent runners | child processes, input queues | send, interrupt, stop | output after the end | one result per turn |
| Memory worker, module workers | request tables, backoff | call, restart | answer after a timeout | each call is answered once |
| Calendar reminders, free-provider ledger | fired keys, reservations | expand, fire, reserve, settle | day boundaries | a reminder fires once; a reservation is settled once |
| Relay, online office, remote control | members, mailboxes | join, post, deliver | reconnect | no duplicate delivery |
| Database, hub, web, desktop | rows; views | read, write, publish | - | plain I/O, not modelled |

Interactions.  `deploy.cjs` or the in-app update rewrites `dist` and calls
`request`; the coordinator closes admission (`isDraining`), which `threadManager`
reads in `enqueueOrRun`, `startImmediately`, `pumpQueueOnce` and `resumeThread`;
a refusal calls back `restartDrainReleased`, which pumps the queue and fires held
auto-resumes.  After a death the supervisor or the script-hub starts the process
again; `markInterrupted` rewrites the rows in flight and arms the timers that
re-queue and resume them.  Co-work turns and pipelines exclude each other per
workspace: `cowork.ts` asks `coworkTaskConflict`, `threadManager` asks
`coworkWorkspaceBusy`, and the end of a turn calls `coworkReleasedWorkspace`.

`PROJECT.json` lists every component with its status, and every hazard at its
line with the properties that would notice it going wrong.

## 2. Modules

### RestartCoordinator, StagedBuild

`RestartCoordinator.tla` has one action per handler.  Builds are numbered by their
stamp.  A requester list is the record `[last, after]`: its newest build and how
many health recoveries follow it, which is all that `alreadyLive`, the recovery
filter of `pending()` and the slice of `appendRequester` look at.

| Model | Code |
|---|---|
| `row`, `retry` | kv `restart_coordinator_pending` and whether its `retryAt` is past |
| `attempt` | none; `settling` (beginRestart to the end of the settle delay); `calling` (`restart()` awaited); `accepted` (fire returned at line 421) |
| `inFlight`, `timer`, `marker` | `inFlight`, `timer`, kv `restart_coordinator_planned_at` |
| `disk`, `live`, `accepted` | stamp in `dist`; stamp loaded (`buildInfo`); history of what requesters were told |
| `Start` `RequestBuild` `RequestRecovery` `WorkChanged` `Tick` | the methods of those names |
| `Settle` `Accepted` `Refused` | the two halves of `fire` |
| `Bounce` `Crash` `Boot` | `restartSelf`, any death, the respawn |

`StagedBuild.tla` is the promise of the file's header comment: once a build is
accepted, a running server gives the promise up only after loading it.
`Promise == INSTANCE StagedBuild WITH up <- phase # "down"` uses
`held == inFlight.last # NoBuild \/ row.last # NoBuild` as its refinement mapping.

### TaskSlots

One action is the code between two awaits.  Each task has up to `MaxGen` run
records; a record says at which await the promise stands (`prep`, `plan`,
`select`, `start`, `work`, and `unwind`/`throw` for the finalizer's `stopLive`),
how it was admitted, and whether its agent turn is busy, idle (paused) or none.
`slot[t]` is the record whose token is in `activePipelineToken`.

| Model | Code |
|---|---|
| `Move`, `Publish` | `publishState` with `SLOT_FREE_STATES`, `releasePipelineSlot`, `recoverReleasedCapacity` |
| `Start`, `Leave` | `reservePipelineSlot` and the release it returns |
| `enqueueOrRun`, `PumpStep` | `enqueueOrRun`, one iteration of `pumpQueueOnce` |
| `PrepDone` ... `Unwound` | the continuations of `runPipeline`, `runImplementorQa`, `runImplementorOnlyResume` |
| `Ask` and `Dispatched`, `TornDown`, `Retried`, `Paused`, `Resume*` | the first and the second half of an owner command |
| `FireWake`, `RequeueAfterBoot`, `Restart` | `fireRestartResume`, the re-queue timer, `markInterrupted` with `reviveStrandedAutoResumes` |
| `CoworkBegin`, `CoworkEnd`, `DrainBegins`, `DrainReleased` | the other components' calls |

A pump pass is a scan over the queue that no other handler interrupts
(`scan = 0` guards every other action), as the code's synchronous loop is.

Abstractions.  `planning` stands for researching and awaiting_approval too, and
`implementing` for qa; the QA gate that makes a Resume a no-op during qa is
therefore not there, and Resume is freer in the model than in the code.  A failed
row that carries `RESTART_AUTO_RESUME_MSG` is the state `interrupted`.  One
asynchronous owner call per task is pending at a time, except for `Cancel` without
an agent and `StartImmediately`, which never await.  A teardown goes on when every
agent of the task is down; the code waits only for those it found when it began
(`threadManager.ts:15861`).  Whether a restart gives a promise up for its age is
nondeterministic.  Left out: token safety, deadlines, sub-tasks, the read lane,
the approval and Proceed gates, auto-review, the self-improvement round, and the boot that finds the process in a crash loop and re-queues nothing
(`threadManager.ts:2597`).

`MCTaskSlots.tla` gives the instances: one or two tasks of one repository.

### InjectionReceipts, ReceiptLife

`InjectionReceipts.tla` is the tracker of read receipts (`injectionReceipts.ts`) with
the runs' input ledgers and the life of the runs it hangs its callbacks on.

| Model | Code |
|---|---|
| `status` | `injection_receipts.status`, `none` before the row exists |
| `input`, `sent` | `SentInput` records by number; the token `IR-uuid` is that number |
| `consumed`, `watch` | `InputLedger.consumed` and `waiters` of all runs |
| `bound`, `asked`, `recent` | `this.bound`, `this.awaitingAck`, `this.recent` |
| `runs` | a run is wired, asked to stop, ended |
| `dead` | injections whose `AsyncLocalStorage` context a restart ended |
| `Send` | `prepare`, `run.send` (or start) and `observe`, which have no await between them |
| `Consume`, `Ack`, `RunEnds` | the callbacks on `onInputConsumed`, `onEvent`, `onEnd` |
| `Expect` | `expect` with `bindRecent`, and `refuse` |
| `SettleLane`, `Restart` | `settleLane` from `publishState`; process death and `recoverAfterRestart` |

Two injections with the same `Words` are the same text sent twice, which is the case
the tracker's rules exist for.  A send may be refused by a stopping run, may carry
any set of texts (a hand-off that folds several notes), may belong to an injection
under way or to none, and may be a plain kickoff without token.  Which states settle
a lane is nondeterministic.  One task; the trim of `recent` to eight is left out
(`MaxInputs` is smaller).

`ReceiptLife.tla` is the promise of the file's header comment: a receipt climbs one
earned step at a time, and only an untaken hand-over falls back.  The refinement
maps `taken` to the receipts some consumed input carried.

`MCInjectionReceipts.tla` gives the instance.

### GitTransactions, FairLine

`GitTransactions.tla` is the queue through which every Git writer of a repository
goes, whatever process it is in.  A caller is a process inside one call; it may die
at every line, which frees its locks and leaves its row and its lease file.

| Model | Code |
|---|---|
| `row`, `nextId`, `file`, `lease` | ticket rows and AUTOINCREMENT in SQLite, lease files on disk, who has locked a lease |
| `guard`, `index` | who has locked `ggo-git-transactions.sqlite`; a foreign `index.lock` |
| `pc`, `tok`, `seen` | the call a client stands at, its ticket, the head it read last |
| `Start` `Insert` `InsertBusy` | `registerTicket`, `retryBusy` |
| `Look` `Probe` `Rollback` `Reap` `Unlink` | `firstInLine`, `ticketIsAlive` |
| `Poll` `PollBusy` `TakeGuard` `TimeOut` | the loop of `acquire` |
| `Begin` `IndexTimeOut` `End` | the transaction and `waitForIndex` |
| `CloseRow` `CloseBusy` `CloseLease` `CloseFile` | the steps of `close` |
| `Crash` | death of a process |
| `OldTakes` `OldEnds` `NativeTakes` `NativeEnds` | programs outside the queue (external) |

`FairLine.tla` is what the queue promises: callers join a line, own the repository one
at a time, and nobody overtakes who joined before.  `QueueIsFair` is the refinement.
Left out: `git-recover-index.ps1`, nested transactions over different stores, and
which Git commands count as writes.

### ReviewInjections

`ReviewInjections.tla` is the auto-review lane of one task, with the owner's
instructions to it.  A step is the code between two awaits; a command may land
between any two steps.

| Model | Code |
|---|---|
| `task`, `owner`, `claims`, `accepted` | `threads.state`; token of the running row in `auto_review_episodes`; tokens given out; token of the accepted episode |
| `row` | `review_injections`: status, episode token, run of the last delivery, acknowledged, implemented |
| `lane` | where `runAutoReview` stands, with the counters of its loops |
| `reviewer`, `live` | `liveReviewer`, `live` |
| `resume` | where each call of `runImplementorOnlyResume` stands and the rows it took |
| `resuming`, `slot` | the coalescing flag and the task's entry in `activePipelines`, by the resume they are set for |
| `sched`, `stopping`, `settling` | pending `scheduleReviewerInterruptResume`, `reviewer.stop()`, `forceStopThreadRuns` of Mark done or Cancel |
| `Claim` `Kick` | `claimAutoReview`, the second half of `autoReview` |
| `ReviewerStarts` `Answers` `Breaks` | `runRole`, `awaitStructuredReviewResult`, `carryReviewInjectionsPastStop` |
| `Recover` `ReadLate` `DropVerdict` | `reviewToVerdict`, `drainLateReviewerInjections`, `parkSupersededAutoReview` |
| `StartFix` ... `FixStops`, `FixRelaunches` | `runReviewFixRound`, `drainQueuedFollowUps`, `awaitImplementorCompletion` |
| `Finalize` | `finalizeReview` |
| `AppendTo` `Supersede` `Stopped` `TooLate` `Resume` | `injectThread`, `routeReviewRecipientRace`, `resumeThread` |
| `Settle` `Settled` | `markDone`, `cancelThread` |
| `Unwind` `Resume*` | `scheduleReviewerInterruptResume`, `runImplementorOnlyResume` |
| `Boot` | `markInterrupted`, `reconcileReviewInjectionsAfterRestart` |

Abstractions.  Run ids are used again once nothing names them, and a row names a run
only while it is delivered.  Cancelled is terminal and a failed task leaves the model:
both come back through a Retry or a pipeline (`TaskSlots`).  The lane's own stop of a
reviewer and an interrupt's are the same child's end, so the lane decides only when
the interrupt's handler has gone on (`AtGap`).  A failover is modelled in the first
run of a fix round, not in one that drains queued work.

A claim awaits the teardown of the implementor an older resume left live (`Claim`, then
`Kick`), and commands land in that await; with no such run the teardown finds nothing to
stop and the two steps have no command between them (`Quiet`).  The teardown takes away
the handle and the flag of a resume but does not end its call, and neither does the
bounded wait of Mark done and Cancel, so a resume may go on beside the lane.  `Resumer`
bounds how many there are; `MaxClicks` bounds the clicks on Auto-review, Mark done and
Cancel.

Left out: the QA half of the store, a Resume with a message (it is an append), the Queue
button, Close, manual supervision and the supervisor's budget, deadline parks, the manual
deployment boundary, the restart drain, and the await at `threadManager.ts:15211` (a
worktree that is missing is made again) between the check and the claim of `autoReview`, which the model
makes in one step.

## 3. Runs

| Run | Configuration | Result |
|---|---|---|
| `restart` | `FairSpec`, 3 builds, `MaxRequesters` 3, `MaxHealth` 2; 2,085 states | all properties hold |
| `restart_flood` | `MaxRequesters` 2, `MaxHealth` 2 | `OwedBuildHeld` violated: recoveries evict the build |
| `slots` | 2 tasks, 1 repository, global cap 2, repository cap 1, 3 run records, 2 commands, 1 bounce; 1.16 M states | all properties hold |
| `slots_live` | `FairSpec`, 2 tasks of 2 repositories, global cap 1, no repository cap, 2 run records, 1 command, 1 bounce; 109 k states | all properties hold |
| `slots_pause` | 1 task | `ResumeCounts` violated |
| `slots_cancel` | 1 task | `CancelIsTerminal` violated |
| `slots_agents` | 1 task | `OneAgentPerTask` violated |
| `receipts` | one text injected twice to one lane, 2 runs (symmetric), 2 inputs; 591 k states | all properties hold |
| `git_queue` | `FairSpec`, 2 callers, 1 older program, 3 tickets, 1 busy answer, 1 foreign `index.lock`; 247 k states | all properties hold |
| `review` | `FairSpec`, 1 append, 1 interrupt, 2 clicks, 2 resumes at a time, 1 restart or failover, 1 fix round, 1 recovery, 1 missed acknowledgement, 1 late pass; 471 k states | all properties hold |
| `review_append` | the same instance | `AcceptedWasRead` violated |
| `review_agents` | the same instance | `OneAgent` violated: an interrupt sent into the claim's teardown starts an implementor beside the reviewer |

The six violations are disagreements between the code and its own comments,
quoted in `PROJECT.json` under `findings`.

`review_agents` is the reason why everything else about the review lane is stated and
proved with a resume beside it.  Two properties are therefore weaker than one might want.
`DeliveredIsLive` speaks of the running episode: when a resume beside the lane parks the
task, `setState` gives the episode up, and an append already delivered to the reviewer
keeps that status after its turn.  `SupersededNotAccepted` is an action property: that an
accepted episode never holds an open interrupt is false, because such a resume may carry
an interrupt whose `stop()` threw and deliver it after the verdict (two interrupts and no
append show it), so the property allows that by name and nothing else.

Bounds and why they suffice.  In `restart` three builds let one be loaded, one be
in flight and one be staged behind it; two recoveries behind a build are one fewer
than `MaxRequesters`, the largest number that evicts nothing.  In `slots` the
second task is what a wrongly freed or kept slot is visible to; two commands are
the shortest sequences the hazards need (Cancel and Retry, Pause and Resume, a
Resume and a Co-work turn); three run records allow a stale run, its successor
and a resume at once; when all are taken a start is disabled, which cuts off
longer pile-ups and nothing else.  One bounce is one drain or one restart; that the
boot's recovery is itself interrupted by another restart is beyond the bound.
In `slots_live` the two tasks are of different repositories, so a Co-work turn in one
leaves the other task free to be served: that is where `ServedInTurn` has a choice.
In `receipts` two inputs are one resend, or one
input of each of two runs or injections; a third repeats one of those cases.  Two
lanes differ only in which runs an injection may use and what settles it, and the theorems
hold for every assignment of roles.
In `git_queue` two callers with
three tickets let one caller come back behind the other, past a ticket somebody died
with; three callers (1.58 M states) hold as well and take too long for a routine run.
In `review` the code's limits are 4 late passes, 2 misses, 2 recoveries and 0 to 3 fix
rounds; one of each reaches both sides of every limit, and the counters are what the
proofs leave open.  Two clicks are two claims, which let an instruction outlive its episode and
meet the next one, also across a restart, or a claim and a Mark done or Cancel; two
resumes are one beside the lane and one the lane's callback wants to begin; one append and one interrupt race each other
and everything else.
Deadlock is not checked for `TaskSlots`, `InjectionReceipts`, `GitTransactions` and
`ReviewInjections`, because a system without commands or inputs left really is idle.

Fairness.  `RestartCoordinator`: timers fire (`Start`, `Tick`, `RetryComesDue`,
`Settle`), the supervisor respawns (`Boot`), and the mechanism does not refuse or
ignore every attempt for ever (strong fairness of `Bounce`); without it a server
nobody can restart owes its build for ever, as the code admits by retrying without
limit.
That assumption is used for `AcceptedBuildLands` only.  It must not be used to claim that
admission reopens: the hub's fetch has no timeout (`selfRestart.ts:66`), and a hub that
answers ok and kills nothing leaves `firing` latched (`restartCoordinator.ts:421`), so
admission may stay closed for good and no property promises otherwise.

`TaskSlots`: awaited calls return, timers fire, a Co-work turn ends, a drain
is released.  A turn the owner paused does not return by itself and the owner is
never obliged to act, so `WorkDone` is disabled for an idle turn and no command has
fairness.  `GitTransactions`: a caller that lives goes on (`Progress`), a wait for
`index.lock` ends at its deadline, and an older program gives the guard back; no
waiter's own deadline has to pass and no crash has to happen.  `ReviewInjections`: the
lane goes on (`WF_lane(LaneStep)`, which the lane's own step satisfies whatever resumes do
beside it: an agent's turn ends with a result or with its process, which
the runners' own timeouts see to) and a `stop()` returns; no command, resume, failover
or end of a handle is owed.  `InjectionReceipts` assumes none: whether a model ever takes or
answers an input is outside the code, so nothing is promised in the end.

## 4. Proofs

Checked by TLAPS for every value of the constants (subject to `ConstantsOK`).

*Coordinator* (`RestartCoordinatorProofs`).  `TypeCorrect` comes first.
`ClaimExclusive` and `RowAlwaysArmed` go through one inductive invariant: a
firing attempt owns the requesters and the row is empty; otherwise nothing is in
flight and a row of a serving process has its timer armed.  `RecoveriesDropped`
follows from `pending` dropping what follows the build.  `StagedBuildKept` needs
`FewRecoveries` (`MaxHealth < MaxRequesters`): it is the counterpart of
`restart_flood`, so the assumption is exactly what the code lacks.  `PromiseKept` is
the refinement: each action is a step of `StagedBuild` or a stutter.

*Task slots.*  `TaskSlotsProofs` proves types, including that no task is twice in
the queue.  `TaskSlotsSafety` rests on one classification (`NextSlots`): every step
either leaves slots and runs alone or only gives slots back (Quiet), admits one
run through the queue with room under both caps and no drain or Co-work turn
(Admits), or starts a run by an override (Overrides).  Slot leaks, Co-work
exclusion, the drain property, the release property and the caps each follow from
that three-way split; `NoSlotLeaks` strengthens the cap theorem, because a slot
counts as admitted by the run that owns it.  `TaskSlotsResume` shows that the
`resuming` flag implies a resume run on its way; the strengthening is that a run
that leaves `select`/`start` clears the flag in the same step.  The same module
says how far two of the violations reach.  `ImplementorIsAlone`: two implementors of a task
never work at once, because an agent that is no planner is the registered session
(`SessionsLive`) and a new one displaces it, so the second agent of `slots_agents` is a
planner.  `CancelWindows`: a cancelled task goes back to work only in a run at its workspace
preparation (`slots_cancel`) or in a Resume asked for before; after every other await the
code looks again before it starts an agent.

`TaskSlotsQueue` proves `QueuedIsOwned`.  A run that returns frees its slot without reading the row, and
Retry and dispatch write `queued` after an await without reading the slot, so the
invariant `Row` adds why neither strands a task: the run of a queued task is not a
Resume and never past its end, a cancelled task and one waiting for Retry or dispatch
hold no slot, and a pending Resume is never of an undispatched task.
The same module proves `NoWakeupLost` and `LineInTurn`, the safety side of
`QueuedStarts`.  Both come from `LineHeldUp`: between passes every waiting task is held
up by the drain, a cap or a Co-work turn, and within a pass every task already gone by is
held up by its own repository.  Its proof splits the steps into those that end a hold,
each of which asks for a pass (`Woken`), and those that only add slots, turns or a drain,
under which what is full stays full (`StillFull`); that is where a release without a
pump would show.

*Receipts* (`InjectionReceiptsProofs`).  One inductive invariant, `HoldInv`, carries
all six theorems.  Beside `TypeOK` and `ProofNotLost` it says: a run holds only
receipts of its lane that it may still take, and it still runs (`BoundOK`); what is
sent is held (`SentBound`); a watch belongs to a holder and to an input that
carried the receipt (`WatchOK`); only proven deliveries await an ACK (`AskedOK`);
an input names only receipts that exist (`IdsOK`) and was made by a run that had
started (`SentStarted`); and an unconsumed input of a live run is still watched for
every receipt it could prove (`StillWatched`), which is what makes `ProofNotLost`
inductive.  There is one lemma per action.  `Answered` takes its token from
`AskedOK`, `PromiseKept` takes the consumed input from `WatchOK` and the status it
starts from out of `BoundOK` (a watched receipt is sent, never pending).

*Git transactions* (`GitTransactionsProofs`).  One inductive invariant, `QueueInv`, ties
rows, files and locks to the line each caller stands at.  From it follow
`RowsHaveLeases`, `LiveTicketsAreKept` (no probe of another caller can win a live
lease), `AdmittedIsHead`, `OneWriter`, and the refinement `QueueImplementsLine`.

*Review lane* (`ReviewInjectionsProofs`).  All seven theorems hold with any number of
resumes beside the lane and need no assumption but `ConstantsOK`.  `TypeInv` is types with
one fact they need to be inductive: a lane in a fix round has not spent them all
(`RoundOK`).  That some run id is always free is a counting argument over the ids in use
(`FreshIsARun`), which is why `ConstantsOK` asks for four more runs than instructions.  The
steps fall into three shapes (`LaneShapes`): the lane stays out of the way, goes on, or
ends and gives the episode up; `EpisodeHasLane` is one line per shape.

`DeliveryHasARun` strengthens to `ReadingOK` with `TokensOK`.  A reviewer is live only in a
turn; what claims it in the running episode is in that turn, under its run and not yet
acknowledged; and no claim under no episode is left while none runs, so a park beside the
lane revives none.  `TokensOK` (no row names a token that was not given out yet) is why a
new claim finds no row that already claims its episode.

`InterruptFencesVerdict` needs no invariant of the resumes.  An acceptance comes from
`Finalize` past the fence of its callers (`AcceptsPastFence`), which leaves no interrupt of the
episode open; and a running lane has no accepted episode (`LaneOK`), so whatever joins an
episode later joins another one.

Three theorems are the safety side of `LaneEnds` and `InterruptGoesOn`.
`PromiseNotOrphaned` (an interrupt waits only for a lane's task that is there) strengthens
to `PromiseOK`: a stop is awaited only within the stopped turn or the gap behind it, and
only a turn has a reviewer.
`InterruptHandedOn` rests on `FlagOK`: the teardown of a claim clears the `resuming` flag
and no resume sets it while the lane has a task, and the end of a lane frees the slot
whoever took it.  The callback is therefore never turned away by the guard on the flag or
on `activePipelines`, which returns without a word, although resumes may be under way.
`LaneSpends` gives the measure under which a lane ends: `Left`, compared
lexicographically, holds the fix rounds left, whether the review before the fix is still
due, the recoveries and late passes of a review or the instructions a fix round may still
be handed, the way to the end of the turn, and the misses left.  Every step of the lane
lowers it or leaves the lane where it stands, no command and no failover raises it, and
each component is a natural number (`LeftIsNatural`), so only fairness is missing for
`LaneEnds`.

Every invariant the passing runs check is proved, the flood-free `StagedBuildKept` under
the assumption named above, and so is every action property and every refinement.  Only
model-checked is what needs fairness (`AcceptedBuildLands`, `QueuedStarts`,
`AutoResumeDelivered`, `QueueDrains`, `LaneEnds`, `InterruptGoesOn`), which is out of the
prover's reach.

## 5. Plan

Next, in order of importance:

1. Compose `RestartCoordinator` and `TaskSlots` (the drain as the coordinator's
   `firing`).
2. The QA loop with its injected fixes, which is the other lane of the injection store.
3. Input ledger and held injections, composed with `InjectionReceipts`.
4. Token safety and timed deadlines beside `TaskSlots`.
5. Account capacity latches and cap-park wake-ups.
6. Worktrees; Co-work turn life cycle; sub-tasks.
7. Goals and scheduler, cron matching against a reference definition.
8. Free-provider ledger, module supervisor, calendar reminders, relay core.

Abstract specifications worth stating: a bounded pool (slots) and an at-least-once
mailbox (instructions to a task).

Not modelled: what the inventory names and section 2 does not, above all the web
client, the desktop shell, agent prompts and provider adapters (most of the lines of
the repository), which are views, text and I/O of processes outside it.
