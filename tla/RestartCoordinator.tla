------------------------- MODULE RestartCoordinator -------------------------
(***************************************************************************)
(* server/src/orchestrator/restartCoordinator.ts: a deploy stages a build  *)
(* into `dist` and asks the running server to bounce onto it.  The restart *)
(* is attempted at once; a mechanism that refuses leaves a durable row and *)
(* a retry timer.  selfRestart.ts supplies the attempt, index.ts the boot. *)
(*                                                                         *)
(* Builds are numbered by their dist stamp.  A list of requesters is known *)
(* by its newest build and by how many health recoveries follow it: all    *)
(* that alreadyLive, the recovery filter and the slice to MAX_REQUESTERS   *)
(* look at.  Wall-clock time is reduced to whether the recorded retry is   *)
(* due; labels, commits, createdAt and the failure count (which stretches  *)
(* the delay and words one notice) are left out.                           *)
(***************************************************************************)
EXTENDS Naturals

CONSTANTS MaxBuild,       \* bound: the last build a deploy may stage
          MaxRequesters,  \* MAX_REQUESTERS, 20 in the code
          MaxHealth       \* bound: recoveries one attempt collects behind a build

ASSUME ConstantsOK ==
  /\ MaxBuild \in Nat
  /\ MaxRequesters \in Nat \ {0}
  /\ MaxHealth \in Nat

VARIABLES disk,      \* the newest build staged in dist
          live,      \* the build this process loaded (buildInfo)
          phase,     \* "down", "booting" (constructed, not listening), "serving"
          row,       \* kv restart_coordinator_pending
          retry,     \* is the row's retryAt past?
          attempt,   \* where beginRestart/fire stands
          inFlight,  \* requesters claimed by the attempt
          timer,     \* the retry timer is armed
          marker,    \* kv restart_coordinator_planned_at is set
          accepted   \* history: the newest build whose request was accepted

vars == <<disk, live, phase, row, retry, attempt, inFlight, timer, marker, accepted>>

Stamps     == 0..MaxBuild
NoBuild    == MaxBuild + 1
Requesters == [last : Stamps \cup {NoBuild}, after : 0..MaxRequesters]
None       == [last |-> NoBuild, after |-> 0]

TypeOK ==
  /\ disk \in Stamps /\ live \in Stamps /\ accepted \in Stamps
  /\ live <= disk /\ accepted <= disk
  /\ phase \in {"down", "booting", "serving"}
  /\ row \in Requesters /\ inFlight \in Requesters
  /\ attempt \in {"none", "settling", "calling", "accepted"}
  /\ retry \in {"due", "waiting"}
  /\ timer \in BOOLEAN /\ marker \in BOOLEAN

(* Admission is closed from the decision through the supervisor call. *)
firing == attempt # "none"

\* mutant: readers see the row as it was saved
pending_KeepsRecoveries == row

(* pending(): the durable row as every reader sees it, recoveries dropped. *)
pending == [row EXCEPT !.after = 0]

(* appendRequester slices to the newest MaxRequesters: recoveries arriving
   behind the newest build push it out in the end. *)
appendBuild(r, s) == [last |-> s, after |-> 0]
appendRecovery(r) ==
  IF r.after + 1 < MaxRequesters
  THEN [r EXCEPT !.after = @ + 1]
  ELSE [last |-> NoBuild, after |-> MaxRequesters]

(* A boot found the newest requester's build already loaded; stamp 0 is a
   requester that could not read the stamp of dist. *)
alreadyLive == pending.last > 0 /\ live >= pending.last

-----------------------------------------------------------------------------
(* A first install, or an upgrade onto a row an older build left behind. *)
Init ==
  /\ disk = 0 /\ live = 0 /\ accepted = 0
  /\ phase = "booting"
  /\ row \in {None, [last |-> 0, after |-> 0], [last |-> NoBuild, after |-> 1]}
  /\ retry = "due"
  /\ attempt = "none" /\ inFlight = None
  /\ timer = FALSE /\ marker = FALSE

(* deploy.cjs / applyUpdate: `npm run build` rewrites dist and its stamp. *)
StageBuild ==
  /\ disk < MaxBuild
  /\ disk' = disk + 1
  /\ UNCHANGED <<live, phase, row, retry, attempt, inFlight, timer, marker, accepted>>

(* beginRestart: close admission, claim and clear the row, stamp the marker. *)
beginRestart(carrying) ==
  /\ attempt' = "settling"
  /\ inFlight' = carrying
  /\ row' = None
  /\ timer' = FALSE
  /\ marker' = TRUE

requestBuild(s, staged, riding) ==
  /\ phase = "serving"
  /\ s \in staged
  /\ \/ /\ firing
        /\ inFlight' = riding
        /\ UNCHANGED <<attempt, row, timer, marker>>
     \/ /\ ~firing
        /\ beginRestart(appendBuild(pending, s))
  /\ LET owed == IF s = 0 THEN disk ELSE s
     IN  accepted' = IF owed > accepted THEN owed ELSE accepted
  /\ UNCHANGED <<disk, live, phase, retry>>

\* mutants: a stamp dist does not hold yet; a request during an attempt forgotten
RequestBuild_Unstaged(s) == requestBuild(s, Stamps, appendBuild(inFlight, s))
RequestBuild_NotRiding(s) == requestBuild(s, 0..disk, inFlight)

(* request() for a staged build: rides an attempt in flight, or starts one. *)
RequestBuild(s) == requestBuild(s, 0..disk, appendBuild(inFlight, s))

(* request() for a health recovery while the event loop is not responsive;
   a responsive loop refuses it and changes nothing. *)
RequestRecovery ==
  /\ phase = "serving"
  /\ \/ /\ firing
        /\ inFlight.after < MaxHealth
        /\ inFlight' = appendRecovery(inFlight)
        /\ UNCHANGED <<attempt, row, timer, marker>>
     \/ /\ ~firing
        /\ MaxHealth > 0
        /\ beginRestart(appendRecovery(pending))
  /\ UNCHANGED <<disk, live, phase, retry, accepted>>

(* start(): drop a row another bounce already paid, else arm the retry. *)
Start ==
  /\ phase = "booting"
  /\ phase' = "serving"
  /\ \/ /\ pending = None \/ alreadyLive
        /\ row' = None
        /\ timer' = (timer /\ row = None)
     \/ /\ pending # None /\ ~alreadyLive
        /\ row' = pending
        /\ timer' = TRUE
  /\ UNCHANGED <<disk, live, retry, attempt, inFlight, marker, accepted>>

(* workChanged(): released work re-arms the timer; reading the row tidies it. *)
WorkChanged ==
  /\ phase # "down" /\ ~firing
  /\ row' = pending
  /\ timer' = (pending # None \/ (row = None /\ timer))
  /\ UNCHANGED <<disk, live, phase, retry, attempt, inFlight, marker, accepted>>

\* mutant: a tick before the retry is due does not re-arm
Tick_ForgetsToRearm ==
  /\ timer /\ ~firing /\ pending # None
  /\ \/ /\ retry = "due"
        /\ beginRestart(pending)
     \/ /\ retry = "waiting"
        /\ timer' = FALSE
        /\ UNCHANGED <<row, attempt, inFlight, marker>>
  /\ UNCHANGED <<disk, live, phase, retry, accepted>>

(* tick(): a due retry starts the attempt; one not yet due only re-arms the
   timer, which changes nothing here. *)
Tick ==
  /\ timer /\ ~firing
  /\ pending # None /\ retry = "due"
  /\ beginRestart(pending)
  /\ UNCHANGED <<disk, live, phase, retry, accepted>>

RetryComesDue ==
  /\ retry = "waiting"
  /\ retry' = "due"
  /\ UNCHANGED <<disk, live, phase, row, attempt, inFlight, timer, marker, accepted>>

(* The settle delay ends and fire() calls the restart mechanism. *)
Settle ==
  /\ attempt = "settling"
  /\ attempt' = "calling"
  /\ UNCHANGED <<disk, live, phase, row, retry, inFlight, timer, marker, accepted>>

(* restartSelf() answers ok and returns; the latch stays closed. *)
Accepted ==
  /\ attempt = "calling"
  /\ attempt' = "accepted"
  /\ UNCHANGED <<disk, live, phase, row, retry, inFlight, timer, marker, accepted>>

refused(saved, armed, planned) ==
  /\ attempt = "calling"
  /\ attempt' = "none"
  /\ row' = saved
  /\ timer' = armed
  /\ retry' = "waiting"
  /\ inFlight' = None
  /\ marker' = planned
  /\ UNCHANGED <<disk, live, phase, accepted>>

\* mutants: inFlight cleared before it is saved; no arm(); marker left set
Refused_ClearsFirst  == refused(None, FALSE, FALSE)
Refused_NeverArms    == refused([inFlight EXCEPT !.after = 0], FALSE, FALSE)
Refused_KeepsMarker  == refused([inFlight EXCEPT !.after = 0], inFlight.last # NoBuild, TRUE)

(* fire() after a refusal: save the row, clear the marker, reopen admission,
   and arm(), whose read of the row drops the recoveries just saved. *)
Refused == refused([inFlight EXCEPT !.after = 0], inFlight.last # NoBuild, FALSE)

(* The process dies and loses everything but the kv table and dist. *)
Die ==
  /\ phase' = "down"
  /\ attempt' = "none" /\ inFlight' = None /\ timer' = FALSE
  /\ UNCHANGED <<disk, live, row, retry, marker, accepted>>

Bounce == attempt \in {"calling", "accepted"} /\ Die
Crash  == phase # "down" /\ Die

(* The supervisor or hub respawns the server on whatever dist now holds;
   markInterrupted consumes the planned-restart marker. *)
Boot ==
  /\ phase = "down"
  /\ phase' = "booting"
  /\ live' = disk
  /\ marker' = FALSE
  /\ UNCHANGED <<disk, row, retry, attempt, inFlight, timer, accepted>>

Next ==
  \/ StageBuild
  \/ \E s \in Stamps : RequestBuild(s)
  \/ RequestRecovery
  \/ Start \/ WorkChanged \/ Tick \/ RetryComesDue
  \/ Settle \/ Accepted \/ Refused
  \/ Bounce \/ Crash \/ Boot

Spec == Init /\ [][Next]_vars

(* Timers fire and the supervisor respawns what died.  That the restart
   mechanism does not refuse or ignore every attempt for ever is assumed of
   the hub and the supervisor: nothing here ends a call that never answers,
   or an accepted attempt whose process is never killed. *)
Fairness ==
  /\ WF_vars(Start) /\ WF_vars(Tick) /\ WF_vars(RetryComesDue)
  /\ WF_vars(Settle) /\ WF_vars(Boot)
  /\ SF_vars(Bounce)

FairSpec == Spec /\ Fairness
-----------------------------------------------------------------------------
(* This server, or its kv table, still promises a bounce onto a build. *)
held == inFlight.last # NoBuild \/ row.last # NoBuild

(* "A refused supervisor/hub call keeps the staged builds durable and retries
   later; none is lost": while a process runs that has not loaded the newest
   build it accepted, an attempt or a durable row still carries a build. *)
OwedBuildHeld == phase # "down" /\ accepted > live => held

(* A row never waits on a timer nobody armed: every exit of start, tick, fire
   and workChanged that leaves a row leaves its retry scheduled. *)
NoOrphanedRow == phase = "serving" /\ row # None => timer

(* The row and the attempt that claimed it never coexist, so one bounce pays
   each request once; and the planned-restart marker stands exactly while this
   process is committed to a bounce, so a crash after a refusal is not taken
   for deploy traffic by the next boot. *)
OneClaim ==
  /\ firing => row = None /\ ~timer
  /\ ~firing => inFlight = None
  /\ phase # "down" => (marker <=> firing)

(* A health recovery is answered now or not at all: whatever order requests,
   refusals and restarts come in, no retry is started for recoveries alone. *)
RecoveryNeverRetried ==
  [][Tick => inFlight'.last # NoBuild /\ inFlight'.after = 0]_vars

(* Every accepted build is eventually the one loaded, through refusals,
   backoffs, crashes and the requests that arrive meanwhile. *)
AcceptedBuildLands == \A b \in Stamps : (accepted >= b) ~> (live >= b)

Promise == INSTANCE StagedBuild WITH up <- phase # "down"

(* The coordinator implements its promise: through claims, refusals, retries
   and boots, only loading every accepted build discharges it. *)
ImplementsPromise == Promise!Spec
=============================================================================
