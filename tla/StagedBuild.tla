---------------------------- MODULE StagedBuild ----------------------------
(***************************************************************************)
(* What the restart coordinator promises, without attempts, rows or timers *)
(* (restartCoordinator.ts:6-18, 412): once a staged build is accepted, a   *)
(* running server gives the promise up only after loading it.  A dying     *)
(* process may forget it, because every boot loads the newest dist.        *)
(***************************************************************************)
EXTENDS Naturals

CONSTANT MaxBuild

VARIABLES disk,      \* newest staged build
          live,      \* build the process runs
          up,        \* a process exists
          held,      \* a bounce is promised
          accepted   \* newest build a requester was told is on its way

vars == <<disk, live, up, held, accepted>>

Init ==
  /\ disk = 0 /\ live = 0 /\ accepted = 0
  /\ up = TRUE
  /\ held \in BOOLEAN

Stage ==
  /\ disk < MaxBuild
  /\ disk' = disk + 1
  /\ UNCHANGED <<live, up, held, accepted>>

Accept ==
  /\ up
  /\ accepted' \in accepted..disk
  /\ held' = TRUE
  /\ UNCHANGED <<disk, live, up>>

(* The promise is dropped once it is kept: nothing accepted is unloaded. *)
Discharge ==
  /\ up /\ held
  /\ accepted <= live
  /\ held' = FALSE
  /\ UNCHANGED <<disk, live, up, accepted>>

Die ==
  /\ up
  /\ up' = FALSE
  /\ held' \in BOOLEAN
  /\ UNCHANGED <<disk, live, accepted>>

Boot ==
  /\ ~up
  /\ up' = TRUE
  /\ live' = disk
  /\ UNCHANGED <<disk, held, accepted>>

Next == Stage \/ Accept \/ Discharge \/ Die \/ Boot

Spec == Init /\ [][Next]_vars
=============================================================================
