---------------------- MODULE RestartCoordinatorProofs ----------------------
(* Theorems about the restart coordinator for any number of builds.  Those on
   staged builds need fewer recoveries per attempt than a list may hold. *)
EXTENDS RestartCoordinator, TLAPS

FewRecoveries == MaxHealth < MaxRequesters

(* An attempt belongs to a living process. *)
DeadIsIdle == phase = "down" => attempt = "none" /\ ~timer

(* Before the server listens it has loaded every build it ever accepted. *)
BootedCurrent == phase = "booting" => accepted <= live

ClaimInv == TypeOK /\ DeadIsIdle /\ OneClaim
DebtInv  == ClaimInv /\ BootedCurrent /\ OwedBuildHeld

(* Every list the coordinator builds stays within its type. *)
LEMMA ListsTyped ==
  ASSUME NEW r \in Requesters, NEW s \in Stamps
  PROVE  /\ appendBuild(r, s) \in Requesters
         /\ appendRecovery(r) \in Requesters
         /\ [r EXCEPT !.after = 0] \in Requesters
         /\ None \in Requesters
  BY ConstantsOK DEF appendBuild, appendRecovery, Requesters, None, NoBuild, Stamps

(* A list filtered of its recoveries is empty exactly when it held no build. *)
LEMMA EmptyList ==
  ASSUME NEW r \in Requesters
  PROVE  [r EXCEPT !.after = 0] = None <=> r.last = NoBuild
  BY DEF Requesters, None

(* beginRestart leaves a typed, claimed attempt behind. *)
LEMMA BeginRestart ==
  ASSUME ClaimInv, NEW r \in Requesters, beginRestart(r), phase # "down",
         UNCHANGED <<disk, live, phase, retry>>, accepted' \in Stamps,
         accepted' <= disk
  PROVE  ClaimInv'
<1>1. None \in Requesters
  BY ListsTyped DEF ClaimInv, TypeOK
<1>2. TypeOK'
  BY <1>1 DEF beginRestart, ClaimInv, TypeOK, Stamps
<1>3. OneClaim'
  <2>1. attempt' = "settling" /\ row' = None /\ timer' = FALSE /\ marker' = TRUE
    BY DEF beginRestart
  <2> QED BY <2>1 DEF OneClaim, firing
<1> QED BY <1>2, <1>3 DEF ClaimInv, DeadIsIdle

(* Every step keeps the claim invariant. *)
THEOREM ClaimInductive == ClaimInv /\ [Next]_vars => ClaimInv'
<1> SUFFICES ASSUME ClaimInv, [Next]_vars PROVE ClaimInv'
  OBVIOUS
<1>0. TypeOK /\ DeadIsIdle /\ OneClaim /\ MaxBuild \in Nat /\ accepted \in Stamps
  BY ConstantsOK DEF ClaimInv, TypeOK
<1>n. None \in Requesters /\ pending \in Requesters /\ [inFlight EXCEPT !.after = 0] \in Requesters
  BY <1>0, ListsTyped DEF TypeOK, pending
<1>1. CASE StageBuild
  BY <1>0, <1>1 DEF StageBuild, TypeOK, Stamps, ClaimInv, DeadIsIdle, OneClaim, firing
<1>2. ASSUME NEW s \in Stamps, RequestBuild(s) PROVE ClaimInv'
  <2>1. /\ appendBuild(inFlight, s) \in Requesters
        /\ appendBuild(pending, s) \in Requesters
    BY <1>0, <1>n, ListsTyped DEF TypeOK
  <2>2. accepted' \in Stamps /\ accepted' <= disk
    BY <1>0, <1>2 DEF RequestBuild, requestBuild, TypeOK, Stamps
  <2>3. CASE firing
    <3>1. TypeOK'
      BY <1>0, <1>2, <2>1, <2>2, <2>3 DEF RequestBuild, requestBuild, TypeOK
    <3>2. (DeadIsIdle /\ OneClaim)'
      BY <1>0, <1>2, <2>3 DEF RequestBuild, requestBuild, DeadIsIdle, OneClaim, firing
    <3> QED BY <3>1, <3>2 DEF ClaimInv
  <2>4. CASE ~firing
    <3>1. beginRestart(appendBuild(pending, s)) /\ phase # "down" /\ UNCHANGED <<disk, live, phase, retry>>
      BY <1>2, <2>4 DEF RequestBuild, requestBuild
    <3> QED BY <2>1, <2>2, <3>1, BeginRestart
  <2> QED BY <2>3, <2>4
<1>3. CASE RequestRecovery
  <2>1. /\ appendRecovery(inFlight) \in Requesters
        /\ appendRecovery(pending) \in Requesters
    BY <1>0, <1>n, ListsTyped DEF TypeOK
  <2>3. CASE firing
    <3>1. TypeOK'
      BY <1>0, <1>3, <2>1, <2>3 DEF RequestRecovery, TypeOK
    <3>2. (DeadIsIdle /\ OneClaim)'
      BY <1>0, <1>3, <2>3 DEF RequestRecovery, DeadIsIdle, OneClaim, firing
    <3> QED BY <3>1, <3>2 DEF ClaimInv
  <2>4. CASE ~firing
    <3>1. /\ beginRestart(appendRecovery(pending)) /\ phase # "down"
          /\ UNCHANGED <<disk, live, phase, retry, accepted>>
      BY <1>3, <2>4 DEF RequestRecovery
    <3>2. accepted' \in Stamps /\ accepted' <= disk
      BY <1>0, <3>1 DEF TypeOK
    <3> QED BY <2>1, <3>1, <3>2, BeginRestart
  <2> QED BY <2>3, <2>4
<1>5. CASE Start
  <2>1. TypeOK'
    BY <1>0, <1>n, <1>5 DEF Start, TypeOK
  <2>2. CASE firing
    <3>1. pending = None /\ row = None /\ ~timer
      BY <1>0, <2>2 DEF OneClaim, pending, None
    <3>2. row' = None /\ ~timer' /\ UNCHANGED <<attempt, inFlight, marker>> /\ phase' = "serving" /\ phase # "down"
      BY <1>5, <3>1 DEF Start
    <3> QED BY <1>0, <2>1, <2>2, <3>2 DEF ClaimInv, DeadIsIdle, OneClaim, firing
  <2>3. CASE ~firing
    BY <1>0, <1>5, <2>1, <2>3 DEF Start, ClaimInv, DeadIsIdle, OneClaim, firing
  <2> QED BY <2>2, <2>3
<1>6. CASE WorkChanged
  BY <1>0, <1>n, <1>6 DEF WorkChanged, TypeOK, ClaimInv, DeadIsIdle, OneClaim, firing
<1>7. CASE Tick
  <2>1. phase # "down"
    BY <1>0, <1>7 DEF Tick, DeadIsIdle
  <2>2. /\ beginRestart(pending) /\ UNCHANGED <<disk, live, phase, retry>>
        /\ accepted' \in Stamps /\ accepted' <= disk
    BY <1>0, <1>7 DEF Tick, TypeOK
  <2> QED BY <1>n, <2>1, <2>2, BeginRestart
<1>8. CASE RetryComesDue
  BY <1>0, <1>8 DEF RetryComesDue, TypeOK, ClaimInv, DeadIsIdle, OneClaim, firing
<1>9. CASE Settle \/ Accepted
  BY <1>0, <1>9 DEF Settle, Accepted, TypeOK, ClaimInv, DeadIsIdle, OneClaim, firing
<1>10. CASE Refused
  <2>1. TypeOK'
    BY <1>0, <1>n, <1>10 DEF Refused, refused, TypeOK
  <2>2. /\ attempt' = "none" /\ inFlight' = None /\ marker' = FALSE
        /\ phase' = phase
    BY <1>10 DEF Refused, refused
  <2>3. phase # "down"
    BY <1>0, <1>10 DEF Refused, refused, DeadIsIdle
  <2> QED BY <2>1, <2>2, <2>3 DEF ClaimInv, DeadIsIdle, OneClaim, firing
<1>11. CASE Bounce \/ Crash
  BY <1>0, <1>n, <1>11 DEF Bounce, Crash, Die, TypeOK, ClaimInv, DeadIsIdle, OneClaim, firing
<1>12. CASE Boot
  <2>1. disk \in Nat
    BY <1>0, ConstantsOK DEF TypeOK, Stamps
  <2>2. TypeOK'
    <3>1. live' = disk /\ disk' = disk /\ accepted' = accepted /\ disk <= disk
      BY <1>12, <2>1 DEF Boot
    <3>2. live' <= disk' /\ accepted' <= disk' /\ live' \in Stamps
      BY <1>0, <3>1 DEF TypeOK
    <3> QED BY <1>0, <1>12, <3>1, <3>2 DEF Boot, TypeOK
  <2>3. attempt' = "none" /\ timer' = FALSE /\ inFlight' = None /\ marker' = FALSE
    <3>1. phase = "down" /\ UNCHANGED <<attempt, timer, inFlight>> /\ marker' = FALSE
      BY <1>12 DEF Boot
    <3>2. attempt = "none" /\ timer = FALSE
      BY <1>0, <3>1 DEF DeadIsIdle, TypeOK
    <3> QED BY <1>0, <3>1, <3>2 DEF OneClaim, firing
  <2>4. phase' = "booting"
    BY <1>12 DEF Boot
  <2> QED BY <2>2, <2>3, <2>4 DEF ClaimInv, DeadIsIdle, OneClaim, firing
<1>13. CASE UNCHANGED vars
  BY <1>0, <1>13 DEF vars, TypeOK, ClaimInv, DeadIsIdle, OneClaim, firing
<1> QED
  BY <1>1, <1>2, <1>3, <1>5, <1>6, <1>7, <1>8, <1>9, <1>10, <1>11, <1>12, <1>13 DEF Next

(* A first process satisfies the claim invariant. *)
LEMMA InitClaim == Init => ClaimInv
<1> SUFFICES ASSUME Init PROVE ClaimInv
  OBVIOUS
<1>1. TypeOK
  <2>1. /\ 0 \in Stamps /\ MaxRequesters >= 1 /\ MaxRequesters \in Nat
        /\ NoBuild \in Stamps \cup {NoBuild}
    BY ConstantsOK DEF Stamps
  <2>2. row \in Requesters /\ inFlight \in Requesters
    BY <2>1 DEF Init, Requesters, None
  <2>3. live <= disk /\ accepted <= disk
    BY DEF Init
  <2> QED BY <2>1, <2>2, <2>3 DEF Init, TypeOK
<1>2. attempt = "none" /\ timer = FALSE /\ inFlight = None /\ marker = FALSE
  BY DEF Init
<1>3. phase = "booting"
  BY DEF Init
<1> QED BY <1>1, <1>2, <1>3 DEF ClaimInv, DeadIsIdle, OneClaim, firing

(* The coordinator's state is well typed whatever is staged and asked. *)
THEOREM TypeCorrect == Spec => []TypeOK
<1>1. ClaimInv => TypeOK
  BY DEF ClaimInv
<1> QED BY <1>1, InitClaim, ClaimInductive, PTL DEF Spec

(* A row and the attempt that claimed it never coexist, and the
   planned-restart marker stands exactly while an attempt does. *)
THEOREM ClaimExclusive == Spec => []OneClaim
<1>1. ClaimInv => OneClaim
  BY DEF ClaimInv
<1> QED BY <1>1, InitClaim, ClaimInductive, PTL DEF Spec

(* No retry is ever started on behalf of health recoveries alone. *)
THEOREM RecoveriesDropped == Spec => RecoveryNeverRetried
<1>1. ASSUME ClaimInv, Tick PROVE inFlight'.last # NoBuild /\ inFlight'.after = 0
  <2>1. row \in Requesters /\ pending # None /\ inFlight' = pending
    BY <1>1 DEF Tick, beginRestart, ClaimInv, TypeOK
  <2>2. row.last # NoBuild
    BY <2>1, EmptyList DEF pending
  <2> QED BY <2>1, <2>2 DEF pending, Requesters
<1>2. ClaimInv /\ [Next]_vars =>
        [Tick => inFlight'.last # NoBuild /\ inFlight'.after = 0]_vars
  BY <1>1
<1> QED BY <1>2, InitClaim, ClaimInductive, PTL DEF Spec, RecoveryNeverRetried

(* Every step that leaves a row behind in a serving process arms its retry. *)
THEOREM RowAlwaysArmed == Spec => []NoOrphanedRow
<1>1. Init => NoOrphanedRow
  <2>1. Init => phase # "serving"
    BY DEF Init
  <2> QED BY <2>1 DEF NoOrphanedRow
<1>2. ASSUME ClaimInv, NoOrphanedRow, [Next]_vars PROVE NoOrphanedRow'
  <2>0. TypeOK /\ DeadIsIdle /\ OneClaim
    BY <1>2 DEF ClaimInv
  <2> USE DEF NoOrphanedRow
  <2>1. CASE StageBuild \/ RetryComesDue \/ Settle \/ Accepted
    BY <1>2, <2>1 DEF StageBuild, RetryComesDue, Settle, Accepted
  <2>2. ASSUME NEW s \in Stamps, RequestBuild(s) PROVE NoOrphanedRow'
    BY <1>2, <2>2 DEF RequestBuild, requestBuild, beginRestart
  <2>3. CASE RequestRecovery
    BY <1>2, <2>3 DEF RequestRecovery, beginRestart
  <2>4. CASE Start
    BY <2>4 DEF Start
  <2>5. CASE WorkChanged
    BY <2>5 DEF WorkChanged
  <2>6. CASE Tick
    BY <2>6 DEF Tick, beginRestart
  <2>7. CASE Refused
    <3>1. inFlight \in Requesters /\ row' = [inFlight EXCEPT !.after = 0]
          /\ timer' = (inFlight.last # NoBuild)
      BY <2>0, <2>7 DEF Refused, refused, TypeOK
    <3> QED BY <3>1, EmptyList
  <2>8. CASE Bounce \/ Crash \/ Boot
    <3>1. phase' # "serving"
      BY <2>8 DEF Bounce, Crash, Die, Boot
    <3> QED BY <3>1
  <2>9. CASE UNCHANGED vars
    BY <1>2, <2>9 DEF vars
  <2> QED BY <1>2, <2>1, <2>2, <2>3, <2>4, <2>5, <2>6, <2>7, <2>8, <2>9 DEF Next
<1> QED BY <1>1, <1>2, InitClaim, ClaimInductive, PTL DEF Spec

-----------------------------------------------------------------------------
(* Unless an attempt gathers MAX_REQUESTERS recoveries behind its newest
   build, a build accepted and not yet loaded is always carried. *)
THEOREM DebtInductive ==
  ASSUME FewRecoveries, DebtInv, [Next]_vars
  PROVE  (BootedCurrent /\ OwedBuildHeld)'
<1>0. /\ ClaimInv /\ TypeOK /\ DeadIsIdle /\ OneClaim /\ BootedCurrent /\ OwedBuildHeld
      /\ MaxBuild \in Nat /\ disk \in Nat /\ live \in Nat /\ accepted \in Nat
      /\ live <= disk /\ accepted <= disk
  BY ConstantsOK DEF DebtInv, ClaimInv, TypeOK, Stamps
<1>a. pending.last = row.last /\ pending.after = 0
  BY <1>0 DEF pending, TypeOK, Requesters
<1>b. None.last = NoBuild
  BY DEF None
<1>c. \A s \in Stamps : s # NoBuild
  BY <1>0 DEF Stamps, NoBuild
<1> USE DEF BootedCurrent, OwedBuildHeld, held
<1>1. CASE StageBuild
  BY <1>0, <1>1 DEF StageBuild
<1>2. ASSUME NEW s \in Stamps, RequestBuild(s)
      PROVE  (BootedCurrent /\ OwedBuildHeld)'
  <2>1. inFlight'.last = s /\ phase' = "serving"
    BY <1>2 DEF RequestBuild, requestBuild, beginRestart, appendBuild
  <2> QED BY <1>c, <2>1
<1>3. CASE RequestRecovery
  <2>1. CASE firing
    <3>1. inFlight.after + 1 < MaxRequesters
      BY <1>0, <1>3, <2>1, ConstantsOK DEF RequestRecovery, FewRecoveries, TypeOK, Requesters
    <3>2. inFlight'.last = inFlight.last
      BY <1>0, <1>3, <2>1, <3>1 DEF RequestRecovery, appendRecovery, TypeOK, Requesters
    <3> QED BY <1>0, <1>3, <2>1, <3>2 DEF RequestRecovery
  <2>2. CASE ~firing
    <3>1. inFlight' = appendRecovery(pending) /\ row' = None /\ MaxHealth > 0
      BY <1>3, <2>2 DEF RequestRecovery, beginRestart
    <3>2. pending.after + 1 < MaxRequesters
      BY <1>a, <3>1, ConstantsOK DEF FewRecoveries
    <3>3. inFlight'.last = pending.last
      BY <1>0, <3>1, <3>2 DEF appendRecovery, pending, TypeOK, Requesters
    <3>4. inFlight.last = NoBuild
      BY <1>0, <1>b, <2>2 DEF OneClaim
    <3> QED BY <1>0, <1>3, <1>a, <3>3, <3>4 DEF RequestRecovery
  <2> QED BY <2>1, <2>2
<1>5. CASE Start
  BY <1>0, <1>5 DEF Start
<1>6. CASE WorkChanged
  BY <1>0, <1>a, <1>6 DEF WorkChanged
<1>7. CASE Tick
  <2>1. inFlight'.last = row.last /\ UNCHANGED <<phase, live, accepted>>
    BY <1>a, <1>7 DEF Tick, beginRestart
  <2>2. inFlight.last = NoBuild
    BY <1>0, <1>b, <1>7 DEF Tick, OneClaim
  <2> QED BY <1>0, <2>1, <2>2
<1>8. CASE RetryComesDue \/ Settle \/ Accepted
  BY <1>0, <1>8 DEF RetryComesDue, Settle, Accepted
<1>10. CASE Refused
  <2>1. row'.last = inFlight.last
    BY <1>0, <1>10 DEF Refused, refused, TypeOK, Requesters
  <2>2. row.last = NoBuild
    BY <1>0, <1>b, <1>10 DEF Refused, refused, OneClaim, firing
  <2> QED BY <1>0, <1>10, <2>1, <2>2 DEF Refused, refused
<1>11. CASE Bounce \/ Crash
  BY <1>11 DEF Bounce, Crash, Die
<1>12. CASE Boot
  BY <1>0, <1>12 DEF Boot
<1>13. CASE UNCHANGED vars
  BY <1>0, <1>13 DEF vars
<1> QED
  BY <1>1, <1>2, <1>3, <1>5, <1>6, <1>7, <1>8, <1>10, <1>11, <1>12, <1>13 DEF Next

(* A first process owes nothing. *)
LEMMA InitDebt == Init => DebtInv
<1> SUFFICES ASSUME Init PROVE DebtInv
  OBVIOUS
<1>1. ClaimInv /\ accepted = 0 /\ live = 0
  BY InitClaim DEF Init
<1> QED BY <1>1 DEF DebtInv, BootedCurrent, OwedBuildHeld

(* None of the staged builds is lost: see OwedBuildHeld. *)
THEOREM StagedBuildKept == FewRecoveries => (Spec => []OwedBuildHeld)
<1> SUFFICES ASSUME FewRecoveries PROVE Spec => []OwedBuildHeld
  OBVIOUS
<1>1. DebtInv /\ [Next]_vars => DebtInv'
  <2> SUFFICES ASSUME DebtInv, [Next]_vars PROVE DebtInv'
    OBVIOUS
  <2> QED BY ClaimInductive, DebtInductive DEF DebtInv
<1>2. DebtInv => OwedBuildHeld
  BY DEF DebtInv
<1> QED BY <1>1, <1>2, InitDebt, PTL DEF Spec

(* The same debt, seen by a client: the coordinator implements StagedBuild. *)
THEOREM PromiseKept == FewRecoveries => (Spec => ImplementsPromise)
<1> SUFFICES ASSUME FewRecoveries PROVE Spec => ImplementsPromise
  OBVIOUS
<1>1. Init => Promise!Init
  BY DEF Init, Promise!Init, held
<1>2. ASSUME DebtInv, [Next]_vars PROVE [Promise!Next]_Promise!vars
  <2>0. /\ TypeOK /\ DeadIsIdle /\ OneClaim /\ BootedCurrent
        /\ MaxBuild \in Nat /\ disk \in Nat /\ accepted \in Nat /\ accepted <= disk
    BY <1>2, ConstantsOK DEF DebtInv, ClaimInv, TypeOK, Stamps
  <2>a. pending.last = row.last /\ pending.after = 0 /\ None.last = NoBuild
    BY <2>0 DEF pending, TypeOK, Requesters, None
  <2>b. \A s \in Stamps : s # NoBuild
    BY <2>0 DEF Stamps, NoBuild
  <2>c. firing => row.last = NoBuild
    BY <2>a, <2>0 DEF OneClaim
  <2>d. ~firing => inFlight.last = NoBuild
    BY <2>a, <2>0 DEF OneClaim
  <2> USE DEF held, Promise!Next, Promise!vars
  <2>1. CASE StageBuild
    BY <2>1 DEF StageBuild, Promise!Stage
  <2>2. ASSUME NEW s \in Stamps, RequestBuild(s) PROVE Promise!Accept
    <3>1. inFlight'.last = s /\ phase' = phase /\ phase # "down"
      BY <2>2 DEF RequestBuild, requestBuild, beginRestart, appendBuild
    <3>2. accepted' \in accepted..disk
      BY <2>0, <2>2 DEF RequestBuild, requestBuild, Stamps
    <3> QED BY <2>2, <2>b, <3>1, <3>2 DEF RequestBuild, requestBuild, Promise!Accept
  <2>3. CASE RequestRecovery
    <3>1. CASE firing
      <4>1. inFlight.after + 1 < MaxRequesters
        BY <2>0, <2>3, <3>1, ConstantsOK DEF RequestRecovery, FewRecoveries, TypeOK, Requesters
      <4>2. inFlight'.last = inFlight.last
        BY <2>0, <2>3, <3>1, <4>1 DEF RequestRecovery, appendRecovery, TypeOK, Requesters
      <4> QED BY <2>3, <3>1, <4>2 DEF RequestRecovery
    <3>2. CASE ~firing
      <4>1. inFlight' = appendRecovery(pending) /\ row' = None /\ MaxHealth > 0
        BY <2>3, <3>2 DEF RequestRecovery, beginRestart
      <4>2. pending.after + 1 < MaxRequesters
        BY <2>a, <4>1, ConstantsOK DEF FewRecoveries
      <4>3. inFlight'.last = row.last
        BY <2>0, <2>a, <4>1, <4>2 DEF appendRecovery, pending, TypeOK, Requesters
      <4> QED BY <2>3, <2>a, <2>d, <3>2, <4>1, <4>3 DEF RequestRecovery
    <3> QED BY <3>1, <3>2
  <2>4. CASE Start
    <3>1. phase = "booting" /\ phase' = "serving" /\ UNCHANGED <<disk, live, accepted, inFlight>>
      BY <2>4 DEF Start
    <3>2. CASE row' = None
      BY <2>0, <2>a, <3>1, <3>2 DEF BootedCurrent, Promise!Discharge
    <3>3. CASE row' = pending
      BY <2>a, <3>1, <3>3
    <3> QED BY <2>4, <3>2, <3>3 DEF Start
  <2>5. CASE WorkChanged
    BY <2>a, <2>5 DEF WorkChanged
  <2>6. CASE Tick
    <3>1. inFlight'.last = row.last /\ row' = None /\ inFlight.last = NoBuild
      BY <2>a, <2>d, <2>6 DEF Tick, beginRestart
    <3> QED BY <2>6, <2>a, <3>1 DEF Tick
  <2>7. CASE RetryComesDue \/ Settle \/ Accepted
    BY <2>7 DEF RetryComesDue, Settle, Accepted
  <2>8. CASE Refused
    <3>1. /\ row'.last = inFlight.last /\ inFlight' = None /\ row.last = NoBuild
      BY <2>0, <2>8, <2>c DEF Refused, refused, TypeOK, Requesters, firing
    <3> QED BY <2>8, <2>a, <3>1 DEF Refused, refused
  <2>9. CASE Bounce \/ Crash
    BY <2>0, <2>9 DEF Bounce, Crash, Die, DeadIsIdle, Promise!Die
  <2>10. CASE Boot
    BY <2>10 DEF Boot, Promise!Boot
  <2>11. CASE UNCHANGED vars
    BY <2>11 DEF vars
  <2> QED
    BY <1>2, <2>1, <2>2, <2>3, <2>4, <2>5, <2>6, <2>7, <2>8, <2>9, <2>10, <2>11 DEF Next
<1>3. DebtInv /\ [Next]_vars => DebtInv'
  <2> SUFFICES ASSUME DebtInv, [Next]_vars PROVE DebtInv'
    OBVIOUS
  <2> QED BY ClaimInductive, DebtInductive DEF DebtInv
<1> QED BY <1>1, <1>2, <1>3, InitDebt, PTL DEF Spec, ImplementsPromise, Promise!Spec
=============================================================================
