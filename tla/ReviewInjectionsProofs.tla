------------------------ MODULE ReviewInjectionsProofs ------------------------
(* Proofs about ReviewInjections, for any sets of instructions and bounds. *)
EXTENDS ReviewInjections, TLAPS, FiniteSetTheorems

IdOrNone == Run \cup {NoRun}

(* One more element adds at most one. *)
LEMMA OneMore ==
  ASSUME NEW S, NEW x, IsFiniteSet(S)
  PROVE  /\ IsFiniteSet(S \cup {x}) /\ Cardinality(S) \in Nat /\ Cardinality(S \cup {x}) \in Nat
         /\ Cardinality(S \cup {x}) <= Cardinality(S) + 1
<1>1. Cardinality(S) \in Nat
  BY FS_CardinalityType
<1> QED
  BY <1>1, FS_AddElement

(* A run id that nothing names always exists. *)
LEMMA FreshIsARun ==
  ASSUME TypeOK
  PROVE  Fresh \in Run
<1> DEFINE Named == {row[i].run : i \in Instruction}
<1> DEFINE Few == {reviewer, live, lane.run}
<1>2. InUse \subseteq Few \cup Named
  BY DEF InUse
<1>3. IsFiniteSet(Named) /\ Cardinality(Named) <= Cardinality(Instruction)
  <2> DEFINE runOf == [i \in Instruction |-> row[i].run]
  <2>1. runOf \in Surjection(Instruction, Named)
    BY DEF Surjection
  <2>2. IsFiniteSet(Instruction)
    BY ConstantsOK
  <2> HIDE DEF runOf, Named
  <2> QED
    BY <2>1, <2>2, FS_Surjection
<1>4. IsFiniteSet(Few) /\ Cardinality(Few) <= 3
  <2> DEFINE F1 == {reviewer}  F2 == F1 \cup {live}  F3 == F2 \cup {lane.run}
  <2>2. IsFiniteSet(F1) /\ Cardinality(F1) <= 1
    <3>1. IsFiniteSet({reviewer}) /\ Cardinality({reviewer}) = 1
      BY FS_Singleton, Zenon
    <3> QED
      BY <3>1
  <2> HIDE DEF F1, F2, F3
  <2>3. IsFiniteSet(F2) /\ Cardinality(F2) <= 2
    <3>1. /\ IsFiniteSet(F1 \cup {live}) /\ Cardinality(F1) \in Nat
          /\ Cardinality(F1 \cup {live}) \in Nat
          /\ Cardinality(F1 \cup {live}) <= Cardinality(F1) + 1
      BY <2>2, OneMore, Zenon
    <3>2. F2 = F1 \cup {live}
      BY DEF F2
    <3> QED
      BY <2>2, <3>1, <3>2
  <2>4. IsFiniteSet(F3) /\ Cardinality(F3) <= 3
    <3>1. /\ IsFiniteSet(F2 \cup {lane.run}) /\ Cardinality(F2) \in Nat
          /\ Cardinality(F2 \cup {lane.run}) \in Nat
          /\ Cardinality(F2 \cup {lane.run}) <= Cardinality(F2) + 1
      BY <2>3, OneMore, Zenon
    <3>2. F3 = F2 \cup {lane.run}
      BY DEF F3
    <3> QED
      BY <2>3, <3>1, <3>2
  <2>5. F3 = Few
    BY DEF F1, F2, F3
  <2> QED
    BY <2>4, <2>5
<1> HIDE DEF Few, Named
<1>5. IsFiniteSet(Few \cup Named) /\ Cardinality(Few \cup Named) <= Cardinality(Instruction) + 3
  <2>1. /\ Cardinality(Few) \in Nat /\ Cardinality(Named) \in Nat /\ Cardinality(Instruction) \in Nat
        /\ Cardinality(Few \cap Named) \in Nat
    BY <1>3, <1>4, ConstantsOK, FS_CardinalityType, FS_Intersection
  <2>2. /\ IsFiniteSet(Few \cup Named)
        /\ Cardinality(Few \cup Named) = Cardinality(Few) + Cardinality(Named) - Cardinality(Few \cap Named)
    BY <1>3, <1>4, FS_Union
  <2> QED
    BY <1>3, <1>4, <2>1, <2>2
<1>6. ~(Run \subseteq Few \cup Named)
  <2> SUFFICES ASSUME Run \subseteq Few \cup Named PROVE FALSE
    OBVIOUS
  <2>1. Cardinality(Run) <= Cardinality(Few \cup Named)
    BY <1>5, FS_Subset
  <2>2. Cardinality(Run) > Cardinality(Instruction) + 3
    BY ConstantsOK
  <2>3. /\ Cardinality(Run) \in Nat /\ Cardinality(Instruction) \in Nat
        /\ Cardinality(Few \cup Named) \in Nat
    BY <1>5, ConstantsOK, FS_CardinalityType
  <2> QED
    BY <1>5, <2>1, <2>2, <2>3
<1>7. \E r \in Run : r \notin InUse
  BY <1>2, <1>6
<1> QED
  BY <1>7 DEF Fresh

-----------------------------------------------------------------------------
(* What the store's updates do to a row. *)
LEMMA ToTyped ==
  ASSUME NEW rows \in [Instruction -> RowType], NEW S, NEW st \in Status
  PROVE  To(rows, S, st) \in [Instruction -> RowType]
BY DEF To, Status, OpenStatus, RowType, IdOrNone

LEMMA DeliveredTyped ==
  ASSUME NEW rows \in [Instruction -> RowType], NEW S, NEW st \in Status, NEW r \in IdOrNone
  PROVE  Delivered(rows, S, st, r) \in [Instruction -> RowType]
BY DEF Delivered, RowType, IdOrNone

LEMMA AcknowledgedTyped ==
  ASSUME NEW rows \in [Instruction -> RowType], NEW S
  PROVE  Acknowledged(rows, S) \in [Instruction -> RowType]
BY DEF Acknowledged, Status, OpenStatus, RowType, IdOrNone

LEMMA ImplementedTyped ==
  ASSUME NEW rows \in [Instruction -> RowType], NEW S
  PROVE  Implemented(rows, S) \in [Instruction -> RowType]
BY DEF Implemented, Status, OpenStatus, RowType, IdOrNone

LEMMA RenewedTyped ==
  ASSUME NEW rows \in [Instruction -> RowType], NEW S, NEW tok \in 0..MaxClicks
  PROVE  Renewed(rows, S, tok) \in [Instruction -> RowType]
BY DEF Renewed, Status, OpenStatus, RowType, IdOrNone

LEMMA HandedOverTyped ==
  ASSUME NEW rows \in [Instruction -> RowType]
  PROVE  HandedOver(rows) \in [Instruction -> RowType]
<1>1. {"queued", "handled"} \subseteq Status /\ NoRun \in IdOrNone
  BY DEF Status, OpenStatus, Dropped, IdOrNone
<1> DEFINE S == Superseding(rows)
<1>2. To(rows, S, "queued") \in [Instruction -> RowType]
  BY <1>1, ToTyped
<1>3. To(To(rows, S, "queued"), Done(rows, S), "handled") \in [Instruction -> RowType]
  BY <1>1, <1>2, ToTyped
<1> QED
  BY <1>3 DEF HandedOver

-----------------------------------------------------------------------------
LEMMA ConstantsTyped ==
  /\ AtRest \in LaneType /\ AtRest.pc = "idle"
  /\ NoRow \in RowType /\ NoRow.tok = 0 /\ NoRow.st = "none" /\ NoRow.ack = FALSE
<1>1. AtRest \in LaneType
  BY ConstantsOK DEF AtRest, LaneType, LanePc, NoVerdict
<1>2. NoRow \in RowType
  BY ConstantsOK DEF NoRow, NewRow, RowType, Status, Dropped
<1> QED
  BY <1>1, <1>2 DEF AtRest, NoRow, NewRow

(* A row as it is accepted. *)
LEMMA NewRowTyped ==
  ASSUME NEW st \in Status, NEW tok \in 0..MaxClicks, NEW r \in IdOrNone
  PROVE  NewRow(st, tok, r) \in RowType
  BY DEF NewRow, RowType, IdOrNone

ResumeType == [pc : {"idle", "pick", "start", "run"}, rows : SUBSET Instruction]
SomeOrNone == Resumer \cup {Nobody}

(* A resume that begins takes the flag and the slot of the task. *)
LEMMA BeginTyped ==
  ASSUME TypeOK, NEW S \in SUBSET Instruction, BeginResume(S)
  PROVE  /\ task' = "implementing" /\ resume' \in [Resumer -> ResumeType]
         /\ resuming' \in SomeOrNone /\ slot' \in SomeOrNone
<1> DEFINE r == CHOOSE x \in Idle : TRUE
<1>1. r \in Resumer
  BY DEF BeginResume, Idle
<1>2. /\ resume' = [resume EXCEPT ![r] = [pc |-> "pick", rows |-> S]]
      /\ resuming' = r /\ slot' = r /\ task' = "implementing"
  BY DEF BeginResume
<1> HIDE DEF r
<1> QED
  BY <1>1, <1>2 DEF TypeOK, ResumeType, SomeOrNone

(* The commands of the owner keep the types. *)
LEMMA CommandTyped ==
  ASSUME TypeOK, Command
  PROVE  TypeOK'
<1> USE ConstantsOK DEF TypeOK, agents, resumes, commands, bounds, State, Terminal, LaneType, LanePc
<1>1. CASE Claim
  <2>1. claims' \in 0..MaxClicks /\ owner' = claims' /\ accepted' = 0
    <3>1. claims \in Nat /\ settles \in Nat /\ claims + settles < MaxClicks /\ claims' = claims + 1
      BY <1>1 DEF Claim, Clicks
    <3> QED
      BY <1>1, <3>1 DEF Claim
  <2>2. lane' = [AtRest EXCEPT !.pc = "claim", !.tok = claims', !.run = live] /\ task' = "reviewing"
    BY <1>1 DEF Claim
  <2>3. lane' \in LaneType
    BY <2>1, <2>2, ConstantsTyped
  <2>4. UNCHANGED <<row, agents, resumes, commands, bounds>>
    BY <1>1 DEF Claim
  <2> QED
    BY <2>1, <2>2, <2>3, <2>4
<1>2. CASE Resume
  <2>1. BeginResume(Queued(row)) \/ (task' = "implementing" /\ UNCHANGED resumes)
    BY <1>2, Zenon DEF Resume
  <2>2. Queued(row) \subseteq Instruction
    BY DEF Queued
  <2>3. /\ task' \in State /\ resume' \in [Resumer -> ResumeType]
        /\ resuming' \in SomeOrNone /\ slot' \in SomeOrNone
    BY <2>1, <2>2, BeginTyped DEF ResumeType, SomeOrNone
  <2> QED
    BY <1>2, <2>3 DEF Resume, ResumeType, SomeOrNone
<1>3. ASSUME NEW to \in Terminal, Settle(to) PROVE TypeOK'
  <2>1. claims \in Nat /\ settles \in Nat /\ claims + settles < MaxClicks /\ settles' = settles + 1
    BY <1>3 DEF Settle, Clicks
  <2>2. settles' \in 0..MaxClicks
    BY <2>1
  <2> QED
    BY <1>3, <2>2 DEF Settle
<1>4. ASSUME NEW i \in Append, AppendTo(i) PROVE TypeOK'
  <2>1. row' \in [Instruction -> RowType]
    <3>1. \/ row' = [row EXCEPT ![i] = NewRow("reviewer", owner, reviewer)]
          \/ row' = [row EXCEPT ![i] = NewRow("implementor", owner, live)]
          \/ row' = [row EXCEPT ![i] = NewRow("accepted", owner, NoRun)]
      BY <1>4, Zenon DEF AppendTo
    <3>2. /\ {"implementor", "reviewer", "accepted"} \subseteq Status
          /\ {live, reviewer, NoRun} \subseteq IdOrNone
      BY DEF Status, OpenStatus, Dropped, IdOrNone
    <3> QED
      BY <3>1, <3>2, NewRowTyped DEF Instruction
  <2> QED
    BY <1>4, <2>1 DEF AppendTo
<1>5. ASSUME NEW i \in Interrupt, Supersede(i) PROVE TypeOK'
  <2>1. \E st \in Status, r \in IdOrNone : row' = [row EXCEPT ![i] = NewRow(st, owner, r)]
    <3>1. /\ {"implementor", "queued", "failed"} \subseteq Status /\ {live, NoRun} \subseteq IdOrNone
      BY DEF Status, OpenStatus, Dropped, IdOrNone
    <3>2. \/ row' = [row EXCEPT ![i] = NewRow("implementor", owner, live)]
          \/ row' = [row EXCEPT ![i] = NewRow("queued", owner, NoRun)]
          \/ row' = [row EXCEPT ![i] = NewRow("failed", owner, NoRun)]
      BY <1>5, Zenon DEF Supersede
    <3> QED
      BY <3>1, <3>2
  <2>2. row' \in [Instruction -> RowType]
    BY <2>1, NewRowTyped DEF Instruction
  <2>3. stopping' \subseteq Interrupt /\ sched' \in BOOLEAN
    BY <1>5 DEF Supersede, HasTask
  <2>4. /\ task' \in State /\ resume' \in [Resumer -> ResumeType]
        /\ resuming' \in SomeOrNone /\ slot' \in SomeOrNone
    <3>1. BeginResume({i}) \/ UNCHANGED <<task, resumes>>
      BY <1>5, Zenon DEF Supersede
    <3> QED
      BY <3>1, BeginTyped DEF Instruction, ResumeType, SomeOrNone
  <2>5. UNCHANGED <<claims, owner, accepted, lane, agents, settling, bounds>>
    BY <1>5 DEF Supersede
  <2> QED
    BY <2>3, <2>4, <2>5, <2>2 DEF ResumeType, SomeOrNone
<1>6. ASSUME NEW i \in Instruction, TooLate(i) PROVE TypeOK'
  <2>1. row' \in [Instruction -> RowType]
    <3>1. \/ row' = [row EXCEPT ![i] = NewRow("too_late", 0, NoRun)]
          \/ row' = [row EXCEPT ![i] = NewRow("implementor", owner, live)]
          \/ row' = [row EXCEPT ![i] = NewRow("queued", owner, NoRun)]
      BY <1>6, Zenon DEF TooLate
    <3>2. /\ {"implementor", "queued", "too_late"} \subseteq Status /\ {live, NoRun} \subseteq IdOrNone
      BY DEF Status, OpenStatus, Dropped, IdOrNone
    <3> QED
      BY <3>1, <3>2, NewRowTyped
  <2>2. /\ task' \in State /\ resume' \in [Resumer -> ResumeType]
        /\ resuming' \in SomeOrNone /\ slot' \in SomeOrNone
    <3>1. BeginResume({i}) \/ UNCHANGED <<task, resumes>>
      BY <1>6, Zenon DEF TooLate
    <3> QED
      BY <3>1, BeginTyped DEF ResumeType, SomeOrNone
  <2>3. UNCHANGED <<claims, owner, accepted, lane, agents, commands, bounds>>
    BY <1>6 DEF TooLate
  <2> QED
    BY <2>1, <2>2, <2>3 DEF ResumeType, SomeOrNone
<1> QED
  BY <1>1, <1>2, <1>3, <1>4, <1>5, <1>6 DEF Command

(* So do the reviewer's steps, up to its verdict. *)
LEMMA ReviewTyped ==
  ASSUME TypeOK,
         \/ Kick \/ ReviewerStarts \/ ReviewerFails
         \/ \E v \in Verdict : \E S \in SUBSET Pending(row) : Answers(v, S)
         \/ \E v \in NoVerdict : Breaks(v)
         \/ Recover \/ ReadLate
  PROVE  TypeOK'
<1> USE DEF TypeOK, agents, resumes, commands, bounds
<1>0. /\ {"reviewer", "failed", "accepted", "acknowledged"} \subseteq Status
      /\ {"launch", "turn", "gap"} \subseteq LanePc /\ "error" \in NoVerdict
      /\ Run \subseteq IdOrNone /\ NoRun \in IdOrNone
  BY DEF Status, OpenStatus, Dropped, LanePc, NoVerdict, IdOrNone
<1>8. /\ 0 \in 0..Misses /\ (lane.misses < Misses => lane.misses + 1 \in 0..Misses)
       /\ (lane.tries < Recoveries => lane.tries + 1 \in 0..Recoveries)
       /\ (lane.passes < Passes => lane.passes + 1 \in 0..Passes)
  BY ConstantsOK DEF LaneType
<1>1. CASE Kick
  <2>1. row' \in [Instruction -> RowType]
    BY <1>1, RenewedTyped DEF Kick, LaneType
  <2> QED
    BY <1>0, <1>1, <2>1 DEF Kick, LaneType
<1>2. CASE ReviewerStarts
  <2>1. Fresh \in Run
    BY FreshIsARun
  <2>2. row' \in [Instruction -> RowType]
    BY <1>0, <1>2, <2>1, DeliveredTyped DEF ReviewerStarts
  <2> QED
    BY <1>0, <1>2, <2>1, <2>2 DEF ReviewerStarts, LaneType
<1>3. CASE ReviewerFails
  BY <1>0, <1>3 DEF ReviewerFails, LaneType
<1>4. ASSUME NEW v \in Verdict, NEW S \in SUBSET Pending(row), Answers(v, S) PROVE TypeOK'
  <2>1. Acknowledged(row, S) \in [Instruction -> RowType]
    BY AcknowledgedTyped
  <2>2. To(Acknowledged(row, S), Pending(row) \ S, "failed") \in [Instruction -> RowType]
    BY ToTyped, <1>0, <2>1
  <2>3. row' \in [Instruction -> RowType]
    BY <1>4, <2>1, <2>2 DEF Answers
  <2>4. lane' \in LaneType
    <3>1. \/ Ends(v) \/ Ends("error")
          \/ lane.misses < Misses /\ lane' = [lane EXCEPT !.misses = @ + 1]
      BY <1>4 DEF Answers
    <3>2. ASSUME NEW w \in Verdict \cup NoVerdict, Ends(w) PROVE lane' \in LaneType
      BY <1>0, <1>8, <3>2 DEF Ends, LaneType
    <3>3. CASE lane.misses < Misses /\ lane' = [lane EXCEPT !.misses = @ + 1]
      BY <1>8, <3>3 DEF LaneType
    <3> QED
      BY <1>0, <3>1, <3>2, <3>3
  <2>5. reviewer' \in Run \cup {NoRun}
    BY <1>4 DEF Answers, Ends
  <2>6. UNCHANGED <<task, claims, owner, accepted, live, resumes, commands, bounds>>
    BY <1>4 DEF Answers
  <2> QED
    BY <2>3, <2>4, <2>5, <2>6
<1>5. ASSUME NEW v \in NoVerdict, Breaks(v) PROVE TypeOK'
  <2>1. row' \in [Instruction -> RowType]
    BY <1>5, RenewedTyped DEF Breaks, breaks
  <2>2. lane' \in LaneType
    BY <1>0, <1>8, <1>5 DEF Breaks, breaks, Ends, LaneType
  <2> QED
    BY <1>5, <2>1, <2>2 DEF Breaks, breaks, Ends
<1>6. CASE Recover
  <2>1. lane' \in LaneType
    BY <1>0, <1>8, <1>6 DEF Recover, recover, Recovers, recovers, LaneType
  <2> QED
    BY <1>6, <2>1 DEF Recover, recover
<1>7. CASE ReadLate
  <2>1. lane' \in LaneType
    BY <1>0, <1>8, <1>7 DEF ReadLate, LaneType
  <2> QED
    BY <1>7, <2>1 DEF ReadLate
<1> QED
  BY <1>1, <1>2, <1>3, <1>4, <1>5, <1>6, <1>7

(* A lane that ends is at rest, and a park or an accept is typed. *)
LEMMA EndTyped ==
  ASSUME TypeOK, End
  PROVE  lane' \in LaneType /\ reviewer' \in Run \cup {NoRun} /\ slot' \in Resumer \cup {Nobody}
BY ConstantsTyped DEF End, LaneType, LanePc

LEMMA ParkTyped ==
  ASSUME TypeOK, Park
  PROVE  task' \in State /\ owner' \in 0..MaxClicks
BY ConstantsOK DEF TypeOK, Park, State

(* So do the steps that decide what a verdict leads to. *)
LEMMA DrainedTyped ==
  ASSUME TypeOK
  PROVE  Drained \in [Instruction -> RowType] /\ HandedOver(Drained) \in [Instruction -> RowType]
<1>1. Drained \in [Instruction -> RowType]
  BY ToTyped DEF TypeOK, Drained, Status, Dropped
<1> QED
  BY <1>1, HandedOverTyped

LEMMA DecisionTyped ==
  ASSUME TypeOK, DropVerdict \/ StartFix \/ FixBlocked \/ Finalize
  PROVE  TypeOK'
<1> USE DEF agents, resumes, commands, bounds
<1>0. {"handled", "queued", "failed"} \subseteq Status
  BY DEF Status, OpenStatus, Dropped
<1>1. CASE DropVerdict
  BY <1>1, DrainedTyped, EndTyped, ParkTyped DEF DropVerdict, TypeOK, End
<1>2. CASE StartFix
  <2> DEFINE rows == HandedOver(Drained)
  <2>1. PICK mine \in SUBSET Instruction :
          /\ lane' = [AtRest EXCEPT !.pc = "fixstart", !.tok = lane.tok, !.round = lane.round, !.rows = mine]
          /\ row' = To(rows, mine, "queued")
    BY <1>2 DEF StartFix, OpenOf, Open
  <2>2. row' \in [Instruction -> RowType]
    BY <1>0, <2>1, DrainedTyped, ToTyped
  <2>3. lane' \in LaneType
    BY <2>1, ConstantsTyped DEF TypeOK, LaneType, LanePc, FixPlace
  <2> QED
    BY <1>2, <2>2, <2>3 DEF StartFix, TypeOK
<1>3. CASE FixBlocked
  BY <1>3, DrainedTyped, EndTyped, ParkTyped DEF FixBlocked, fixBlocked, TypeOK, End
<1>4. CASE Finalize
  <2> DEFINE rows == HandedOver(Drained)
             all == OpenOf(rows, lane.tok)
             mine == all \cap Append
  <2>1. /\ rows \in [Instruction -> RowType] /\ To(rows, all, "failed") \in [Instruction -> RowType]
        /\ To(To(rows, mine, "queued"), Done(rows, mine), "handled") \in [Instruction -> RowType]
        /\ To(rows, mine, "handled") \in [Instruction -> RowType]
    <3>1. rows \in [Instruction -> RowType]
      BY DrainedTyped
    <3> HIDE DEF rows
    <3> QED
      BY <1>0, <3>1, ToTyped
  <2>2. End /\ UNCHANGED <<claims, live, resume, resuming, commands, bounds>>
    BY <1>4 DEF Finalize
  <2>3. \/ row' = rows /\ UNCHANGED <<task, owner, accepted>>
        \/ row' = To(rows, all, "failed") /\ Park /\ UNCHANGED accepted
        \/ /\ row' = To(To(rows, mine, "queued"), Done(rows, mine), "handled")
           /\ Park /\ UNCHANGED accepted
        \/ Accept /\ (row' = To(rows, mine, "handled") \/ row' = rows)
    BY <1>4 DEF Finalize
  <2>4. row' \in [Instruction -> RowType]
    BY <2>1, <2>3
  <2>5. task' \in State /\ owner' \in 0..MaxClicks /\ accepted' \in 0..MaxClicks
    <3>1. ASSUME Accept PROVE task' \in State /\ owner' \in 0..MaxClicks /\ accepted' \in 0..MaxClicks
      BY <3>1, ConstantsOK DEF Accept, TypeOK, State, LaneType
    <3> QED
      BY <2>3, <3>1, ParkTyped DEF TypeOK
  <2> QED
    BY <2>2, <2>4, <2>5, EndTyped DEF TypeOK
<1> QED
  BY <1>1, <1>2, <1>3, <1>4

(* And the fix round. *)
LEMMA FinishTyped ==
  ASSUME TypeOK, NEW rows \in [Instruction -> RowType], NEW ok \in BOOLEAN, Finish(rows, ok)
  PROVE  /\ lane' \in LaneType /\ row' \in [Instruction -> RowType]
         /\ task' \in State /\ owner' \in 0..MaxClicks
<1>1. lane' \in LaneType
  BY DEF Finish, TypeOK, LaneType, LanePc, FixPlace, NoVerdict
<1>2. row' \in [Instruction -> RowType]
  <2> DEFINE mine == {i \in OpenOf(rows, lane.tok) : rows[i].st = "implementor" /\ rows[i].run = lane.run}
  <2>1. row' \in {rows, Implemented(rows, mine), To(rows, mine, "failed")}
    BY DEF Finish
  <2>2. To(rows, mine, "failed") \in [Instruction -> RowType]
    BY ToTyped DEF Status, Dropped
  <2> QED
    BY <2>1, <2>2, ImplementedTyped
<1>3. task' \in State /\ owner' \in 0..MaxClicks
  BY ConstantsOK DEF Finish, TypeOK, State
<1> QED
  BY <1>1, <1>2, <1>3

LEMMA BoundaryTyped ==
  ASSUME TypeOK, NEW rows \in [Instruction -> RowType], NEW ok \in BOOLEAN, Boundary(rows, ok)
  PROVE  /\ lane' \in LaneType /\ row' \in [Instruction -> RowType]
         /\ task' \in State /\ owner' \in 0..MaxClicks
<1>1. CASE Finish(rows, ok)
  BY <1>1, FinishTyped
<1>2. CASE ~Finish(rows, ok)
  <2>1. /\ lane' = [lane EXCEPT !.pc = "drainstart", !.rows = Queued(rows)]
        /\ row' = rows /\ UNCHANGED <<task, owner>>
    BY <1>2 DEF Boundary
  <2> QED
    BY <2>1 DEF TypeOK, LaneType, LanePc, FixPlace, Queued
<1> QED
  BY <1>1, <1>2

RoundOK == lane.pc \in FixPlace => lane.round < FixRounds

LEMMA FixTyped ==
  ASSUME TypeOK, RoundOK,
         \/ FixStarts \/ FixAborts \/ DrainStarts \/ FixStops \/ FixRelaunches
         \/ \E ok \in BOOLEAN : FixEnds(ok) \/ DrainEnds(ok)
  PROVE  TypeOK'
<1> USE DEF agents, resumes, commands, bounds
<1>0. /\ {"implementor", "handled", "failed"} \subseteq Status /\ Fresh \in Run /\ Run \subseteq IdOrNone
      /\ FixPlace \cup {"launch"} \subseteq LanePc
  BY FreshIsARun DEF Status, OpenStatus, Dropped, IdOrNone, LanePc
<1>1. CASE FixStarts
  <2>1. lane' \in LaneType
    BY <1>0, <1>1 DEF FixStarts, TypeOK, LaneType, FixPlace
  <2>2. row' \in [Instruction -> RowType]
    BY <1>0, <1>1, DeliveredTyped DEF FixStarts, TypeOK
  <2> QED
    BY <1>0, <1>1, <2>1, <2>2 DEF FixStarts, TypeOK, State
<1>2. CASE FixAborts
  BY <1>2, EndTyped, ParkTyped DEF FixAborts, TypeOK
<1>3. CASE DrainStarts
  <2>1. lane' \in LaneType
    BY <1>0, <1>3 DEF DrainStarts, Move, TypeOK, LaneType, FixPlace
  <2>2. row' \in [Instruction -> RowType]
    BY <1>0, <1>3, DeliveredTyped DEF DrainStarts, TypeOK
  <2> QED
    BY <1>0, <1>3, <2>1, <2>2 DEF DrainStarts, TypeOK, State
<1>4. CASE FixStops
  <2>1. UNCHANGED <<claims, accepted, resume, resuming, commands, bounds>> /\ live' = NoRun
    BY <1>4 DEF FixStops
  <2>2. CASE End /\ UNCHANGED <<task, owner, row>>
    BY <2>1, <2>2, EndTyped DEF TypeOK
  <2>3. CASE ~(End /\ UNCHANGED <<task, owner, row>>)
    <3>1. row' = HandedOver(row)
      BY <1>4, <2>3 DEF FixStops
    <3>2. CASE Park /\ End
      BY <2>1, <3>1, <3>2, HandedOverTyped, EndTyped, ParkTyped DEF TypeOK
    <3>3. CASE ~(Park /\ End)
      <4>1. /\ lane' = [AtRest EXCEPT !.pc = "launch", !.tok = lane.tok, !.round = lane.round + 1]
            /\ UNCHANGED <<task, owner, reviewer, slot>>
        BY <1>4, <2>3, <3>3 DEF FixStops
      <4>2. lane.round + 1 \in 0..FixRounds
        BY <1>4, ConstantsOK DEF FixStops, RoundOK, FixPlace, TypeOK, LaneType
      <4>3. lane' \in LaneType
        BY <1>0, <4>1, <4>2, ConstantsTyped DEF TypeOK, LaneType
      <4> QED
        BY <2>1, <3>1, <4>1, <4>3, HandedOverTyped DEF TypeOK
    <3> QED
      BY <3>2, <3>3
  <2> QED
    BY <2>2, <2>3
<1>5. CASE FixRelaunches
  BY <1>0, <1>5, ConstantsOK DEF FixRelaunches, TypeOK, State
<1>6. ASSUME NEW ok \in BOOLEAN, FixEnds(ok) PROVE TypeOK'
  BY <1>6, BoundaryTyped DEF FixEnds, TypeOK
<1>7. ASSUME NEW ok \in BOOLEAN, DrainEnds(ok) PROVE TypeOK'
  <2>1. To(row, lane.rows, IF ok THEN "handled" ELSE "failed") \in [Instruction -> RowType]
    BY <1>0, ToTyped DEF TypeOK
  <2> QED
    BY <1>7, <2>1, BoundaryTyped DEF DrainEnds, TypeOK
<1> QED
  BY <1>1, <1>2, <1>3, <1>4, <1>5, <1>6, <1>7

-----------------------------------------------------------------------------
(* What is left: stops, resumes, the end of a lane and a restart. *)
LEMMA RestTyped ==
  ASSUME TypeOK,
         \/ HandleDrops \/ Settled \/ Unwind \/ Boot
         \/ ResumeStep
         \/ \E i \in Interrupt : Stopped(i)
  PROVE  TypeOK'
<1> USE DEF agents, resumes, commands, bounds
<1>0. /\ {"implementor", "handled", "failed", "queued"} \subseteq Status /\ Fresh \in Run
      /\ Run \subseteq IdOrNone /\ live \in IdOrNone
      /\ NoResume \in ResumeType /\ AllRest \in [Resumer -> ResumeType] /\ Nobody \in SomeOrNone
  BY FreshIsARun DEF Status, OpenStatus, Dropped, IdOrNone, TypeOK, NoResume, AllRest, ResumeType, SomeOrNone
<1>1. CASE HandleDrops
  BY <1>1 DEF HandleDrops, TypeOK
<1>2. CASE Settled
  <2>1. row' \in [Instruction -> RowType]
    BY <1>0, <1>2, ToTyped DEF Settled, TypeOK
  <2>2. settling \in Terminal
    BY <1>2 DEF Settled, TypeOK
  <2> QED
    BY <1>0, <1>2, <2>1, <2>2, ConstantsOK DEF Settled, TypeOK, State, Terminal
<1>3. CASE Unwind
  <2>1. row' \in [Instruction -> RowType]
    <3>1. row' \in {row, To(row, QueuedInterrupts(row), "failed"),
                    Delivered(row, QueuedInterrupts(row), "implementor", live)}
      BY <1>3 DEF Unwind, unwind
    <3>2. /\ To(row, QueuedInterrupts(row), "failed") \in [Instruction -> RowType]
          /\ Delivered(row, QueuedInterrupts(row), "implementor", live) \in [Instruction -> RowType]
      BY <1>0, ToTyped, DeliveredTyped DEF TypeOK
    <3> QED
      BY <3>1, <3>2 DEF TypeOK
  <2>2. /\ task' \in State /\ resume' \in [Resumer -> ResumeType]
        /\ resuming' \in SomeOrNone /\ slot' \in SomeOrNone
    <3>1. BeginResume(QueuedInterrupts(row)) \/ UNCHANGED <<task, resumes>>
      BY <1>3, Zenon DEF Unwind, unwind
    <3>2. QueuedInterrupts(row) \subseteq Instruction
      BY DEF QueuedInterrupts, Queued
    <3> QED
      BY <3>1, <3>2, BeginTyped DEF TypeOK, State, ResumeType, SomeOrNone
  <2> QED
    BY <1>3, <2>1, <2>2, ConstantsTyped DEF Unwind, unwind, TypeOK, ResumeType, SomeOrNone
<1>4. CASE Boot
  <2>1. row' \in [Instruction -> RowType]
    <3>1. To(row, Open(row), "queued") \in [Instruction -> RowType]
      BY <1>0, ToTyped DEF TypeOK
    <3> QED
      BY <1>0, <1>4, <3>1, ToTyped DEF Boot
  <2>2. task' \in State
    BY <1>4 DEF Boot, TypeOK, State
  <2>3. boots' \in 0..MaxFaults /\ owner' \in 0..MaxClicks
    BY <1>4, ConstantsOK DEF Boot, TypeOK
  <2> QED
    BY <1>0, <1>4, <2>1, <2>2, <2>3, ConstantsTyped DEF Boot, TypeOK, ResumeType, SomeOrNone
<1>5. ASSUME NEW r \in Resumer,
             \/ ResumeReads(r) \/ ResumeStarts(r) \/ ResumeFails(r) \/ \E ok \in BOOLEAN : ResumeEnds(r, ok)
      PROVE  TypeOK'
  <2> USE DEF ResumeType, SomeOrNone
  <2>0. row \in [Instruction -> RowType] /\ resume \in [Resumer -> ResumeType]
    BY DEF TypeOK
  <2>1. CASE ResumeReads(r)
    <3>1. Queued(row) \subseteq Instruction
      BY DEF Queued
    <3>2. resume' \in [Resumer -> ResumeType]
      BY <1>0, <2>0, <2>1, <3>1 DEF ResumeReads
    <3> QED
      BY <1>0, <2>1, <3>2 DEF ResumeReads, TypeOK, State
  <2>2. CASE ResumeStarts(r)
    <3>1. row' \in [Instruction -> RowType]
      BY <1>0, <2>0, <2>2, DeliveredTyped DEF ResumeStarts
    <3>2. resume' \in [Resumer -> ResumeType]
      BY <2>0, <2>2 DEF ResumeStarts
    <3> QED
      BY <1>0, <2>2, <3>1, <3>2 DEF ResumeStarts, TypeOK, State
  <2>3. ASSUME ParkResumed(r)
        PROVE  /\ task' \in State /\ owner' \in 0..MaxClicks
               /\ resume' \in [Resumer -> ResumeType] /\ slot' \in SomeOrNone
    BY <1>0, <2>0, <2>3, ConstantsOK DEF ParkResumed, TypeOK, State
  <2>4. CASE ResumeFails(r)
    BY <1>0, <2>3, <2>4 DEF ResumeFails, TypeOK
  <2>5. ASSUME NEW ok \in BOOLEAN, ResumeEnds(r, ok) PROVE TypeOK'
    <3>1. row' \in [Instruction -> RowType]
      BY <1>0, <2>0, <2>5, ToTyped DEF ResumeEnds
    <3> QED
      BY <2>3, <2>5, <3>1 DEF ResumeEnds, TypeOK
  <2> QED
    BY <1>5, <2>1, <2>2, <2>4, <2>5
<1>6. ASSUME NEW i \in Interrupt, Stopped(i) PROVE TypeOK'
  <2>1. row' \in [Instruction -> RowType]
    BY <1>0, <1>6, ToTyped DEF Stopped, stopped, TypeOK
  <2> QED
    BY <1>6, <2>1 DEF Stopped, stopped, TypeOK
<1> QED
  BY <1>1, <1>2, <1>3, <1>4, <1>5, <1>6 DEF ResumeStep

TypeInv == TypeOK /\ RoundOK

LEMMA TypeInvStep ==
  ASSUME TypeInv, [Next]_vars
  PROVE  TypeInv'
<1> USE DEF TypeInv
<1>1. TypeOK'
  <2>1. CASE UNCHANGED vars
    BY <2>1 DEF TypeOK, vars, agents, resumes, commands, bounds
  <2> QED
    BY <2>1, CommandTyped, ReviewTyped, DecisionTyped, FixTyped, RestTyped DEF Next, LaneStep
<1>2. RoundOK'
  <2> USE DEF RoundOK, FixPlace, agents, resumes, commands, bounds
  <2>0. AtRest.pc = "idle" /\ AtRest \in LaneType
    BY ConstantsTyped
  <2>1. CASE UNCHANGED lane
    BY <2>1
  <2>2. CASE Claim \/ Kick \/ ReviewerStarts \/ ReviewerFails \/ Recover \/ ReadLate \/ Unwind \/ Boot
    <3>1. CASE Claim \/ Unwind \/ Boot
      BY <2>0, <3>1 DEF Claim, Unwind, unwind, Boot, LaneType
    <3>2. CASE Kick \/ ReviewerStarts \/ ReviewerFails
      BY <3>2 DEF Kick, Move, ReviewerStarts, ReviewerFails, TypeOK, LaneType
    <3>3. CASE Recover \/ ReadLate
      BY <3>3 DEF Recover, recover, ReadLate, TypeOK, LaneType
    <3> QED
      BY <2>2, <3>1, <3>2, <3>3
  <2>3. CASE StartFix
    BY <2>0, <2>3 DEF StartFix, HandsBack, LaneType
  <2>4. CASE End
    BY <2>0, <2>4 DEF End, LaneType
  <2>5. CASE FixStarts \/ DrainStarts
    BY <2>5 DEF FixStarts, DrainStarts, Move, TypeOK, LaneType
  <2>6. CASE FixStops
    <3>1. End \/ lane' = [AtRest EXCEPT !.pc = "launch", !.tok = lane.tok, !.round = lane.round + 1]
      BY <2>6 DEF FixStops
    <3> QED
      BY <2>0, <2>4, <3>1 DEF LaneType
  <2>7. ASSUME NEW rows, NEW ok, lane.pc \in FixPlace, Boundary(rows, ok) PROVE RoundOK'
    BY <2>7 DEF Boundary, Finish, TypeOK, LaneType
  <2>8. ASSUME NEW v, NEW S, Answers(v, S) PROVE RoundOK'
    BY <2>8 DEF Answers, Ends, TypeOK, LaneType
  <2>9. ASSUME NEW v, Breaks(v) PROVE RoundOK'
    BY <2>9 DEF Breaks, breaks, Ends, TypeOK, LaneType
  <2>10. ASSUME NEW ok, FixEnds(ok) \/ DrainEnds(ok) PROVE RoundOK'
    BY <2>7, <2>10 DEF FixEnds, DrainEnds
  <2>11. CASE Command
    BY <2>1, <2>2, <2>11 DEF Command, Resume, Settle, AppendTo, Supersede, TooLate
  <2>12. CASE LaneStep
    BY <2>2, <2>3, <2>4, <2>5, <2>6, <2>8, <2>9, <2>10, <2>12
    DEF LaneStep, DropVerdict, FixBlocked, fixBlocked, Finalize, FixAborts
  <2>13. CASE ResumeStep \/ FixRelaunches \/ HandleDrops \/ Settled \/ \E i \in Interrupt : Stopped(i)
    BY <2>1, <2>13 DEF ResumeStep, ResumeReads, ResumeStarts, ResumeFails, ResumeEnds, FixRelaunches,
       HandleDrops, Settled, Stopped, stopped
  <2>14. CASE UNCHANGED vars
    BY <2>1, <2>14 DEF vars
  <2> QED
    BY <2>2, <2>11, <2>12, <2>13, <2>14 DEF Next
<1> QED
  BY <1>1, <1>2

LEMMA TypeInvInit ==
  ASSUME Init
  PROVE  TypeInv
<1>1. row \in [Instruction -> RowType] /\ lane \in LaneType /\ lane.pc = "idle"
  BY ConstantsTyped DEF Init
<1>2. TypeOK
  <2>1. claims \in 0..MaxClicks /\ owner \in 0..MaxClicks /\ accepted \in 0..MaxClicks
    BY ConstantsOK DEF Init
  <2>2. boots \in 0..MaxFaults /\ relaunches \in 0..MaxFaults /\ settles \in 0..MaxClicks
    BY ConstantsOK DEF Init
  <2>3. /\ task \in State /\ reviewer \in Run \cup {NoRun} /\ live \in Run \cup {NoRun}
        /\ sched \in BOOLEAN /\ stopping \subseteq Interrupt
        /\ resuming \in Resumer \cup {Nobody} /\ slot \in Resumer \cup {Nobody}
    BY DEF Init, State
  <2>4. resume \in [Resumer -> [pc : {"idle", "pick", "start", "run"}, rows : SUBSET Instruction]] /\ settling \in {"none"} \cup Terminal
    BY DEF Init, NoResume, AllRest
  <2> QED
    BY <1>1, <2>1, <2>2, <2>3, <2>4 DEF TypeOK
<1>3. RoundOK
  BY <1>1 DEF RoundOK, FixPlace
<1> QED
  BY <1>2, <1>3 DEF TypeInv

(* Every variable stays in its type (threads.state, the episode row, the   *)
(* review_injections rows, the lane and its bounds), whatever the numbers  *)
(* of instructions, rounds, recoveries and faults.                         *)
THEOREM TypeCorrect == Spec => []TypeOK
<1>1. Spec => []TypeInv
  BY TypeInvInit, TypeInvStep, PTL DEF Spec
<1> QED
  BY <1>1, PTL DEF TypeInv

-----------------------------------------------------------------------------
(* An episode has its lane.  A cancelled task has none, the end of a round *)
(* that failed has given its episode up, and no lane of an accepted        *)
(* episode goes on.                                                        *)
LaneOK ==
  /\ NoOrphanEpisode
  /\ Cancelled => owner = 0
  /\ lane.pc = "fixstop" /\ lane.verdict # "fixed" => owner = 0
  /\ Running => accepted = 0

(* What a step may do to the lane: leave it, go on, or end it. *)
Leaves ==
  /\ UNCHANGED <<lane, accepted>> /\ owner' \in {owner, 0}
  /\ task' = "cancelled" => task = "cancelled" \/ owner' = 0
GoesOnIn ==
  /\ Running /\ UNCHANGED <<owner, accepted>> /\ lane'.tok = lane.tok
  /\ lane'.pc \notin {"idle", "unwound", "fixstop"}
  /\ task' = "cancelled" => task = "cancelled"
Closes == lane'.pc \in {"idle", "unwound"} /\ owner' = 0

LEMMA LaneShapes ==
  ASSUME LaneOK, Leaves \/ GoesOnIn \/ Closes
  PROVE  LaneOK'
<1> USE DEF LaneOK, NoOrphanEpisode, Cancelled, Running
<1>1. CASE Leaves
  BY <1>1 DEF Leaves
<1>2. CASE GoesOnIn
  BY <1>2 DEF GoesOnIn
<1>3. CASE Closes
  BY <1>3 DEF Closes
<1> QED
  BY <1>1, <1>2, <1>3

LEMMA EndCloses ==
  ASSUME TypeOK, LaneOK, End, Park \/ Accept \/ (owner # lane.tok /\ owner' = owner) \/ (owner = 0 /\ owner' = owner)
  PROVE  Closes
<1>1. lane'.pc = "unwound"
  BY ConstantsTyped DEF End, LaneType
<1>2. owner = 0 \/ owner = lane.tok
  BY DEF LaneOK, NoOrphanEpisode
<1>3. owner' = 0
  BY <1>2 DEF Park, Accept
<1> QED
  BY <1>1, <1>3 DEF Closes

LEMMA ReviewShapes ==
  ASSUME TypeOK,
         \/ Kick \/ ReviewerStarts \/ ReviewerFails
         \/ \E v \in Verdict : \E S \in SUBSET Pending(row) : Answers(v, S)
         \/ \E v \in NoVerdict : Breaks(v)
         \/ Recover \/ ReadLate
  PROVE  GoesOnIn
<1> USE DEF GoesOnIn, Running, TypeOK, LaneType
<1>1. CASE Kick \/ ReviewerStarts \/ ReviewerFails
  BY <1>1 DEF Kick, Move, ReviewerStarts, ReviewerFails
<1>2. ASSUME NEW v, NEW S, Answers(v, S) PROVE GoesOnIn
  BY <1>2 DEF Answers, Ends
<1>3. ASSUME NEW v, Breaks(v) PROVE GoesOnIn
  BY <1>3 DEF Breaks, breaks, Ends
<1>4. CASE Recover \/ ReadLate
  BY <1>4 DEF Recover, recover, ReadLate, AtGap
<1> QED
  BY <1>1, <1>2, <1>3, <1>4

LEMMA DecisionShapes ==
  ASSUME TypeOK, LaneOK, DropVerdict \/ StartFix \/ FixBlocked \/ Finalize
  PROVE  GoesOnIn \/ Closes
<1>1. CASE DropVerdict
  BY <1>1, EndCloses DEF DropVerdict
<1>2. CASE StartFix
  <2>1. lane.pc = "gap" /\ UNCHANGED <<owner, accepted, task>>
    BY <1>2 DEF StartFix, GoesOn, goesOn, Decides, AtGap
  <2>2. lane'.tok = lane.tok /\ lane'.pc = "fixstart"
    BY <1>2, ConstantsTyped DEF StartFix, LaneType
  <2> QED
    BY <2>1, <2>2 DEF GoesOnIn, Running
<1>3. CASE FixBlocked
  BY <1>3, EndCloses DEF FixBlocked, fixBlocked
<1>4. CASE Finalize
  <2>1. End /\ (Park \/ Accept \/ ((Cancelled \/ owner # lane.tok) /\ owner' = owner))
    BY <1>4 DEF Finalize
  <2>2. Cancelled => owner = 0
    BY DEF LaneOK
  <2> QED
    BY <2>1, <2>2, EndCloses
<1> QED
  BY <1>1, <1>2, <1>3, <1>4

LEMMA FixShapes ==
  ASSUME TypeOK, LaneOK,
         FixStarts \/ FixAborts \/ DrainStarts \/ FixStops \/ FixRelaunches
  PROVE  GoesOnIn \/ Closes \/ Leaves
<1>1. CASE FixStarts \/ DrainStarts
  BY <1>1 DEF FixStarts, DrainStarts, Move, GoesOnIn, Running, TypeOK, LaneType
<1>2. CASE FixAborts
  <2>1. End /\ (Park \/ (Cancelled /\ owner' = owner))
    BY <1>2 DEF FixAborts
  <2> QED
    BY <2>1, EndCloses DEF LaneOK
<1>3. CASE FixRelaunches
  BY <1>3 DEF FixRelaunches, Leaves
<1>4. CASE FixStops
  <2>1. CASE lane.verdict # "fixed" \/ Cancelled
    <3>1. End /\ owner' = owner /\ lane.pc = "fixstop"
      BY <1>4, <2>1 DEF FixStops
    <3>2. owner = 0
      BY <2>1, <3>1 DEF LaneOK
    <3> QED
      BY <3>1, <3>2, EndCloses
  <2>2. CASE ~(lane.verdict # "fixed" \/ Cancelled)
    <3>1. \/ Park /\ End
          \/ /\ lane' = [AtRest EXCEPT !.pc = "launch", !.tok = lane.tok, !.round = lane.round + 1]
             /\ UNCHANGED <<task, owner>>
      BY <1>4, <2>2 DEF FixStops
    <3>2. lane.pc = "fixstop" /\ UNCHANGED accepted
      BY <1>4 DEF FixStops
    <3> QED
      BY <3>1, <3>2, EndCloses, ConstantsTyped DEF GoesOnIn, Running, LaneType
  <2> QED
    BY <2>1, <2>2
<1> QED
  BY <1>1, <1>2, <1>3, <1>4

(* The end of a round gives the episode up unless the round did well. *)
LEMMA BoundaryKeepsLane ==
  ASSUME TypeOK, LaneOK, NEW rows, NEW ok \in BOOLEAN, Boundary(rows, ok), UNCHANGED accepted, Running
  PROVE  LaneOK'
<1>1. CASE Finish(rows, ok)
  <2>1. /\ lane'.tok = lane.tok /\ lane'.pc = "fixstop"
        /\ lane'.verdict = IF ok /\ ~Cancelled THEN "fixed" ELSE "error"
    BY <1>1 DEF Finish, TypeOK, LaneType
  <2>2. /\ owner' \in {owner, 0} /\ (Cancelled => owner' = owner)
        /\ ~ok /\ ~Cancelled => owner' = IF owner = lane.tok THEN 0 ELSE owner
        /\ task' = "cancelled" => Cancelled
    BY <1>1 DEF Finish, Cancelled
  <2>3. owner = 0 \/ owner = lane.tok
    BY DEF LaneOK, NoOrphanEpisode
  <2> QED
    BY <2>1, <2>2, <2>3 DEF LaneOK, NoOrphanEpisode, Running, Cancelled
<1>2. CASE ~Finish(rows, ok)
  <2>1. GoesOnIn
    BY <1>2 DEF Boundary, GoesOnIn, TypeOK, LaneType
  <2> QED
    BY <2>1, LaneShapes
<1> QED
  BY <1>1, <1>2

LEMMA LaneKept ==
  ASSUME TypeInv, LaneOK, [Next]_vars
  PROVE  LaneOK'
<1> USE DEF agents, resumes, commands, bounds, TypeInv
<1>1. CASE Claim
  <2>1. lane'.pc = "claim" /\ lane'.tok = claims + 1
    BY <1>1, ConstantsTyped DEF Claim, LaneType
  <2>2. owner' = claims + 1 /\ accepted' = 0 /\ task' = "reviewing"
    BY <1>1 DEF Claim
  <2> QED
    BY <2>1, <2>2 DEF LaneOK, NoOrphanEpisode, Running, Cancelled
<1>2. CASE Resume \/ \E i \in Append : AppendTo(i)
  <2>1. Leaves
    BY <1>2 DEF Resume, BeginResume, AppendTo, Leaves
  <2> QED
    BY <2>1, LaneShapes
<1>3. ASSUME NEW i \in Instruction, Supersede(i) \/ TooLate(i) PROVE LaneOK'
  <2>1. Leaves
    BY <1>3 DEF Supersede, BeginResume, TooLate, Leaves
  <2> QED
    BY <2>1, LaneShapes
<1>4. ASSUME NEW to, Settle(to) PROVE LaneOK'
  <2>1. Leaves
    BY <1>4 DEF Settle, Leaves
  <2> QED
    BY <2>1, LaneShapes
<1>5. CASE LaneStep
  <2>1. ASSUME Unwind PROVE LaneOK'
    <3>1. lane'.pc = "idle" /\ lane.pc = "unwound" /\ owner' = owner
      BY <2>1, ConstantsTyped DEF Unwind, unwind
    <3>2. Closes
      BY <3>1 DEF Closes, LaneOK, NoOrphanEpisode, Running
    <3> QED
      BY <3>2, LaneShapes
  <2>2. ASSUME NEW ok \in BOOLEAN, FixEnds(ok) \/ DrainEnds(ok) PROVE LaneOK'
    <3>1. PICK rows : Boundary(rows, ok)
      BY <2>2 DEF FixEnds, DrainEnds
    <3>2. UNCHANGED accepted /\ Running
      BY <2>2 DEF FixEnds, DrainEnds, Running
    <3> QED
      BY <3>1, <3>2, BoundaryKeepsLane
  <2> QED
    BY <1>5, <2>1, <2>2, LaneShapes, ReviewShapes, DecisionShapes, FixShapes DEF LaneStep
<1>6. CASE ResumeStep
  <2>1. Leaves
    BY <1>6 DEF ResumeStep, ResumeReads, ResumeStarts, ResumeFails, ResumeEnds, ParkResumed, Leaves
  <2> QED
    BY <2>1, LaneShapes
<1>7. CASE FixRelaunches
  BY <1>7, LaneShapes, FixShapes
<1>8. CASE HandleDrops \/ Settled \/ \E i \in Interrupt : Stopped(i)
  <2>1. Leaves
    BY <1>8 DEF HandleDrops, Settled, Stopped, stopped, Leaves
  <2> QED
    BY <2>1, LaneShapes
<1>9. CASE Boot
  <2>1. Closes
    BY <1>9, ConstantsTyped DEF Boot, Closes
  <2> QED
    BY <2>1, LaneShapes
<1>10. CASE UNCHANGED vars
  <2>1. Leaves
    BY <1>10 DEF vars, Leaves
  <2> QED
    BY <2>1, LaneShapes
<1> QED
  BY <1>1, <1>2, <1>3, <1>4, <1>5, <1>6, <1>7, <1>8, <1>9, <1>10 DEF Next, Command, Instruction

(* No running episode is left without a lane that will settle it, so none  *)
(* refuses each later Resume and Auto-review (runAutoReview: "every exit   *)
(* puts it back in 'review' or moves it to 'done'").                       *)
THEOREM EpisodeHasLane == Spec => []NoOrphanEpisode
<1>1. Init => LaneOK
  BY DEF Init, LaneOK, NoOrphanEpisode, Cancelled
<1>2. Spec => [](TypeInv /\ LaneOK)
  BY <1>1, TypeInvInit, TypeInvStep, LaneKept, PTL DEF Spec
<1> QED
  BY <1>2, PTL DEF LaneOK

-----------------------------------------------------------------------------
(* The steps of a lane that is not over. *)
Turn ==
  \/ Kick \/ ReviewerStarts \/ ReviewerFails
  \/ \E v \in Verdict : \E S \in SUBSET Pending(row) : Answers(v, S)
  \/ \E v \in NoVerdict : Breaks(v)
  \/ Recover \/ ReadLate
FixRound ==
  \/ FixStarts \/ FixAborts \/ DrainStarts \/ FixStops \/ FixRelaunches
  \/ \E ok \in BOOLEAN : FixEnds(ok) \/ DrainEnds(ok)

Freed == resuming' \in {resuming, Nobody} /\ slot' \in {slot, Nobody}

LEMMA LaneStepsRun ==
  /\ Turn => Running /\ UNCHANGED <<accepted, task, owner>> /\ Freed
  /\ DropVerdict \/ StartFix \/ FixBlocked => Running /\ UNCHANGED accepted /\ lane.pc = "gap" /\ Freed
  /\ Finalize => Running /\ lane.pc = "gap" /\ Freed
  /\ FixRound => Running /\ UNCHANGED accepted /\ lane.pc \in FixPlace /\ Freed
<1> USE DEF Running, Freed, resumes
<1>1. Turn => Running /\ UNCHANGED <<accepted, task, owner>> /\ Freed
  BY DEF Turn, Kick, ReviewerStarts, ReviewerFails, Answers, Breaks, breaks, Recover, recover, ReadLate, AtGap
<1>2. DropVerdict \/ StartFix \/ FixBlocked => Running /\ UNCHANGED accepted /\ lane.pc = "gap" /\ Freed
  BY DEF DropVerdict, StartFix, FixBlocked, fixBlocked, GoesOn, goesOn, Decides, AtGap, End
<1>3. Finalize => Running /\ lane.pc = "gap" /\ Freed
  BY DEF Finalize, GoesOn, goesOn, Decides, AtGap, End
<1>4. FixRound => Running /\ UNCHANGED accepted /\ lane.pc \in FixPlace /\ Freed
  BY DEF FixRound, FixStarts, FixAborts, DrainStarts, FixStops, FixRelaunches, FixEnds, DrainEnds, FixPlace, End
<1> QED
  BY <1>1, <1>2, <1>3, <1>4

(* No step of a lane but its claim starts an episode. *)
LEMMA OwnerGoes ==
  ASSUME DropVerdict \/ StartFix \/ FixBlocked \/ Finalize \/ FixRound
  PROVE  owner' \in {owner, 0}
<1>1. CASE DropVerdict \/ StartFix \/ FixBlocked \/ Finalize
  BY <1>1 DEF DropVerdict, StartFix, FixBlocked, fixBlocked, Finalize, Park, Accept
<1>2. CASE FixStarts \/ FixAborts \/ DrainStarts \/ FixStops \/ FixRelaunches
  BY <1>2 DEF FixStarts, FixAborts, DrainStarts, FixStops, FixRelaunches, Park
<1>3. ASSUME NEW ok, FixEnds(ok) \/ DrainEnds(ok) PROVE owner' \in {owner, 0}
  <2>1. PICK rows : Boundary(rows, ok)
    BY <1>3 DEF FixEnds, DrainEnds
  <2> QED
    BY <2>1 DEF Boundary, Finish
<1> QED
  BY <1>1, <1>2, <1>3 DEF FixRound

LEMMA ParkedHasNoLane ==
  ASSUME task = "review", ~Owned
  PROVE  ~Running
BY DEF Owned, Cancelled

-----------------------------------------------------------------------------
(* No row, lane or episode carries a token that was not claimed yet. *)
TokensOK ==
  /\ owner <= claims /\ lane.tok <= claims
  /\ \A i \in Instruction : row[i].tok <= claims

Known(i) == {row[i].tok, owner, lane.tok, 0}
Tokens(rows) == \A i \in Instruction : rows[i].tok \in Known(i)

LEMMA TokensKeptBy ==
  ASSUME NEW rows \in [Instruction -> RowType], Tokens(rows), NEW S, NEW st, NEW r
  PROVE  /\ Tokens(To(rows, S, st)) /\ Tokens(Delivered(rows, S, st, r))
         /\ Tokens(Acknowledged(rows, S)) /\ Tokens(Implemented(rows, S))
         /\ Tokens(Renewed(rows, S, owner)) /\ Tokens(Renewed(rows, S, lane.tok))
<1>1. \A i \in Instruction :
        /\ To(rows, S, st)[i].tok = rows[i].tok /\ Delivered(rows, S, st, r)[i].tok = rows[i].tok
        /\ Acknowledged(rows, S)[i].tok = rows[i].tok /\ Implemented(rows, S)[i].tok = rows[i].tok
  BY DEF To, Delivered, Acknowledged, Implemented, RowType
<1>2. \A i \in Instruction :
        /\ Renewed(rows, S, owner)[i].tok \in {rows[i].tok, owner}
        /\ Renewed(rows, S, lane.tok)[i].tok \in {rows[i].tok, lane.tok}
  BY DEF Renewed, RowType
<1> QED
  BY <1>1, <1>2 DEF Tokens, Known

LEMMA HandedOverTokens ==
  ASSUME NEW rows \in [Instruction -> RowType], Tokens(rows)
  PROVE  Tokens(HandedOver(rows))
<1>1. {"queued", "handled"} \subseteq Status
  BY DEF Status, OpenStatus, Dropped
<1> DEFINE S == Superseding(rows)
<1>2. To(rows, S, "queued") \in [Instruction -> RowType] /\ Tokens(To(rows, S, "queued"))
  BY <1>1, ToTyped, TokensKeptBy
<1>3. Tokens(To(To(rows, S, "queued"), Done(rows, S), "handled"))
  BY <1>2, TokensKeptBy
<1> QED
  BY <1>3 DEF HandedOver

LEMMA TokensMove ==
  ASSUME TypeOK, TokensOK, UNCHANGED claims, owner' \in {owner, 0}, lane'.tok \in {lane.tok, 0}, Tokens(row')
  PROVE  TokensOK'
<1>1. claims \in Nat
  BY DEF TypeOK
<1>2. \A i \in Instruction : row'[i].tok <= claims
  BY <1>1 DEF Tokens, Known, TokensOK
<1> QED
  BY <1>1, <1>2 DEF TokensOK

(* The lane's own steps. *)
LEMMA TurnTokens ==
  ASSUME TypeOK, TokensOK, Turn
  PROVE  TokensOK'
<1> USE DEF TypeOK, LaneType
<1>0. row \in [Instruction -> RowType] /\ Tokens(row)
  BY DEF Tokens, Known
<1>1. UNCHANGED <<claims, owner>>
  BY DEF Turn, Kick, ReviewerStarts, ReviewerFails, Answers, Breaks, breaks, Recover, recover, ReadLate
<1>2. lane'.tok = lane.tok
  BY ReviewShapes DEF Turn, GoesOnIn
<1>3. CASE Kick
  BY <1>0, <1>1, <1>2, <1>3, TokensKeptBy, TokensMove DEF Kick
<1>4. CASE ReviewerStarts
  BY <1>0, <1>1, <1>2, <1>4, TokensKeptBy, TokensMove DEF ReviewerStarts
<1>5. CASE ReviewerFails \/ Recover \/ ReadLate
  BY <1>0, <1>1, <1>2, <1>5, TokensMove DEF ReviewerFails, Recover, recover, ReadLate
<1>6. ASSUME NEW v, NEW S, Answers(v, S) PROVE TokensOK'
  <2>1. Acknowledged(row, S) \in [Instruction -> RowType] /\ Tokens(Acknowledged(row, S))
    BY <1>0, AcknowledgedTyped, TokensKeptBy
  <2>2. Tokens(To(Acknowledged(row, S), Pending(row) \ S, "failed"))
    BY <2>1, TokensKeptBy
  <2> QED
    BY <1>1, <1>2, <1>6, <2>1, <2>2, TokensMove DEF Answers
<1>7. ASSUME NEW v, Breaks(v) PROVE TokensOK'
  BY <1>0, <1>1, <1>2, <1>7, TokensKeptBy, TokensMove DEF Breaks, breaks
<1> QED
  BY <1>3, <1>4, <1>5, <1>6, <1>7 DEF Turn

LEMMA DecisionTokens ==
  ASSUME TypeOK, TokensOK, DropVerdict \/ StartFix \/ FixBlocked \/ Finalize
  PROVE  TokensOK'
<1>0. row \in [Instruction -> RowType] /\ Tokens(row)
  BY DEF TypeOK, Tokens, Known
<1> DEFINE rows == HandedOver(Drained)
<1>1. rows \in [Instruction -> RowType] /\ Tokens(rows)
  <2>1. Tokens(Drained)
    BY <1>0, TokensKeptBy DEF Drained
  <2> QED
    BY <2>1, DrainedTyped, HandedOverTokens
<1>2. \E S, D : row' \in {rows, To(rows, S, "failed"), To(rows, S, "queued"), To(rows, S, "handled"),
                          To(To(rows, S, "queued"), D, "handled")}
  <2>1. CASE DropVerdict \/ FixBlocked
    BY <2>1 DEF DropVerdict, FixBlocked, fixBlocked
  <2>2. CASE StartFix
    BY <2>2 DEF StartFix
  <2>3. CASE Finalize
    BY <2>3 DEF Finalize
  <2> QED
    BY <2>1, <2>2, <2>3
<1> HIDE DEF rows
<1>3. Tokens(row')
  <2>0. "queued" \in Status
    BY DEF Status, OpenStatus, Dropped
  <2>1. \A S : /\ Tokens(To(rows, S, "failed")) /\ Tokens(To(rows, S, "queued"))
               /\ Tokens(To(rows, S, "handled")) /\ To(rows, S, "queued") \in [Instruction -> RowType]
    BY <1>1, <2>0, TokensKeptBy, ToTyped
  <2>2. \A S, D : Tokens(To(To(rows, S, "queued"), D, "handled"))
    BY <2>1, TokensKeptBy
  <2> QED
    BY <1>1, <1>2, <2>1, <2>2
<1>4. UNCHANGED claims /\ (End \/ StartFix)
  BY DEF DropVerdict, StartFix, FixBlocked, fixBlocked, Finalize
<1>5. lane'.tok \in {lane.tok, 0}
  BY <1>4, ConstantsTyped DEF End, StartFix, LaneType, AtRest
<1> QED
  BY <1>3, <1>4, <1>5, OwnerGoes, TokensMove

LEMMA FixTokens ==
  ASSUME TypeOK, TokensOK, FixRound
  PROVE  TokensOK'
<1>0. row \in [Instruction -> RowType] /\ Tokens(row) /\ lane \in LaneType
  BY DEF TypeOK, Tokens, Known
<1>1. UNCHANGED claims /\ owner' \in {owner, 0}
  BY OwnerGoes DEF FixRound, FixStarts, FixAborts, DrainStarts, FixStops, FixRelaunches, FixEnds, DrainEnds
<1>2. ASSUME NEW rows \in [Instruction -> RowType], Tokens(rows), NEW ok, Boundary(rows, ok) PROVE TokensOK'
  <2>1. lane'.tok = lane.tok
    BY <1>0, <1>2 DEF Boundary, Finish, LaneType
  <2>2. \E S : row' \in {rows, Implemented(rows, S), To(rows, S, "failed")}
    BY <1>2 DEF Boundary, Finish
  <2>3. Tokens(row')
    BY <1>2, <2>2, TokensKeptBy
  <2> QED
    BY <1>1, <2>1, <2>3, TokensMove
<1>3. CASE FixStarts \/ DrainStarts
  <2>1. \E S : row' = Delivered(row, S, "implementor", Fresh)
    BY <1>3 DEF FixStarts, DrainStarts
  <2>2. lane'.tok = lane.tok
    BY <1>0, <1>3 DEF FixStarts, DrainStarts, Move, LaneType
  <2> QED
    BY <1>0, <1>1, <2>1, <2>2, TokensKeptBy, TokensMove
<1>4. CASE FixAborts \/ FixRelaunches
  <2>1. row' = row /\ (End \/ lane' = lane)
    BY <1>4 DEF FixAborts, FixRelaunches
  <2>2. lane'.tok \in {lane.tok, 0}
    BY <2>1, ConstantsTyped DEF End, AtRest, LaneType
  <2> QED
    BY <1>0, <1>1, <2>1, <2>2, TokensMove
<1>5. CASE FixStops
  <2>1. row' \in {row, HandedOver(row)}
    BY <1>5 DEF FixStops
  <2>2. End \/ lane' = [AtRest EXCEPT !.pc = "launch", !.tok = lane.tok, !.round = lane.round + 1]
    BY <1>5 DEF FixStops
  <2>3. lane'.tok \in {lane.tok, 0}
    BY <2>2, ConstantsTyped DEF End, AtRest, LaneType
  <2> QED
    BY <1>0, <1>1, <2>1, <2>3, HandedOverTokens, TokensMove
<1>6. ASSUME NEW ok \in BOOLEAN, FixEnds(ok) PROVE TokensOK'
  BY <1>0, <1>2, <1>6 DEF FixEnds
<1>7. ASSUME NEW ok \in BOOLEAN, DrainEnds(ok) PROVE TokensOK'
  <2> DEFINE rows == To(row, lane.rows, IF ok THEN "handled" ELSE "failed")
  <2>1. rows \in [Instruction -> RowType] /\ Tokens(rows)
    BY <1>0, ToTyped, TokensKeptBy DEF Status, Dropped
  <2>2. Boundary(rows, ok)
    BY <1>7 DEF DrainEnds
  <2> QED
    BY <1>2, <2>1, <2>2
<1> QED
  BY <1>3, <1>4, <1>5, <1>6, <1>7 DEF FixRound

LEMMA TokensKept ==
  ASSUME TypeInv, TokensOK, [Next]_vars
  PROVE  TokensOK'
<1> USE DEF agents, resumes, commands, bounds
<1>0. TypeOK /\ row \in [Instruction -> RowType] /\ Tokens(row)
  BY DEF TypeInv, TypeOK, Tokens, Known
<1>1. CASE Claim
  <2>1. claims \in Nat /\ claims' = claims + 1 /\ owner' = claims + 1 /\ row' = row
    BY <1>0, <1>1 DEF Claim, TypeOK
  <2>2. lane'.tok = claims + 1
    BY <1>1, ConstantsTyped DEF Claim, LaneType
  <2>3. \A i \in Instruction : row[i].tok \in Nat
    BY <1>0 DEF RowType
  <2> QED
    BY <2>1, <2>2, <2>3 DEF TokensOK
<1>2. ASSUME NEW i \in Instruction, AppendTo(i) \/ Supersede(i) \/ TooLate(i) PROVE TokensOK'
  <2>1. \E st, r : \E tok \in {owner, 0} : row' = [row EXCEPT ![i] = NewRow(st, tok, r)]
    BY <1>2, Zenon DEF AppendTo, Supersede, TooLate
  <2>2. Tokens(row')
    BY <1>0, <2>1 DEF Tokens, Known, NewRow
  <2>3. UNCHANGED <<claims, owner, lane>>
    BY <1>2, Zenon DEF AppendTo, Supersede, TooLate
  <2> QED
    BY <1>0, <2>2, <2>3, TokensMove
<1>3. CASE Resume \/ HandleDrops \/ UNCHANGED vars \/ \E to \in Terminal : Settle(to)
  <2>1. UNCHANGED <<claims, owner, lane, row>>
    BY <1>3 DEF Resume, HandleDrops, vars, Settle
  <2> QED
    BY <1>0, <2>1, TokensMove
<1>4. CASE Settled \/ \E i \in Interrupt : Stopped(i)
  <2>1. UNCHANGED <<claims, lane>> /\ owner' \in {owner, 0} /\ \E S : row' \in {row, To(row, S, "failed")}
    BY <1>4 DEF Settled, Stopped, stopped
  <2> QED
    BY <1>0, <2>1, TokensKeptBy, TokensMove
<1>5. CASE Unwind
  <2>1. UNCHANGED <<claims, owner>> /\ lane'.tok = 0
    BY <1>5 DEF Unwind, unwind, AtRest
  <2>2. \E S : row' \in {row, To(row, S, "failed"), Delivered(row, S, "implementor", live)}
    BY <1>5 DEF Unwind, unwind
  <2> QED
    BY <1>0, <2>1, <2>2, TokensKeptBy, TokensMove
<1>6. CASE ResumeStep
  <2>1. /\ UNCHANGED <<claims, lane>> /\ owner' \in {owner, 0}
        /\ \E S : row' \in {row, To(row, S, "handled"), To(row, S, "failed"), Delivered(row, S, "implementor", Fresh)}
    BY <1>6 DEF ResumeStep, ResumeReads, ResumeStarts, ResumeFails, ResumeEnds, ParkResumed
  <2> QED
    BY <1>0, <2>1, TokensKeptBy, TokensMove
<1>7. CASE Boot
  <2> DEFINE queued == To(row, Open(row), "queued")
  <2>1. queued \in [Instruction -> RowType] /\ Tokens(queued)
    BY <1>0, ToTyped, TokensKeptBy DEF Status, OpenStatus, Dropped
  <2> HIDE DEF queued
  <2>2. \E S : row' = To(queued, S, "handled")
    BY <1>7 DEF Boot, queued
  <2>3. UNCHANGED claims /\ owner' = 0 /\ lane'.tok = 0
    BY <1>7 DEF Boot, AtRest
  <2> QED
    BY <1>0, <2>1, <2>2, <2>3, TokensKeptBy, TokensMove
<1>8. Command => TokensOK'
  BY <1>1, <1>2, <1>3 DEF Command, Instruction
<1>9. LaneStep \/ FixRelaunches => TokensOK'
  BY <1>0, <1>5, TurnTokens, DecisionTokens, FixTokens DEF LaneStep, Turn, FixRound
<1> QED
  BY <1>3, <1>4, <1>6, <1>7, <1>8, <1>9 DEF Next

-----------------------------------------------------------------------------
(* A live reviewer is the lane's turn.  The rows of the running episode    *)
(* that a reviewer has are unread ones of that turn; a row that a reviewer *)
(* got under no episode is there only while none runs, so that no row      *)
(* falls back to a reviewer when an episode is abandoned in its turn.      *)
ReadingOK ==
  /\ reviewer # NoRun => lane.pc = "turn" /\ lane.run = reviewer
  /\ \A i \in Instruction : row[i].st = "reviewer" =>
       /\ row[i].tok = owner => lane.pc = "turn" /\ row[i].run = lane.run /\ ~row[i].ack
       /\ row[i].tok = 0 => owner = 0

Unclaimed(rows) == \A i \in Instruction : rows[i].st = "reviewer" => rows[i].tok \notin {0, owner}

LEMMA ToFields ==
  ASSUME NEW rows \in [Instruction -> RowType], NEW S, NEW st, NEW i \in Instruction
  PROVE  /\ To(rows, S, st)[i].st = IF i \in S THEN st ELSE rows[i].st
         /\ To(rows, S, st)[i].tok = rows[i].tok
BY DEF To, RowType

LEMMA DeliveredFields ==
  ASSUME NEW rows \in [Instruction -> RowType], NEW S, NEW st, NEW r, NEW i \in Instruction
  PROVE  /\ Delivered(rows, S, st, r)[i].st = IF i \in S THEN st ELSE rows[i].st
         /\ Delivered(rows, S, st, r)[i].run = IF i \in S THEN r ELSE rows[i].run
         /\ Delivered(rows, S, st, r)[i].tok = rows[i].tok
         /\ Delivered(rows, S, st, r)[i].ack = rows[i].ack
BY DEF Delivered, RowType

LEMMA UnclaimedKept ==
  ASSUME NEW rows \in [Instruction -> RowType], Unclaimed(rows), NEW S, NEW r,
         NEW st \in Status \ {"reviewer"}, NEW tok
  PROVE  /\ Unclaimed(To(rows, S, st)) /\ Unclaimed(Delivered(rows, S, st, r))
         /\ Unclaimed(Implemented(rows, S)) /\ Unclaimed(Renewed(rows, S, tok))
<1>1. ASSUME NEW i \in Instruction
      PROVE  /\ i \notin S => /\ To(rows, S, st)[i] = rows[i] /\ Delivered(rows, S, st, r)[i] = rows[i]
                              /\ Implemented(rows, S)[i] = rows[i] /\ Renewed(rows, S, tok)[i] = rows[i]
             /\ i \in S => /\ To(rows, S, st)[i].st # "reviewer" /\ Delivered(rows, S, st, r)[i].st # "reviewer"
                           /\ Implemented(rows, S)[i].st # "reviewer" /\ Renewed(rows, S, tok)[i].st # "reviewer"
  BY DEF To, Delivered, Implemented, Renewed, RowType
<1> QED
  BY <1>1 DEF Unclaimed

LEMMA HandedOverUnclaimed ==
  ASSUME NEW rows \in [Instruction -> RowType], Unclaimed(rows)
  PROVE  Unclaimed(HandedOver(rows))
<1>1. {"queued", "handled"} \subseteq Status \ {"reviewer"}
  BY DEF Status, OpenStatus, Dropped
<1> DEFINE S == Superseding(rows)
<1>2. To(rows, S, "queued") \in [Instruction -> RowType] /\ Unclaimed(To(rows, S, "queued"))
  BY <1>1, ToTyped, UnclaimedKept
<1> HIDE DEF S
<1>3. Unclaimed(To(To(rows, S, "queued"), Done(rows, S), "handled"))
  BY <1>1, <1>2, UnclaimedKept
<1> QED
  BY <1>3 DEF HandedOver, S

(* Outside a turn no row of the episode is a reviewer's, and no step but   *)
(* ReviewerStarts and AppendTo makes one.                                  *)
LEMMA StaysUnclaimed ==
  ASSUME Unclaimed(row'), reviewer' = NoRun, owner' \in {owner, 0}
  PROVE  ReadingOK'
BY DEF ReadingOK, Unclaimed

LEMMA NoTurnUnclaimed ==
  ASSUME ReadingOK, lane.pc # "turn"
  PROVE  Unclaimed(row) /\ reviewer = NoRun
BY DEF ReadingOK, Unclaimed

LEMMA DecisionUnclaimed ==
  ASSUME TypeOK, ReadingOK, DropVerdict \/ StartFix \/ FixBlocked \/ Finalize
  PROVE  ReadingOK'
<1>0. {"queued", "handled", "failed"} \subseteq Status \ {"reviewer"}
  BY DEF Status, OpenStatus, Dropped
<1>1. Unclaimed(row) /\ reviewer = NoRun /\ row \in [Instruction -> RowType]
  BY NoTurnUnclaimed, LaneStepsRun DEF TypeOK
<1>2. Unclaimed(Drained)
  BY <1>0, <1>1, UnclaimedKept DEF Drained
<1> DEFINE rows == HandedOver(Drained)
<1>3. Unclaimed(rows) /\ rows \in [Instruction -> RowType]
  BY <1>2, DrainedTyped, HandedOverUnclaimed
<1>4. reviewer' = NoRun
  BY <1>1 DEF DropVerdict, StartFix, FixBlocked, fixBlocked, Finalize, End, agents
<1>5. \E S, D : row' \in {rows, To(rows, S, "failed"), To(rows, S, "queued"), To(rows, S, "handled"),
                          To(To(rows, S, "queued"), D, "handled")}
  <2>1. CASE DropVerdict \/ FixBlocked
    BY <2>1 DEF DropVerdict, FixBlocked, fixBlocked
  <2>2. CASE StartFix
    BY <2>2 DEF StartFix
  <2>3. CASE Finalize
    BY <2>3 DEF Finalize
  <2> QED
    BY <2>1, <2>2, <2>3
<1>6. Unclaimed(row')
  <2> HIDE DEF rows
  <2>1. \A S : /\ Unclaimed(To(rows, S, "failed")) /\ Unclaimed(To(rows, S, "queued"))
               /\ Unclaimed(To(rows, S, "handled")) /\ To(rows, S, "queued") \in [Instruction -> RowType]
    BY <1>0, <1>3, UnclaimedKept, ToTyped
  <2>2. \A S, D : Unclaimed(To(To(rows, S, "queued"), D, "handled"))
    BY <1>0, <2>1, UnclaimedKept
  <2> QED
    BY <1>3, <1>5, <2>1, <2>2
<1> QED
  BY <1>4, <1>6, OwnerGoes, StaysUnclaimed

LEMMA FixUnclaimed ==
  ASSUME TypeOK, ReadingOK, FixRound
  PROVE  ReadingOK'
<1>0. {"queued", "handled", "failed", "implementor"} \subseteq Status \ {"reviewer"}
  BY DEF Status, OpenStatus, Dropped
<1>1. Unclaimed(row) /\ reviewer = NoRun /\ row \in [Instruction -> RowType]
  BY NoTurnUnclaimed, LaneStepsRun DEF TypeOK, FixPlace
<1>2. reviewer' = NoRun /\ owner' \in {owner, 0}
  BY <1>1, OwnerGoes DEF FixRound, FixStarts, FixAborts, DrainStarts, FixStops, FixRelaunches, FixEnds, DrainEnds, End, agents
<1>3. ASSUME NEW rows \in [Instruction -> RowType], Unclaimed(rows), NEW ok, Boundary(rows, ok)
      PROVE  Unclaimed(row')
  <2>1. \E S : row' \in {rows, Implemented(rows, S), To(rows, S, "failed")}
    BY <1>3 DEF Boundary, Finish
  <2> QED
    BY <1>0, <1>3, <2>1, UnclaimedKept
<1>4. CASE FixStarts \/ DrainStarts
  <2>1. \E S : row' = Delivered(row, S, "implementor", Fresh)
    BY <1>4 DEF FixStarts, DrainStarts
  <2>2. Unclaimed(row')
    BY <1>0, <1>1, <2>1, UnclaimedKept
  <2> QED
    BY <1>1, <1>2, <2>2, StaysUnclaimed
<1>5. CASE FixAborts \/ FixRelaunches
  BY <1>1, <1>2, <1>5, StaysUnclaimed DEF FixAborts, FixRelaunches
<1>6. CASE FixStops
  <2>1. row' \in {row, HandedOver(row)}
    BY <1>6 DEF FixStops
  <2> QED
    BY <1>1, <1>2, <2>1, HandedOverUnclaimed, StaysUnclaimed
<1>7. ASSUME NEW ok \in BOOLEAN, FixEnds(ok) PROVE ReadingOK'
  BY <1>1, <1>2, <1>3, <1>7, StaysUnclaimed DEF FixEnds
<1>8. ASSUME NEW ok \in BOOLEAN, DrainEnds(ok) PROVE ReadingOK'
  <2> DEFINE rows == To(row, lane.rows, IF ok THEN "handled" ELSE "failed")
  <2>1. rows \in [Instruction -> RowType] /\ Unclaimed(rows)
    BY <1>0, <1>1, ToTyped, UnclaimedKept
  <2>2. Boundary(rows, ok)
    BY <1>8 DEF DrainEnds
  <2> QED
    BY <1>1, <1>2, <1>3, <2>1, <2>2, StaysUnclaimed
<1> QED
  BY <1>4, <1>5, <1>6, <1>7, <1>8 DEF FixRound

LEMMA ReviewKeepsReading ==
  ASSUME TypeOK, ReadingOK, Turn
  PROVE  ReadingOK'
<1> USE DEF TypeOK, agents
<1>0. owner' = owner
  BY LaneStepsRun
<1>1. CASE Kick
  <2>1. Unclaimed(row)
    BY <1>1, NoTurnUnclaimed DEF Kick
  <2>2. Unclaimed(row')
    <3>1. row' = Renewed(row, Open(row) \cap Append, lane.tok)
      BY <1>1 DEF Kick
    <3> QED
      BY <2>1, <3>1 DEF Unclaimed, Renewed, RowType
  <2> QED
    BY <1>0, <1>1, <2>2, StaysUnclaimed DEF Kick
<1>2. CASE ReviewerStarts
  <2>1. Unclaimed(row)
    BY <1>2, NoTurnUnclaimed DEF ReviewerStarts
  <2>2. lane'.pc = "turn" /\ lane'.run = Fresh /\ reviewer' = Fresh /\ owner' = owner
    BY <1>2 DEF ReviewerStarts, LaneType
  <2>3. ASSUME NEW i \in Instruction, row'[i].st = "reviewer"
        PROVE  /\ row'[i].tok = row[i].tok
               /\ \/ i \in Pending(row) /\ row'[i].run = Fresh /\ row'[i].ack = row[i].ack
                  \/ row[i].tok \notin {0, owner}
    BY <1>2, <2>1, <2>3, DeliveredFields DEF ReviewerStarts, Unclaimed
  <2> QED
    BY <2>2, <2>3 DEF ReadingOK, Pending
<1>3. CASE ReviewerFails \/ Recover \/ ReadLate
  <2>1. Unclaimed(row) /\ reviewer = NoRun
    BY <1>3, NoTurnUnclaimed DEF ReviewerFails, Recover, recover, ReadLate, AtGap
  <2>2. row' = row /\ reviewer' = reviewer
    BY <1>3 DEF ReviewerFails, Recover, recover, ReadLate
  <2> QED
    BY <1>0, <2>1, <2>2, StaysUnclaimed
<1>4. \A i \in Instruction : row[i].st = "reviewer" /\ row[i].tok \in {0, owner} => i \in Pending(row)
  BY DEF ReadingOK, Pending
<1>5. ASSUME NEW v, NEW S \in SUBSET Pending(row), Answers(v, S) PROVE ReadingOK'
  <2> DEFINE rows == Acknowledged(row, S)
  <2>1. rows \in [Instruction -> RowType]
    BY AcknowledgedTyped
  <2>2. ASSUME NEW i \in Instruction
        PROVE  /\ rows[i].st = "reviewer" => i \notin S
               /\ i \notin S => rows[i] = row[i]
    BY DEF Acknowledged, RowType
  <2>3. CASE Pending(row) \ S = {} /\ row' = rows /\ reviewer' = NoRun
    <3>1. Unclaimed(row')
      BY <1>4, <2>2, <2>3 DEF Unclaimed
    <3> QED
      BY <1>0, <2>3, <3>1, StaysUnclaimed
  <2>4. CASE row' = To(rows, Pending(row) \ S, "failed") /\ reviewer' = NoRun
    <3> HIDE DEF rows
    <3> DEFINE T == Pending(row) \ S
    <3>1. row' = To(rows, T, "failed")
      BY <2>4
    <3>2. \A i \in Instruction : i \notin S /\ i \notin T => i \notin Pending(row)
      OBVIOUS
    <3> HIDE DEF T
    <3>3. ASSUME NEW i \in Instruction, row'[i].st = "reviewer"
          PROVE  i \notin T /\ rows[i].st = "reviewer" /\ row'[i].tok = rows[i].tok
      BY <2>1, <3>1, <3>3, ToFields
    <3>4. Unclaimed(row')
      BY <1>4, <2>2, <3>2, <3>3 DEF Unclaimed
    <3> QED
      BY <1>0, <2>4, <3>4, StaysUnclaimed
  <2>5. CASE row' = rows /\ lane' = [lane EXCEPT !.misses = @ + 1] /\ UNCHANGED <<reviewer, owner>>
    <3>1. lane'.pc = lane.pc /\ lane'.run = lane.run
      BY <2>5 DEF LaneType
    <3> QED
      BY <2>2, <2>5, <3>1 DEF ReadingOK
  <2> QED
    BY <1>5, <2>3, <2>4, <2>5 DEF Answers, Ends
<1>6. ASSUME NEW v, Breaks(v) PROVE ReadingOK'
  <2>1. row' = Renewed(row, Pending(row), owner) /\ reviewer' = NoRun
    BY <1>6 DEF Breaks, breaks, Ends
  <2>2. Unclaimed(row')
    <3> DEFINE T == Pending(row)
    <3>1. ASSUME NEW i \in Instruction
          PROVE  /\ i \in T => Renewed(row, T, owner)[i].st = "accepted"
                 /\ i \notin T => Renewed(row, T, owner)[i] = row[i]
      <4> HIDE DEF T
      <4> QED
        BY DEF Renewed, RowType
    <3> QED
      BY <1>4, <2>1, <3>1 DEF Unclaimed
  <2> QED
    BY <1>0, <2>1, <2>2, StaysUnclaimed
<1> QED
  BY <1>1, <1>2, <1>3, <1>5, <1>6 DEF Turn

(* A step that leaves the lane alone may only add a row or close some.     *)
LEMMA SameLaneKeepsReading ==
  ASSUME TypeOK, ReadingOK, UNCHANGED lane, owner' \in {owner, 0}, reviewer' \in {reviewer, NoRun},
         \A i \in Instruction : row'[i].st = "reviewer" =>
           \/ row'[i] = row[i]
           \/ row'[i] = NewRow("reviewer", owner, reviewer) /\ reviewer # NoRun /\ owner' = owner
  PROVE  ReadingOK'
BY DEF ReadingOK, NewRow

LEMMA ReadingKept ==
  ASSUME TypeInv, TokensOK, ReadingOK, [Next]_vars
  PROVE  ReadingOK'
<1> USE DEF agents, resumes, commands, bounds
<1>0. TypeOK /\ row \in [Instruction -> RowType]
  BY DEF TypeInv, TypeOK
<1>1. CASE Claim
  <2>1. Unclaimed(row) /\ reviewer = NoRun
    BY <1>1, ParkedHasNoLane, NoTurnUnclaimed DEF Claim, Running
  <2>2. \A i \in Instruction : row[i].tok \in Nat /\ row[i].tok <= claims
    BY <1>0 DEF TokensOK, RowType
  <2>3. claims \in Nat /\ owner' = claims + 1 /\ row' = row /\ reviewer' = reviewer
    BY <1>0, <1>1 DEF Claim, TypeOK
  <2>4. \A i \in Instruction : row[i].tok # owner'
    BY <2>2, <2>3
  <2> QED
    BY <2>1, <2>3, <2>4 DEF Unclaimed, ReadingOK
<1>2. CASE UNCHANGED <<lane, owner, row, reviewer>>
  BY <1>2 DEF ReadingOK
<1>3. ASSUME NEW i \in Append, AppendTo(i) PROVE ReadingOK'
  <2>1. \E nr \in {NewRow("reviewer", owner, reviewer), NewRow("implementor", owner, live), NewRow("accepted", owner, NoRun)} :
          /\ row' = [row EXCEPT ![i] = nr]
          /\ nr.st = "reviewer" => nr = NewRow("reviewer", owner, reviewer) /\ reviewer # NoRun
    BY <1>3, Zenon DEF AppendTo, NewRow
  <2> QED
    BY <1>0, <1>3, <2>1, SameLaneKeepsReading DEF AppendTo, Instruction
<1>4. ASSUME NEW i \in Instruction, Supersede(i) \/ TooLate(i) PROVE ReadingOK'
  <2>1. \E st \in Status \ {"reviewer"} : \E tok, r : row' = [row EXCEPT ![i] = NewRow(st, tok, r)]
    <3>1. \/ \E tok, r : row' = [row EXCEPT ![i] = NewRow("implementor", tok, r)]
          \/ \E tok, r : row' = [row EXCEPT ![i] = NewRow("queued", tok, r)]
          \/ \E tok, r : row' = [row EXCEPT ![i] = NewRow("failed", tok, r)]
          \/ \E tok, r : row' = [row EXCEPT ![i] = NewRow("too_late", tok, r)]
      BY <1>4, Zenon DEF Supersede, TooLate
    <3>2. {"implementor", "queued", "failed", "too_late"} \subseteq Status \ {"reviewer"}
      BY DEF Status, OpenStatus, Dropped
    <3> QED
      BY <3>1, <3>2
  <2>2. \A k \in Instruction : row'[k].st = "reviewer" => row'[k] = row[k]
    BY <1>0, <2>1 DEF NewRow
  <2>3. UNCHANGED <<lane, owner, reviewer>>
    BY <1>4 DEF Supersede, TooLate
  <2> QED
    BY <1>0, <2>2, <2>3, SameLaneKeepsReading
<1>5. CASE Settled
  <2> DEFINE S == Open(row)
  <2>1. \A i \in Instruction : row[i].st = "reviewer" => i \in S
    BY DEF Open, OpenStatus
  <2>2. row' = To(row, S, "failed")
    BY <1>5 DEF Settled
  <2> HIDE DEF S
  <2>3. \A i \in Instruction : row'[i].st # "reviewer"
    BY <1>0, <2>1, <2>2, ToFields
  <2> QED
    BY <1>5, <2>3, StaysUnclaimed DEF Settled, Unclaimed
<1>6. CASE Unwind
  <2>1. Unclaimed(row) /\ reviewer = NoRun
    BY <1>6, NoTurnUnclaimed DEF Unwind, unwind
  <2>2. \E S : row' \in {row, To(row, S, "failed"), Delivered(row, S, "implementor", live)}
    BY <1>6 DEF Unwind, unwind
  <2>3. Unclaimed(row')
    BY <1>0, <2>1, <2>2, UnclaimedKept DEF Status, OpenStatus, Dropped
  <2> QED
    BY <1>6, <2>1, <2>3, StaysUnclaimed DEF Unwind, unwind
<1>7. CASE ResumeStep
  <2>1. \E S : row' \in {row, To(row, S, "handled"), To(row, S, "failed"), Delivered(row, S, "implementor", Fresh)}
    BY <1>7 DEF ResumeStep, ResumeReads, ResumeStarts, ResumeFails, ResumeEnds
  <2>2. ASSUME NEW S, NEW k \in Instruction
        PROVE  /\ To(row, S, "handled")[k].st = "reviewer" => To(row, S, "handled")[k] = row[k]
               /\ To(row, S, "failed")[k].st = "reviewer" => To(row, S, "failed")[k] = row[k]
               /\ Delivered(row, S, "implementor", Fresh)[k].st = "reviewer" =>
                    Delivered(row, S, "implementor", Fresh)[k] = row[k]
    BY <1>0 DEF To, Delivered, RowType
  <2>3. \A k \in Instruction : row'[k].st = "reviewer" => row'[k] = row[k]
    BY <2>1, <2>2
  <2>4. UNCHANGED <<lane, reviewer>> /\ owner' \in {owner, 0}
    BY <1>7 DEF ResumeStep, ResumeReads, ResumeStarts, ResumeFails, ResumeEnds, ParkResumed
  <2> QED
    BY <1>0, <2>3, <2>4, SameLaneKeepsReading
<1>8. ASSUME NEW i \in Interrupt, Stopped(i) PROVE ReadingOK'
  <2>1. \A k \in Instruction : row'[k].st = "reviewer" => row'[k] = row[k]
    <3>1. row' \in {row, To(row, {i}, "failed")}
      BY <1>8 DEF Stopped, stopped
    <3>2. \A k \in Instruction : To(row, {i}, "failed")[k].st = "reviewer" => To(row, {i}, "failed")[k] = row[k]
      BY <1>0 DEF To, RowType
    <3> QED
      BY <3>1, <3>2
  <2> QED
    BY <1>0, <1>8, <2>1, SameLaneKeepsReading DEF Stopped, stopped
<1>9. CASE Boot
  <2> DEFINE queued == To(row, Open(row), "queued")
  <2>1. queued \in [Instruction -> RowType] /\ Unclaimed(queued)
    <3>1. "queued" \in Status
      BY DEF Status, OpenStatus, Dropped
    <3>2. queued \in [Instruction -> RowType]
      BY <1>0, <3>1, ToTyped
    <3>3. \A k \in Instruction : queued[k].st = IF k \in Open(row) THEN "queued" ELSE row[k].st
      BY <1>0, ToFields
    <3> HIDE DEF queued
    <3>4. Unclaimed(queued)
      BY <3>3 DEF Unclaimed, Open, OpenStatus
    <3> QED
      BY <3>2, <3>4
  <2> HIDE DEF queued
  <2>2. \E S : row' = To(queued, S, "handled")
    BY <1>9 DEF Boot, queued
  <2>3. Unclaimed(row')
    BY <2>1, <2>2, UnclaimedKept DEF Status, OpenStatus, Dropped
  <2> QED
    BY <1>9, <2>3, StaysUnclaimed DEF Boot
<1>10. CASE Turn
  BY <1>0, <1>10, ReviewKeepsReading
<1>11. CASE DropVerdict \/ StartFix \/ FixBlocked \/ Finalize \/ FixRound
  BY <1>0, <1>11, DecisionUnclaimed, FixUnclaimed
<1>12. ASSUME NEW to, Settle(to) PROVE ReadingOK'
  BY <1>2, <1>12 DEF Settle
<1>13. CASE Resume \/ HandleDrops \/ UNCHANGED vars
  BY <1>2, <1>13 DEF Resume, HandleDrops, vars
<1>14. Command => ReadingOK'
  BY <1>1, <1>3, <1>4, <1>12, <1>13 DEF Command, Instruction
<1>15. LaneStep \/ FixRelaunches => ReadingOK'
  BY <1>6, <1>10, <1>11 DEF LaneStep, Turn, FixRound
<1> QED
  BY <1>5, <1>7, <1>8, <1>9, <1>13, <1>14, <1>15 DEF Next

(* The store never says that an instruction of the running episode was     *)
(* delivered to a reviewer that is not at work: a run that stops, errs or  *)
(* is stopped hands its claims back first (carryReviewInjectionsPastStop), *)
(* whatever resumes work beside the lane.                                  *)
THEOREM DeliveryHasARun == Spec => []DeliveredIsLive
<1>1. Init => TokensOK /\ ReadingOK
  BY ConstantsOK DEF Init, TokensOK, ReadingOK, NoRow, NewRow, AtRest
<1>2. Spec => [](TypeInv /\ TokensOK /\ ReadingOK)
  BY <1>1, TypeInvInit, TypeInvStep, TokensKept, ReadingKept, PTL DEF Spec
<1>3. ReadingOK => DeliveredIsLive
  BY DEF ReadingOK, DeliveredIsLive
<1> QED
  BY <1>2, <1>3, PTL

-----------------------------------------------------------------------------
LEMMA AcceptedHasNoOwner ==
  ASSUME LaneOK, accepted # 0
  PROVE  owner = 0 /\ ~Running
BY DEF LaneOK, NoOrphanEpisode

(* An accepting verdict is only reached past the fence. *)
LEMMA AcceptsPastFence ==
  ASSUME TypeOK, Finalize, accepted' # accepted, NEW i \in Interrupt, row'[i].tok = accepted'
  PROVE  row'[i].st \in Dropped
<1> DEFINE rows == HandedOver(Drained)
           mine == OpenOf(rows, lane.tok) \cap Append
<1>1. /\ accepted' = lane.tok /\ owner = lane.tok /\ ~IsSuperseded(Drained)
      /\ row' = To(rows, mine, "handled") \/ row' = rows
  BY DEF Finalize, Accept, GoesOn, goesOn
<1>2. Superseding(Drained) = {}
  BY <1>1 DEF IsSuperseded
<1>3. Drained \in [Instruction -> RowType]
  BY DrainedTyped
<1>4. \A k \in Interrupt : rows[k].st = Drained[k].st /\ rows[k].tok = Drained[k].tok
  <2>1. rows = To(To(Drained, {}, "queued"), Done(Drained, {}), "handled")
    BY <1>2 DEF HandedOver
  <2>2. To(Drained, {}, "queued") \in [Instruction -> RowType]
    BY <1>3, ToTyped DEF Status, OpenStatus, Dropped
  <2>3. Done(Drained, {}) = {}
    BY DEF Done
  <2> QED
    BY <1>3, <2>1, <2>2, <2>3, ToFields DEF Instruction
<1>5. rows \in [Instruction -> RowType] /\ mine \cap Interrupt = {}
  BY DrainedTyped, ConstantsOK
<1> HIDE DEF rows, mine
<1>6. \A k \in Interrupt : row'[k].st = rows[k].st /\ row'[k].tok = rows[k].tok
  BY <1>1, <1>5, ToFields DEF Instruction
<1> QED
  BY <1>1, <1>2, <1>4, <1>6 DEF Superseding

(* Once an episode is accepted, a step may close its rows, give a new row  *)
(* no token, and otherwise only a resume touches a row that was dropped.   *)
Carried(i) == \E r \in Resumer : i \in resume[r].rows
Stays(i) ==
  /\ row'[i].tok = row[i].tok
  /\ row[i].st \in Dropped => row'[i].st \in Dropped \/ Carried(i)

LEMMA ClosingStays ==
  ASSUME TypeOK, NEW i \in Interrupt, NEW S, NEW st, NEW r,
         row' \in {row, To(row, S, st), Delivered(row, S, st, r)},
         i \in S /\ row[i].st \in Dropped => st \in Dropped \/ Carried(i)
  PROVE  Stays(i)
<1>1. row \in [Instruction -> RowType] /\ i \in Instruction
  BY DEF TypeOK, Instruction
<1>2. /\ row'[i].tok = row[i].tok
      /\ row'[i].st = row[i].st \/ (i \in S /\ row'[i].st = st)
  BY <1>1, ToFields, DeliveredFields
<1> QED
  BY <1>2 DEF Stays

LEMMA OthersStay ==
  ASSUME TypeOK, NEW i \in Interrupt,
         \/ ResumeStep \/ Unwind \/ Settled \/ Boot \/ HandleDrops
         \/ \E k \in Interrupt : Stopped(k)
         \/ Resume \/ \E to \in Terminal : Settle(to)
  PROVE  Stays(i)
<1>0. row \in [Instruction -> RowType] /\ i \in Instruction
  BY DEF TypeOK, Instruction
<1>1. CASE ResumeStep
  <2>1. PICK r \in Resumer :
          \/ ResumeReads(r) \/ ResumeStarts(r) \/ ResumeFails(r) \/ \E ok \in BOOLEAN : ResumeEnds(r, ok)
    BY <1>1 DEF ResumeStep
  <2> DEFINE S == resume[r].rows
  <2>2. row' \in {row, To(row, S, "handled"), To(row, S, "failed"), Delivered(row, S, "implementor", Fresh)}
    BY <2>1 DEF ResumeReads, ResumeStarts, ResumeFails, ResumeEnds
  <2>3. i \in S => Carried(i)
    BY DEF Carried
  <2> HIDE DEF S
  <2> QED
    BY <2>2, <2>3, ClosingStays
<1>2. CASE Unwind
  <2> DEFINE S == QueuedInterrupts(row)
  <2>1. row' \in {row, To(row, S, "failed"), Delivered(row, S, "implementor", live)}
    BY <1>2 DEF Unwind, unwind
  <2>2. i \in S => row[i].st \notin Dropped
    BY DEF QueuedInterrupts, Queued, Dropped
  <2> HIDE DEF S
  <2> QED
    BY <2>1, <2>2, ClosingStays
<1>3. CASE Settled \/ \E k \in Interrupt : Stopped(k)
  <2>1. \E S : row' \in {row, To(row, S, "failed")}
    BY <1>3 DEF Settled, Stopped, stopped
  <2> QED
    BY <2>1, ClosingStays DEF Dropped
<1>4. CASE Boot
  <2> DEFINE all == Open(row)
             queued == To(row, all, "queued")
             built == {k \in all : row[k].built \/ row[k].st = "implemented"}
  <2>1. row' = To(queued, built, "handled") /\ built \subseteq all
    BY <1>4 DEF Boot
  <2>2. queued \in [Instruction -> RowType]
    BY <1>0, ToTyped DEF Status, OpenStatus, Dropped
  <2>3. row[i].st \in Dropped => i \notin all
    BY DEF Open, OpenStatus, Dropped
  <2> HIDE DEF all
  <2>4. queued[i].tok = row[i].tok /\ (i \notin all => queued[i].st = row[i].st)
    BY <1>0, ToFields
  <2> HIDE DEF queued, built
  <2>5. row'[i].tok = queued[i].tok /\ (i \notin built => row'[i].st = queued[i].st)
    BY <1>0, <2>1, <2>2, ToFields
  <2> QED
    BY <2>1, <2>3, <2>4, <2>5 DEF Stays
<1>5. CASE HandleDrops \/ Resume \/ \E to \in Terminal : Settle(to)
  BY <1>5 DEF HandleDrops, Resume, Settle, Stays
<1> QED
  BY <1>1, <1>2, <1>3, <1>4, <1>5

LEMMA FenceHolds ==
  ASSUME TypeInv, LaneOK, Next, NEW i \in Interrupt, accepted' # 0, row'[i].tok = accepted'
  PROVE  \/ row'[i].st \in Dropped
         \/ accepted' = accepted /\ row[i].tok = accepted /\ (row[i].st \in Dropped => Carried(i))
<1> USE DEF agents, resumes, commands, bounds
<1>0. TypeOK /\ row \in [Instruction -> RowType] /\ i \in Instruction
  BY DEF TypeInv, TypeOK, Instruction
<1>1. ~Claim
  BY DEF Claim
<1>2. ~(Turn \/ DropVerdict \/ StartFix \/ FixBlocked \/ FixRound)
  BY LaneStepsRun DEF LaneOK
<1>3. CASE Finalize
  <2>1. accepted = 0
    BY <1>3, LaneStepsRun DEF LaneOK
  <2> QED
    BY <1>0, <1>3, <2>1, AcceptsPastFence
<1>4. ASSUME NEW k \in Instruction, AppendTo(k) \/ Supersede(k) \/ TooLate(k)
      PROVE  accepted' = accepted /\ row'[i] = row[i]
  <2>1. accepted' = accepted
    BY <1>4, Zenon DEF AppendTo, Supersede, TooLate
  <2>2. \E st, r : \E tok \in {owner, 0} : row' = [row EXCEPT ![k] = NewRow(st, tok, r)]
    BY <1>4, Zenon DEF AppendTo, Supersede, TooLate
  <2>3. owner = 0
    BY <2>1, AcceptedHasNoOwner
  <2>4. row'[k].tok = 0 /\ (k # i => row'[i] = row[i])
    BY <1>0, <2>2, <2>3 DEF NewRow
  <2> QED
    BY <2>1, <2>4
<1>5. CASE \/ ResumeStep \/ Unwind \/ Settled \/ Boot \/ HandleDrops
           \/ \E k \in Interrupt : Stopped(k)
           \/ Resume \/ \E to \in Terminal : Settle(to)
  <2>1. accepted' = accepted
    BY <1>5 DEF ResumeStep, ResumeReads, ResumeStarts, ResumeFails, ResumeEnds, Unwind, unwind, Settled, Boot,
       HandleDrops, Stopped, stopped, Resume, Settle
  <2> QED
    BY <1>0, <1>5, <2>1, OthersStay DEF Stays
<1> QED
  BY <1>1, <1>2, <1>3, <1>4, <1>5 DEF Next, Command, LaneStep, Turn, FixRound, Instruction

(* A verdict accepts the task only over interrupts that failed, and after  *)
(* it no interrupt joins the accepted episode and none that failed comes   *)
(* back, but for one that a resume beside the lane still carries           *)
(* (parkSupersededAutoReview, finalizeReview).                             *)
THEOREM InterruptFencesVerdict == Spec => SupersededNotAccepted
<1>1. Init => LaneOK
  BY DEF Init, LaneOK, NoOrphanEpisode, Cancelled
<1>2. TypeInv /\ LaneOK /\ [Next]_vars =>
        [\A i \in Interrupt : accepted' # 0 /\ row'[i].tok = accepted' =>
           \/ row'[i].st \in Dropped
           \/ /\ accepted' = accepted /\ row[i].tok = accepted
              /\ row[i].st \in Dropped => \E r \in Resumer : i \in resume[r].rows]_vars
  BY FenceHolds DEF Carried
<1> QED
  BY <1>1, <1>2, TypeInvInit, TypeInvStep, LaneKept, PTL DEF Spec, SupersededNotAccepted

-----------------------------------------------------------------------------
(* A promise to go on with an interrupt is kept by the lane's task; a stop *)
(* is awaited only while the stopped reviewer's turn is not over for the   *)
(* lane, and only a turn has a reviewer.                                   *)
PromiseOK ==
  /\ sched => HasTask
  /\ stopping # {} => lane.pc \in {"turn", "gap"}
  /\ reviewer # NoRun => lane.pc = "turn"

(* A step that makes no promise may move a lane that has a task, unless it *)
(* forsakes a stop it has to wait for or a reviewer.                       *)
LEMMA PromiseMoves ==
  ASSUME PromiseOK, UNCHANGED <<sched, stopping>>, lane'.pc \notin {"idle", "claim"},
         stopping # {} => lane'.pc \in {"turn", "gap"},
         reviewer' # NoRun => lane'.pc = "turn"
  PROVE  PromiseOK'
BY DEF PromiseOK, HasTask

LEMMA PromiseRests ==
  ASSUME PromiseOK, UNCHANGED <<lane, sched, stopping>>, reviewer' \in {reviewer, NoRun}
  PROVE  PromiseOK'
BY DEF PromiseOK, HasTask

LEMMA TurnKeepsPromise ==
  ASSUME TypeOK, PromiseOK, Turn
  PROVE  PromiseOK'
<1> USE DEF TypeOK, LaneType
<1>1. CASE Kick
  BY <1>1 DEF Kick, Move, commands, PromiseOK, HasTask
<1>2. CASE ReviewerStarts \/ ReviewerFails
  BY <1>2, PromiseMoves DEF ReviewerStarts, ReviewerFails, commands, agents, PromiseOK
<1>3. ASSUME NEW v, NEW S, Answers(v, S) PROVE PromiseOK'
  BY <1>3, PromiseMoves DEF Answers, Ends, commands
<1>4. ASSUME NEW v, Breaks(v) PROVE PromiseOK'
  BY <1>4, PromiseMoves DEF Breaks, breaks, Ends, commands
<1>5. CASE Recover \/ ReadLate
  <2>1. stopping = {} /\ lane.pc = "gap" /\ lane'.pc = "launch" /\ UNCHANGED <<agents, commands>>
    BY <1>5 DEF Recover, recover, ReadLate, AtGap
  <2> QED
    BY <2>1, PromiseMoves DEF PromiseOK, agents, commands
<1> QED
  BY <1>1, <1>2, <1>3, <1>4, <1>5 DEF Turn

LEMMA RoundKeepsPromise ==
  ASSUME TypeOK, PromiseOK, DropVerdict \/ StartFix \/ FixBlocked \/ Finalize \/ FixRound
  PROVE  PromiseOK'
<1>1. stopping = {} /\ reviewer = NoRun /\ UNCHANGED <<sched, stopping>>
  <2>1. lane.pc = "gap" \/ lane.pc \in FixPlace
    BY LaneStepsRun
  <2>2. reviewer = NoRun /\ (lane.pc \in FixPlace => stopping = {})
    BY <2>1 DEF PromiseOK, FixPlace
  <2>3. DropVerdict \/ StartFix \/ FixBlocked \/ Finalize => stopping = {} /\ UNCHANGED <<sched, stopping>>
    BY DEF DropVerdict, StartFix, FixBlocked, fixBlocked, Finalize, GoesOn, goesOn, Decides, AtGap, commands
  <2>4. FixRound => lane.pc \in FixPlace /\ UNCHANGED <<sched, stopping>>
    BY LaneStepsRun DEF FixRound, FixStarts, FixAborts, DrainStarts, FixStops, FixRelaunches, FixEnds, DrainEnds, commands
  <2> QED
    BY <2>2, <2>3, <2>4
<1>2. reviewer' = NoRun
  BY <1>1 DEF DropVerdict, StartFix, FixBlocked, fixBlocked, Finalize, End, agents, FixRound, FixStarts, FixAborts,
     DrainStarts, FixStops, FixRelaunches, FixEnds, DrainEnds
<1>3. lane'.pc \notin {"idle", "claim"}
  <2>1. CASE End
    BY <2>1, ConstantsTyped DEF End, LaneType
  <2>2. CASE StartFix
    BY <2>2, ConstantsTyped DEF StartFix, LaneType
  <2>3. CASE FixStarts \/ DrainStarts \/ FixRelaunches
    BY <2>3 DEF FixStarts, DrainStarts, Move, FixRelaunches, TypeOK, LaneType
  <2>4. ASSUME NEW ok, FixEnds(ok) \/ DrainEnds(ok) PROVE lane'.pc \notin {"idle", "claim"}
    BY <2>4 DEF FixEnds, DrainEnds, Boundary, Finish, TypeOK, LaneType
  <2>5. CASE FixStops
    BY <2>1, <2>5, ConstantsTyped DEF FixStops, LaneType
  <2> QED
    BY <2>1, <2>2, <2>3, <2>4, <2>5 DEF DropVerdict, FixBlocked, fixBlocked, Finalize, FixRound, FixAborts
<1> QED
  BY <1>1, <1>2, <1>3, PromiseMoves

LEMMA PromiseOKKept ==
  ASSUME TypeInv, PromiseOK, [Next]_vars
  PROVE  PromiseOK'
<1> USE DEF agents, resumes, commands, bounds
<1>0. TypeOK
  BY DEF TypeInv
<1>1. CASE Claim
  <2>1. lane.pc = "idle" /\ UNCHANGED <<sched, stopping, reviewer>>
    BY <1>1, ParkedHasNoLane DEF Claim, Running, Quiet
  <2>2. ~sched /\ stopping = {} /\ reviewer = NoRun
    BY <2>1 DEF PromiseOK, HasTask
  <2> QED
    BY <2>1, <2>2, <1>0 DEF PromiseOK, TypeOK
<1>2. ASSUME NEW i \in Interrupt, Supersede(i) PROVE PromiseOK'
  <2>1. lane' = lane /\ reviewer' = reviewer
    BY <1>2, Zenon DEF Supersede
  <2>2. sched' => sched \/ HasTask
    BY <1>2, Zenon DEF Supersede
  <2>3. stopping' = stopping \/ reviewer # NoRun
    BY <1>2, Zenon DEF Supersede
  <2> QED
    BY <2>1, <2>2, <2>3, Zenon DEF PromiseOK, HasTask
<1>3. ASSUME NEW i \in Interrupt, Stopped(i) PROVE PromiseOK'
  BY <1>3 DEF Stopped, stopped, PromiseOK, HasTask
<1>4. CASE Unwind
  <2>1. lane.pc = "unwound" /\ sched' = FALSE /\ UNCHANGED <<stopping, reviewer>>
    BY <1>4 DEF Unwind, unwind
  <2> QED
    BY <2>1 DEF PromiseOK
<1>5. CASE Boot
  BY <1>5 DEF Boot, PromiseOK
<1>6. CASE Settled \/ HandleDrops \/ Resume \/ UNCHANGED vars
  BY <1>6, PromiseRests DEF Settled, HandleDrops, Resume, vars
<1>7. CASE ResumeStep
  BY <1>7, PromiseRests DEF ResumeStep, ResumeReads, ResumeStarts, ResumeFails, ResumeEnds
<1>8. ASSUME NEW i, AppendTo(i) \/ TooLate(i) \/ Settle(i) PROVE PromiseOK'
  BY <1>8, PromiseRests DEF AppendTo, TooLate, Settle
<1>9. Command => PromiseOK'
  BY <1>1, <1>2, <1>6, <1>8 DEF Command
<1>10. LaneStep \/ FixRelaunches => PromiseOK'
  BY <1>0, <1>4, TurnKeepsPromise, RoundKeepsPromise DEF LaneStep, Turn, FixRound
<1> QED
  BY <1>3, <1>5, <1>6, <1>7, <1>9, <1>10 DEF Next

(* An interrupt that waits for its reviewer's stop, or for the lane's task *)
(* to end, waits for a lane that is there: "exactly one callback" of that  *)
(* task hands it on, and without the task nobody does                      *)
(* (threadManager.ts:13333-13336).                                         *)
PromiseHasLane == sched \/ stopping # {} => HasTask

(* Whenever an interrupt waits for its reviewer to stop or for the lane's  *)
(* task to end, that task is there: no interrupt is left to a callback     *)
(* that nothing will run (scheduleReviewerInterruptResume is hung on       *)
(* autoReviewTasks, which the claim has not filled yet).                   *)
THEOREM PromiseNotOrphaned == Spec => []PromiseHasLane
<1>1. Init => PromiseOK
  BY DEF Init, PromiseOK
<1>2. PromiseOK => PromiseHasLane
  BY DEF PromiseOK, PromiseHasLane, HasTask
<1>3. Spec => [](TypeInv /\ PromiseOK)
  BY <1>1, TypeInvInit, TypeInvStep, PromiseOKKept, PTL DEF Spec
<1> QED
  BY <1>2, <1>3, PTL

-----------------------------------------------------------------------------
(* The flag of a resume's start is clear while the lane's task exists: the *)
(* claim clears it, and no resume begins beside the task.  A lane that     *)
(* ends frees the slot.  So the callback of its task is never turned away. *)
FlagOK ==
  /\ HasTask => resuming = Nobody
  /\ lane.pc = "unwound" => slot = Nobody

LEMMA FreedKeeps ==
  ASSUME FlagOK, UNCHANGED lane, Freed
  PROVE  FlagOK'
BY DEF FlagOK, Freed, HasTask

(* A resume begins only where no lane has a task. *)
LEMMA BeginsAlone ==
  ASSUME UNCHANGED lane, lane.pc = "idle"
  PROVE  FlagOK'
BY DEF FlagOK, HasTask

LEMMA CommandKeepsFlag ==
  ASSUME TypeOK, FlagOK, Command, ~Claim
  PROVE  FlagOK'
<1> USE DEF agents, resumes, commands, bounds
<1>1. ASSUME NEW i \in Append, AppendTo(i) PROVE FlagOK'
  BY <1>1, FreedKeeps DEF AppendTo, Freed
<1>2. ASSUME NEW to, Settle(to) PROVE FlagOK'
  BY <1>2, FreedKeeps DEF Settle, Freed
<1>3. CASE Resume
  <2>1. UNCHANGED lane /\ lane.pc = "idle"
    BY <1>3, ParkedHasNoLane DEF Resume, Running, Quiet
  <2> QED
    BY <2>1, BeginsAlone
<1>4. ASSUME NEW i \in Interrupt, Supersede(i) PROVE FlagOK'
  <2>1. UNCHANGED lane /\ Quiet
    BY <1>4, Zenon DEF Supersede
  <2>2. UNCHANGED resumes \/ ~HasTask
    BY <1>4, Zenon DEF Supersede
  <2>3. CASE UNCHANGED resumes
    BY <2>1, <2>3, FreedKeeps DEF Freed
  <2>4. CASE ~HasTask
    BY <2>1, <2>4 DEF HasTask, FlagOK
  <2> QED
    BY <2>2, <2>3, <2>4
<1>5. ASSUME NEW i \in Instruction, TooLate(i) PROVE FlagOK'
  <2>1. UNCHANGED lane /\ Quiet /\ ~Gate
    BY <1>5, Zenon DEF TooLate
  <2>2. UNCHANGED resumes \/ task \notin Terminal
    BY <1>5, Zenon DEF TooLate
  <2>3. CASE UNCHANGED resumes
    BY <2>1, <2>3, FreedKeeps DEF Freed
  <2>4. CASE task \notin Terminal
    <3>1. lane.pc = "idle"
      BY <2>1, <2>4 DEF Gate, Owned, Running, Cancelled, Terminal, Quiet
    <3> QED
      BY <2>1, <3>1, BeginsAlone
  <2> QED
    BY <2>2, <2>3, <2>4
<1> QED
  BY <1>1, <1>2, <1>3, <1>4, <1>5 DEF Command, Instruction

(* A step that ends a lane with End frees the slot; the others end none.   *)
LEMMA EndsFree ==
  ASSUME TypeOK, Turn \/ DropVerdict \/ StartFix \/ FixBlocked \/ Finalize \/ FixRound
  PROVE  lane'.pc = "unwound" => slot' = Nobody
<1>1. CASE End
  BY <1>1 DEF End
<1>2. CASE Turn
  BY <1>2, ReviewShapes DEF Turn, GoesOnIn
<1>3. CASE StartFix
  BY <1>3, ConstantsTyped DEF StartFix, LaneType
<1>4. CASE FixStarts \/ DrainStarts \/ FixRelaunches
  BY <1>4 DEF FixStarts, DrainStarts, Move, FixRelaunches, TypeOK, LaneType
<1>5. ASSUME NEW ok, FixEnds(ok) \/ DrainEnds(ok) PROVE lane'.pc # "unwound"
  BY <1>5 DEF FixEnds, DrainEnds, Boundary, Finish, TypeOK, LaneType
<1>6. CASE FixStops
  BY <1>1, <1>6, ConstantsTyped DEF FixStops, LaneType
<1> QED
  BY <1>1, <1>2, <1>3, <1>4, <1>5, <1>6 DEF DropVerdict, FixBlocked, fixBlocked, Finalize, FixRound, FixAborts

LEMMA FlagKept ==
  ASSUME TypeInv, FlagOK, [Next]_vars
  PROVE  FlagOK'
<1> USE DEF agents, resumes, commands, bounds
<1>0. TypeOK
  BY DEF TypeInv
<1>1. CASE Claim \/ Unwind \/ Boot
  <2>1. lane'.pc \in {"claim", "idle"}
    BY <1>1, ConstantsTyped DEF Claim, Unwind, unwind, Boot, LaneType
  <2> QED
    BY <2>1 DEF FlagOK, HasTask
<1>2. CASE Kick
  BY <1>0, <1>2, EndsFree DEF Kick, Turn, FlagOK
<1>3. CASE (Turn /\ ~Kick) \/ DropVerdict \/ StartFix \/ FixBlocked \/ Finalize \/ FixRound
  <2>1. HasTask
    BY <1>3, LaneStepsRun DEF Turn, ReviewerStarts, ReviewerFails, Answers, Breaks, breaks, Recover, recover,
       ReadLate, AtGap, HasTask, FixPlace
  <2>2. resuming' = Nobody
    BY <1>3, <2>1, LaneStepsRun DEF Freed, FlagOK
  <2> QED
    BY <1>0, <1>3, <2>2, EndsFree DEF FlagOK
<1>4. CASE ResumeStep \/ HandleDrops \/ Settled \/ UNCHANGED vars \/ \E i \in Interrupt : Stopped(i)
  BY <1>4, FreedKeeps DEF ResumeStep, ResumeReads, ResumeStarts, ResumeFails, ResumeEnds, ParkResumed, HandleDrops,
     Settled, Stopped, stopped, vars, Freed
<1>5. LaneStep \/ FixRelaunches => FlagOK'
  BY <1>1, <1>2, <1>3 DEF LaneStep, Turn, FixRound
<1> QED
  BY <1>0, <1>1, <1>4, <1>5, CommandKeepsFlag DEF Next

LEMMA UnwindHandsOn ==
  ASSUME TypeInv, FlagOK, Unwind, sched
  PROVE  QueuedInterrupts(row') \subseteq UNION {resume'[r].rows : r \in Resumer}
<1> DEFINE S == QueuedInterrupts(row)
<1>1. row \in [Instruction -> RowType] /\ resume \in [Resumer -> ResumeType]
  BY DEF TypeInv, TypeOK, ResumeType
<1>2. ~Occupied
  BY DEF FlagOK, HasTask, Occupied, Unwind, unwind
<1>3. \/ S = {} /\ row' = row
      \/ row' = To(row, S, "failed")
      \/ row' = Delivered(row, S, "implementor", live)
      \/ row' = row /\ BeginResume(S)
  BY <1>2, Zenon DEF Unwind, unwind
<1>4. ASSUME NEW rows, rows \in {To(row, S, "failed"), Delivered(row, S, "implementor", live)}
      PROVE  QueuedInterrupts(rows) = {}
  <2>1. \A i \in Instruction : i \in S => rows[i].st \in {"failed", "implementor"}
    <3> HIDE DEF S
    <3> QED
      BY <1>1, <1>4, ToFields, DeliveredFields
  <2>2. \A i \in Instruction : i \notin S => rows[i].st = row[i].st
    <3> HIDE DEF S
    <3> QED
      BY <1>1, <1>4, ToFields, DeliveredFields
  <2> QED
    BY <2>1, <2>2 DEF QueuedInterrupts, Queued
<1>5. ASSUME BeginResume(S) PROVE S \subseteq UNION {resume'[r].rows : r \in Resumer}
  <2> DEFINE r == CHOOSE x \in Idle : TRUE
  <2>1. r \in Resumer
    BY <1>5 DEF BeginResume, Idle
  <2>2. resume' = [resume EXCEPT ![r] = [pc |-> "pick", rows |-> S]]
    BY <1>5 DEF BeginResume
  <2> HIDE DEF r, S
  <2>3. resume'[r].rows = S
    BY <1>1, <2>1, <2>2
  <2> QED
    BY <2>1, <2>3
<1>6. CASE row' = row /\ BeginResume(S)
  BY <1>5, <1>6
<1>7. CASE S = {} /\ row' = row
  BY <1>7
<1> QED
  BY <1>3, <1>4, <1>6, <1>7

LEMMA PromiseDropped ==
  ASSUME TypeInv, [Next]_vars, sched, ~sched'
  PROVE  Unwind \/ Boot
<1> USE DEF agents, resumes, commands, bounds
<1>1. Command => sched'
  BY DEF Command, Claim, Resume, Settle, AppendTo, Supersede, TooLate
<1>2. Turn => sched'
  BY DEF Turn, Kick, ReviewerStarts, ReviewerFails, Answers, Breaks, breaks, Recover, recover, ReadLate
<1>3. DropVerdict \/ StartFix \/ FixBlocked \/ Finalize => sched'
  BY DEF DropVerdict, StartFix, FixBlocked, fixBlocked, Finalize
<1>4. FixRound => sched'
  BY DEF FixRound, FixStarts, FixAborts, DrainStarts, FixStops, FixRelaunches, FixEnds, DrainEnds
<1>5. ResumeStep => sched'
  BY DEF ResumeStep, ResumeReads, ResumeStarts, ResumeFails, ResumeEnds
<1>6. HandleDrops \/ Settled \/ UNCHANGED vars \/ (\E i \in Interrupt : Stopped(i)) => sched'
  BY DEF HandleDrops, Settled, Stopped, stopped, vars
<1> QED
  BY <1>1, <1>2, <1>3, <1>4, <1>5, <1>6 DEF Next, LaneStep, Turn, FixRound

(* When the callback of an ended lane has run, each queued interrupt has   *)
(* been given to the live implementor, is among what the resume it began   *)
(* carries, or has failed with a reason: neither the flag nor the slot of  *)
(* an earlier resume turns it away (scheduleReviewerInterruptResume).      *)
THEOREM InterruptHandedOn == Spec => PromiseKept
<1>1. Init => FlagOK
  BY DEF Init, FlagOK
<1>2. TypeInv /\ FlagOK /\ [Next]_vars =>
        [sched /\ ~sched' => boots' # boots \/ QueuedInterrupts(row') \subseteq UNION {resume'[r].rows : r \in Resumer}]_vars
  <2>1. TypeInv /\ Boot => boots' # boots
    BY ConstantsOK DEF Boot, TypeInv, TypeOK
  <2> QED
    BY <2>1, UnwindHandsOn, PromiseDropped
<1> QED
  BY <1>1, <1>2, TypeInvInit, TypeInvStep, FlagKept, PTL DEF Spec, PromiseKept

-----------------------------------------------------------------------------
(* Each step of a running lane lowers what is left of it, read component   *)
(* by component.                                                           *)
Phase == IF lane.pc = "claim" THEN 2 ELSE IF lane.pc \in FixPlace THEN 0 ELSE 1
Size == IF lane.pc \in FixPlace THEN Cardinality(Unserved)
                                ELSE (Recoveries + Passes) - (lane.tries + lane.passes)

LEMMA LowerAt ==
  ASSUME NEW a1, NEW a2, NEW a3, NEW a4, NEW a5, NEW b1, NEW b2, NEW b3, NEW b4, NEW b5,
         \/ a1 < b1
         \/ a1 = b1 /\ a2 < b2
         \/ a1 = b1 /\ a2 = b2 /\ a3 < b3
         \/ a1 = b1 /\ a2 = b2 /\ a3 = b3 /\ a4 < b4
         \/ a1 = b1 /\ a2 = b2 /\ a3 = b3 /\ a4 = b4 /\ a5 < b5
  PROVE  Lower(<<a1, a2, a3, a4, a5>>, <<b1, b2, b3, b4, b5>>)
<1> DEFINE m == <<a1, a2, a3, a4, a5>>  n == <<b1, b2, b3, b4, b5>>
<1>1. /\ m[1] = a1 /\ m[2] = a2 /\ m[3] = a3 /\ m[4] = a4 /\ m[5] = a5
      /\ n[1] = b1 /\ n[2] = b2 /\ n[3] = b3 /\ n[4] = b4 /\ n[5] = b5
  OBVIOUS
<1> HIDE DEF m, n
<1>2. \E k \in 1..5 : m[k] < n[k] /\ \A l \in 1..5 : l < k => m[l] = n[l]
  <2>1. CASE a1 < b1
    BY <1>1, <2>1
  <2>2. CASE a1 = b1 /\ a2 < b2
    <3>1. m[2] < n[2] /\ \A l \in 1..5 : l < 2 => m[l] = n[l]
      BY <1>1, <2>2
    <3> QED
      BY <3>1
  <2>3. CASE a1 = b1 /\ a2 = b2 /\ a3 < b3
    <3>1. m[3] < n[3] /\ \A l \in 1..5 : l < 3 => m[l] = n[l]
      BY <1>1, <2>3
    <3> QED
      BY <3>1
  <2>4. CASE a1 = b1 /\ a2 = b2 /\ a3 = b3 /\ a4 < b4
    <3>1. m[4] < n[4] /\ \A l \in 1..5 : l < 4 => m[l] = n[l]
      BY <1>1, <2>4
    <3> QED
      BY <3>1
  <2>5. CASE a1 = b1 /\ a2 = b2 /\ a3 = b3 /\ a4 = b4 /\ a5 < b5
    <3>1. m[5] < n[5] /\ \A l \in 1..5 : l < 5 => m[l] = n[l]
      BY <1>1, <2>5
    <3> QED
      BY <3>1
  <2> QED
    BY <2>1, <2>2, <2>3, <2>4, <2>5
<1> QED
  BY <1>2 DEF Lower, m, n

LEMMA LeftFalls ==
  ASSUME \/ lane'.round = lane.round /\ Phase' < Phase
         \/ lane'.round = lane.round /\ Phase' = Phase /\ Size' < Size
         \/ lane'.round = lane.round /\ Phase' = Phase /\ Size' = Size /\ Way' < Way
         \/ /\ lane'.round = lane.round /\ Phase' = Phase /\ Size' = Size /\ Way' = Way
            /\ Misses - lane'.misses < Misses - lane.misses
         \/ FixRounds - lane'.round < FixRounds - lane.round
  PROVE  Lower(Left', Left)
<1>1. Left = <<FixRounds - lane.round, Phase, Size, Way, Misses - lane.misses>>
  BY DEF Left, Phase, Size
<1>2. Left' = <<FixRounds - lane'.round, Phase', Size', Way', Misses - lane'.misses>>
  BY DEF Left, Phase, Size
<1> DEFINE a1 == FixRounds - lane'.round  a2 == Phase'  a3 == Size'  a4 == Way'  a5 == Misses - lane'.misses
           b1 == FixRounds - lane.round  b2 == Phase  b3 == Size  b4 == Way  b5 == Misses - lane.misses
<1>3. \/ a1 < b1
      \/ a1 = b1 /\ a2 < b2
      \/ a1 = b1 /\ a2 = b2 /\ a3 < b3
      \/ a1 = b1 /\ a2 = b2 /\ a3 = b3 /\ a4 < b4
      \/ a1 = b1 /\ a2 = b2 /\ a3 = b3 /\ a4 = b4 /\ a5 < b5
  OBVIOUS
<1> HIDE DEF a1, a2, a3, a4, a5, b1, b2, b3, b4, b5
<1>4. Lower(<<a1, a2, a3, a4, a5>>, <<b1, b2, b3, b4, b5>>)
  BY <1>3, LowerAt, Zenon
<1> QED
  BY <1>1, <1>2, <1>4 DEF a1, a2, a3, a4, a5, b1, b2, b3, b4, b5

LEMMA UnservedFinite ==
  IsFiniteSet(Unserved) /\ Cardinality(Unserved) \in Nat
<1>1. Unserved \subseteq Instruction
  BY DEF Unserved
<1> QED
  BY <1>1, ConstantsOK, FS_Subset, FS_CardinalityType

LEMMA UnservedShrinks ==
  ASSUME Unserved' \subseteq Unserved
  PROVE  /\ Cardinality(Unserved') \in Nat /\ Cardinality(Unserved') <= Cardinality(Unserved)
         /\ Unserved' # Unserved => Cardinality(Unserved') < Cardinality(Unserved)
<1>1. /\ IsFiniteSet(Unserved') /\ Cardinality(Unserved') <= Cardinality(Unserved)
      /\ Cardinality(Unserved) = Cardinality(Unserved') => Unserved = Unserved'
  BY UnservedFinite, FS_Subset
<1>2. Cardinality(Unserved') \in Nat
  BY <1>1, FS_CardinalityType
<1> QED
  BY <1>1, <1>2, UnservedFinite

(* In a review. *)
LEMMA TurnDescends ==
  ASSUME TypeOK, Turn
  PROVE  Lower(Left', Left)
<1> USE DEF TypeOK, LaneType
<1>0. /\ lane.misses \in Nat /\ lane.tries \in Nat /\ lane.passes \in Nat /\ lane.round \in Nat
      /\ FixRounds \in Nat /\ Recoveries \in Nat /\ Misses \in Nat /\ Passes \in Nat
  BY ConstantsOK
<1>1. CASE Kick
  <2>1. lane.pc = "claim" /\ lane'.pc = "launch" /\ lane'.round = lane.round
    BY <1>1 DEF Kick, Move
  <2>2. Phase = 2 /\ Phase' = 1
    BY <2>1 DEF Phase, FixPlace
  <2> QED
    BY <2>1, <2>2, LeftFalls
<1>2. ASSUME lane.pc \in {"launch", "turn"}, lane'.pc \in {"turn", "gap"}, lane'.pc # lane.pc,
             UNCHANGED <<lane.round, lane.tries, lane.passes>>
      PROVE  Lower(Left', Left)
  <2>1. Phase' = Phase /\ Size' = Size
    BY <1>2 DEF Phase, Size, FixPlace
  <2>2. Way' < Way
    BY <1>2 DEF Way
  <2> QED
    BY <1>2, <2>1, <2>2, LeftFalls
<1>3. CASE ReviewerStarts
  BY <1>2, <1>3 DEF ReviewerStarts
<1>4. CASE ReviewerFails
  BY <1>2, <1>4 DEF ReviewerFails
<1>5. ASSUME NEW v, Ends(v), lane.pc = "turn" PROVE Lower(Left', Left)
  <2>1. lane'.pc = "gap" /\ UNCHANGED <<lane.round, lane.tries, lane.passes>>
    BY <1>5 DEF Ends
  <2> QED
    BY <1>2, <1>5, <2>1
<1>6. ASSUME NEW v, NEW S, Answers(v, S) PROVE Lower(Left', Left)
  <2>1. CASE Ends(v) \/ Ends("error")
    BY <1>5, <1>6, <2>1 DEF Answers
  <2>2. CASE lane' = [lane EXCEPT !.misses = @ + 1]
    <3>1. /\ UNCHANGED <<lane.pc, lane.round, lane.tries, lane.passes>>
          /\ lane'.misses = lane.misses + 1 /\ lane.pc = "turn"
      BY <1>6, <2>2 DEF Answers
    <3>2. Phase' = Phase /\ Size' = Size /\ Way' = Way
      BY <3>1 DEF Phase, Size, Way, FixPlace
    <3>3. Misses - lane'.misses < Misses - lane.misses
      BY <1>0, <3>1
    <3> QED
      BY <3>1, <3>2, <3>3, LeftFalls
  <2> QED
    BY <1>6, <2>1, <2>2 DEF Answers
<1>7. ASSUME NEW v, Breaks(v) PROVE Lower(Left', Left)
  BY <1>5, <1>7 DEF Breaks, breaks
<1>8. CASE Recover \/ ReadLate
  <2>1. lane.pc = "gap" /\ lane'.pc = "launch" /\ lane'.round = lane.round
    BY <1>8 DEF Recover, recover, ReadLate, AtGap
  <2>2. \/ lane'.tries = lane.tries + 1 /\ lane'.passes = lane.passes
        \/ lane'.tries = lane.tries /\ lane'.passes = lane.passes + 1
    BY <1>8 DEF Recover, recover, ReadLate
  <2>3. Phase' = Phase
    BY <2>1 DEF Phase, FixPlace
  <2>4. /\ Size = (Recoveries + Passes) - (lane.tries + lane.passes)
        /\ Size' = (Recoveries + Passes) - (lane'.tries + lane'.passes)
    BY <2>1 DEF Size, FixPlace
  <2>5. Size' < Size
    BY <1>0, <2>2, <2>4
  <2> QED
    BY <2>1, <2>3, <2>5, LeftFalls
<1> QED
  BY <1>1, <1>3, <1>4, <1>6, <1>7, <1>8 DEF Turn

(* From the verdict to the fix, and from a fix to the next review. *)
LEMMA ChangeDescends ==
  ASSUME TypeOK, Running', DropVerdict \/ StartFix \/ FixBlocked \/ Finalize \/ FixAborts \/ FixStops
  PROVE  Lower(Left', Left)
<1>1. AtRest.pc = "idle" /\ AtRest \in LaneType /\ FixRounds \in Nat /\ lane.round \in Nat
  BY ConstantsTyped, ConstantsOK DEF TypeOK, LaneType
<1>2. ~End
  BY <1>1 DEF End, Running, LaneType
<1>3. CASE StartFix
  <2>1. lane.pc = "gap" /\ lane'.pc = "fixstart" /\ lane'.round = lane.round
    BY <1>1, <1>3, LaneStepsRun DEF StartFix, LaneType
  <2>2. Phase = 1 /\ Phase' = 0
    BY <2>1 DEF Phase, FixPlace
  <2> QED
    BY <2>1, <2>2, LeftFalls
<1>4. CASE FixStops
  <2>1. lane' = [AtRest EXCEPT !.pc = "launch", !.tok = lane.tok, !.round = lane.round + 1]
    BY <1>2, <1>4 DEF FixStops
  <2>2. lane'.round = lane.round + 1
    BY <1>1, <2>1 DEF LaneType
  <2>3. FixRounds - lane'.round < FixRounds - lane.round
    BY <1>1, <2>2
  <2> QED
    BY <2>3, LeftFalls
<1> QED
  BY <1>2, <1>3, <1>4 DEF DropVerdict, FixBlocked, fixBlocked, Finalize, FixAborts

(* The rows of a run are counted out when it is started, and a run begins  *)
(* with none of them set aside.                                            *)
FixRowsOut == lane.pc = "fix" => lane.rows = {}

LEMMA FixRowsOutKept ==
  ASSUME TypeOK, FixRowsOut, [Next]_vars
  PROVE  FixRowsOut'
<1> USE DEF TypeOK, LaneType, FixRowsOut
<1>0. AtRest.pc = "idle" /\ AtRest \in LaneType
  BY ConstantsTyped
<1>1. CASE UNCHANGED lane
  BY <1>1
<1>2. CASE lane'.pc # "fix"
  BY <1>2
<1>3. CASE FixStarts
  BY <1>3 DEF FixStarts
<1>4. CASE Turn
  <2>1. CASE Kick \/ ReviewerStarts \/ ReviewerFails \/ Recover \/ ReadLate
    BY <1>2, <2>1 DEF Kick, Move, ReviewerStarts, ReviewerFails, Recover, recover, ReadLate
  <2>2. ASSUME NEW v, NEW S, Answers(v, S) PROVE lane'.pc # "fix"
    BY <2>2 DEF Answers, Ends
  <2>3. ASSUME NEW v, Breaks(v) PROVE lane'.pc # "fix"
    BY <2>3 DEF Breaks, breaks, Ends
  <2> QED
    BY <1>2, <1>4, <2>1, <2>2, <2>3 DEF Turn
<1>5. CASE DropVerdict \/ StartFix \/ FixBlocked \/ Finalize \/ FixAborts \/ FixStops
  <2>1. End \/ lane'.pc \in {"fixstart", "launch"}
    BY <1>0, <1>5 DEF DropVerdict, StartFix, FixBlocked, fixBlocked, Finalize, FixAborts, FixStops
  <2> QED
    BY <1>0, <1>2, <2>1 DEF End
<1>6. ASSUME NEW ok, FixEnds(ok) \/ DrainEnds(ok) PROVE FixRowsOut'
  BY <1>2, <1>6 DEF FixEnds, DrainEnds, Boundary, Finish
<1>7. CASE DrainStarts \/ FixRelaunches
  BY <1>1, <1>2, <1>7 DEF DrainStarts, Move, FixRelaunches
<1>8. CASE Claim \/ Unwind \/ Boot
  BY <1>0, <1>2, <1>8 DEF Claim, Unwind, unwind, Boot
<1>9. CASE Command
  BY <1>1, <1>8, <1>9 DEF Command, Resume, Settle, AppendTo, Supersede, TooLate
<1>10. CASE ResumeStep
  BY <1>1, <1>10 DEF ResumeStep, ResumeReads, ResumeStarts, ResumeFails, ResumeEnds
<1>11. CASE HandleDrops \/ Settled \/ UNCHANGED vars \/ \E i \in Interrupt : Stopped(i)
  BY <1>1, <1>11 DEF HandleDrops, Settled, Stopped, stopped, vars
<1> QED
  BY <1>3, <1>4, <1>5, <1>6, <1>7, <1>8, <1>9, <1>10, <1>11 DEF Next, LaneStep, Turn

(* In a fix round: no step queues an instruction that was queued before,   *)
(* and a follow-up run takes at least one that it waited for.              *)
LEMMA FixStartDescends ==
  ASSUME TypeOK, FixStarts \/ DrainStarts
  PROVE  Lower(Left', Left)
<1> USE DEF TypeOK, LaneType
<1>1. /\ lane.pc \in {"fixstart", "drainstart"}
      /\ lane'.pc = IF lane.pc = "fixstart" THEN "fix" ELSE "drain"
      /\ lane'.round = lane.round
  BY DEF FixStarts, DrainStarts, Move
<1>2. lane.rows \subseteq Instruction /\ row \in [Instruction -> RowType]
  OBVIOUS
<1>3. PICK S : row' = Delivered(row, S, "implementor", Fresh) /\ lane.rows \subseteq S
  <2>1. CASE FixStarts
    <3> DEFINE S == lane.rows \cup {i \in OpenOf(row, lane.tok) \cap Append : row[i].st = "accepted"}
    <3>1. row' = Delivered(row, S, "implementor", Fresh)
      BY <2>1 DEF FixStarts
    <3>2. lane.rows \subseteq S
      OBVIOUS
    <3> HIDE DEF S
    <3> QED
      BY <3>1, <3>2
  <2>2. CASE DrainStarts
    BY <2>2 DEF DrainStarts
  <2> QED
    BY <2>1, <2>2
<1>4. \A i \in Instruction : row'[i].st = IF i \in S THEN "implementor" ELSE row[i].st
  BY <1>2, <1>3, DeliveredFields
<1>5. Unserved' \subseteq Unserved
  BY <1>3, <1>4 DEF Unserved
<1>6. Cardinality(Unserved') \in Nat /\ Cardinality(Unserved') <= Cardinality(Unserved)
  BY <1>5, UnservedShrinks
<1>7. /\ Phase' = Phase /\ Way' < Way
      /\ Size = Cardinality(Unserved) /\ Size' = Cardinality(Unserved')
  BY <1>1 DEF Phase, Way, Size, FixPlace
<1>8. Size' < Size \/ Size' = Size
  BY <1>6, <1>7, UnservedFinite
<1> QED
  BY <1>1, <1>7, <1>8, LeftFalls

LEMMA LessOrSame ==
  ASSUME NEW m \in Nat, NEW n \in Nat, m <= n
  PROVE  m < n \/ m = n
OBVIOUS

LEMMA BoundaryDescends ==
  ASSUME TypeOK, NEW rows \in [Instruction -> RowType], NEW ok \in BOOLEAN, Boundary(rows, ok),
         lane.pc \in {"fix", "drain"},
         \A i \in Instruction : rows[i].st \in {"none", "queued"} => i \in Unserved
  PROVE  Lower(Left', Left)
<1> USE DEF TypeOK, LaneType
<1>1. CASE Finish(rows, ok)
  <2>1. /\ lane'.pc = "fixstop" /\ lane'.round = lane.round
    BY <1>1 DEF Finish
  <2>2. \A i \in Instruction : row'[i].st \in {"none", "queued"} => rows[i].st \in {"none", "queued"}
    <3> DEFINE mine == {i \in OpenOf(rows, lane.tok) : rows[i].st = "implementor" /\ rows[i].run = lane.run}
    <3>1. row' \in {rows, Implemented(rows, mine), To(rows, mine, "failed")}
      BY <1>1 DEF Finish
    <3> HIDE DEF mine
    <3>2. \A i \in Instruction : Implemented(rows, mine)[i].st = IF i \in mine THEN "implemented" ELSE rows[i].st
      BY DEF Implemented, RowType
    <3> QED
      BY <3>1, <3>2, ToFields
  <2>3. Unserved' \subseteq Unserved
    BY <2>2 DEF Unserved
  <2>4. Cardinality(Unserved') \in Nat /\ Cardinality(Unserved') <= Cardinality(Unserved)
    BY <2>3, UnservedShrinks
  <2>5. /\ Phase' = Phase /\ Way' < Way
        /\ Size = Cardinality(Unserved) /\ Size' = Cardinality(Unserved')
    BY <2>1 DEF Phase, Way, Size, FixPlace
  <2>6. Size' < Size \/ Size' = Size
    BY <2>4, <2>5, UnservedFinite, LessOrSame, Zenon
  <2> QED
    BY <2>1, <2>5, <2>6, LeftFalls
<1>2. CASE ~Finish(rows, ok)
  <2>1. /\ lane'.pc = "drainstart" /\ lane'.round = lane.round /\ lane'.rows = Queued(rows)
        /\ row' = rows /\ Queued(rows) # {}
    BY <1>2 DEF Boundary
  <2>2. Unserved' \subseteq Unserved
    BY <2>1 DEF Unserved
  <2>3. PICK i \in Instruction : rows[i].st = "queued"
    BY <2>1 DEF Queued
  <2>4. i \in Unserved /\ i \notin Unserved'
    BY <2>1, <2>3 DEF Unserved, Queued
  <2>5. Cardinality(Unserved') < Cardinality(Unserved)
    BY <2>2, <2>4, UnservedShrinks
  <2>6. /\ Phase' = Phase
        /\ Size = Cardinality(Unserved) /\ Size' = Cardinality(Unserved')
    BY <2>1 DEF Phase, Size, FixPlace
  <2> QED
    BY <2>1, <2>5, <2>6, LeftFalls
<1> QED
  BY <1>1, <1>2

LEMMA RunEndDescends ==
  ASSUME TypeOK, FixRowsOut, NEW ok \in BOOLEAN, FixEnds(ok) \/ DrainEnds(ok)
  PROVE  Lower(Left', Left)
<1>0. row \in [Instruction -> RowType]
  BY DEF TypeOK
<1>1. CASE FixEnds(ok)
  <2>1. Boundary(row, ok) /\ lane.pc = "fix"
    BY <1>1 DEF FixEnds
  <2>2. \A i \in Instruction : row[i].st \in {"none", "queued"} => i \in Unserved
    BY <2>1 DEF FixRowsOut, Unserved
  <2> QED
    BY <1>0, <2>1, <2>2, BoundaryDescends
<1>2. CASE DrainEnds(ok)
  <2> DEFINE st == IF ok THEN "handled" ELSE "failed"
             rows == To(row, lane.rows, st)
  <2>1. Boundary(rows, ok) /\ lane.pc = "drain"
    BY <1>2 DEF DrainEnds
  <2>2. st \in {"handled", "failed"} /\ st \in Status
    BY DEF Status, OpenStatus, Dropped
  <2> HIDE DEF st
  <2>3. rows \in [Instruction -> RowType]
    BY <1>0, <2>2, ToTyped
  <2>4. \A i \in Instruction : rows[i].st = IF i \in lane.rows THEN st ELSE row[i].st
    BY <1>0, ToFields
  <2> HIDE DEF rows
  <2>5. \A i \in Instruction : rows[i].st \in {"none", "queued"} => i \in Unserved
    BY <2>2, <2>4 DEF Unserved
  <2> QED
    BY <2>1, <2>3, <2>5, BoundaryDescends
<1> QED
  BY <1>1, <1>2

(* A step of anyone else moves no lane and unserves no instruction. *)
LEMMA OthersDescend ==
  ASSUME TypeOK, UNCHANGED lane,
         \A i \in Instruction : row'[i].st \in {"none", "queued"} => row[i].st \in {"none", "queued"}
  PROVE  UNCHANGED <<lane, Left>> \/ Lower(Left', Left)
<1>1. Unserved' \subseteq Unserved
  BY DEF Unserved
<1>2. lane'.round = lane.round /\ lane'.misses = lane.misses /\ Phase' = Phase /\ Way' = Way
  BY DEF Phase, Way
<1>3. CASE lane.pc \notin FixPlace \/ Unserved' = Unserved
  <2>1. Size' = Size
    BY <1>3 DEF Size
  <2> QED
    BY <1>2, <2>1 DEF Left, Phase, Size
<1>4. CASE lane.pc \in FixPlace /\ Unserved' # Unserved
  <2>1. Size' < Size
    BY <1>1, <1>4, UnservedShrinks DEF Size
  <2> QED
    BY <1>2, <2>1, LeftFalls
<1> QED
  BY <1>3, <1>4

LEMMA OthersUnserveNone ==
  ASSUME TypeOK, Running,
         \/ Command /\ ~Claim
         \/ ResumeStep \/ FixRelaunches \/ HandleDrops \/ Settled
         \/ \E i \in Interrupt : Stopped(i)
  PROVE  /\ UNCHANGED lane
         /\ \A i \in Instruction : row'[i].st \in {"none", "queued"} => row[i].st \in {"none", "queued"}
<1> USE DEF agents, resumes, commands, bounds
<1>0. row \in [Instruction -> RowType]
  BY DEF TypeOK
<1> DEFINE Kept == \A i \in Instruction : row'[i].st \in {"none", "queued"} => row[i].st \in {"none", "queued"}
<1>1. ASSUME NEW i \in Instruction, AppendTo(i) \/ Supersede(i) \/ TooLate(i) PROVE UNCHANGED lane /\ Kept
  <2>1. UNCHANGED lane /\ row[i].st = "none"
    BY <1>1, Zenon DEF AppendTo, Supersede, TooLate
  <2>2. \E r : row' = [row EXCEPT ![i] = r]
    BY <1>1, Zenon DEF AppendTo, Supersede, TooLate
  <2> QED
    BY <1>0, <2>1, <2>2
<1>2. CASE Resume \/ (\E to \in Terminal : Settle(to)) \/ FixRelaunches \/ HandleDrops
  BY <1>2 DEF Resume, Settle, FixRelaunches, HandleDrops
<1>3. CASE ResumeStep
  <2>1. UNCHANGED lane
    BY <1>3 DEF ResumeStep, ResumeReads, ResumeStarts, ResumeFails, ResumeEnds
  <2>2. \E S : row' \in {row, To(row, S, "handled"), To(row, S, "failed"), Delivered(row, S, "implementor", Fresh)}
    BY <1>3 DEF ResumeStep, ResumeReads, ResumeStarts, ResumeFails, ResumeEnds
  <2> QED
    BY <1>0, <2>1, <2>2, ToFields, DeliveredFields
<1>4. CASE Settled \/ \E i \in Interrupt : Stopped(i)
  <2>1. UNCHANGED lane /\ \E S : row' \in {row, To(row, S, "failed")}
    BY <1>4 DEF Settled, Stopped, stopped
  <2> QED
    BY <1>0, <2>1, ToFields
<1> QED
  BY <1>1, <1>2, <1>3, <1>4 DEF Command, Instruction

LEMMA LeftIsNatural ==
  ASSUME TypeOK
  PROVE  \A k \in 1..5 : Left[k] \in Nat
<1>1. /\ FixRounds - lane.round \in Nat /\ Misses - lane.misses \in Nat
      /\ (Recoveries + Passes) - (lane.tries + lane.passes) \in Nat
  <2>1. /\ lane.round \in 0..FixRounds /\ lane.misses \in 0..Misses
        /\ lane.tries \in 0..Recoveries /\ lane.passes \in 0..Passes
    BY DEF TypeOK, LaneType
  <2> QED
    BY <2>1, ConstantsOK
<1>2. Phase \in Nat /\ Size \in Nat /\ Way \in Nat
  BY <1>1, UnservedFinite DEF Phase, Size, Way
<1>3. Left = <<FixRounds - lane.round, Phase, Size, Way, Misses - lane.misses>>
  BY DEF Left, Phase, Size
<1> QED
  BY <1>1, <1>2, <1>3

(* A lane cannot go on for ever: every step of it lowers a lexicographic   *)
(* measure over natural numbers, no command raises it, and so the number   *)
(* of its reviews, recoveries, fix rounds and follow-up runs is bounded    *)
(* whatever the owner sends (runAutoReview, reviewToVerdict,               *)
(* drainLateReviewerInjections, drainQueuedFollowUps).                     *)
THEOREM LaneSpends == Spec => LaneDescends
<1>1. TypeInv /\ FixRowsOut /\ [Next]_vars =>
        [Running /\ Running' => UNCHANGED <<lane, Left>> \/ Lower(Left', Left)]_vars
  <2> SUFFICES ASSUME TypeOK, FixRowsOut, Next, Running, Running'
               PROVE  UNCHANGED <<lane, Left>> \/ Lower(Left', Left)
    BY DEF TypeInv
  <2>1. ~Claim /\ ~Unwind /\ ~Boot
    <3>1. AtRest.pc = "idle"
      BY ConstantsTyped
    <3>2. ~Claim
      BY ParkedHasNoLane DEF Claim
    <3> QED
      BY <3>1, <3>2 DEF Unwind, unwind, Boot, Running
  <2>2. CASE LaneStep
    BY <2>1, <2>2, TurnDescends, ChangeDescends, FixStartDescends, RunEndDescends DEF LaneStep, Turn
  <2>3. CASE ~LaneStep
    BY <2>1, <2>3, OthersUnserveNone, OthersDescend DEF Next
  <2> QED
    BY <2>2, <2>3
<1>2. Init => FixRowsOut
  BY DEF Init, AtRest, FixRowsOut
<1>3. TypeInv => TypeOK
  BY DEF TypeInv
<1> QED
  BY <1>1, <1>2, <1>3, TypeInvInit, TypeInvStep, FixRowsOutKept, PTL DEF Spec, LaneDescends
=============================================================================
