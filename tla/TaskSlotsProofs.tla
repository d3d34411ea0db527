--------------------------- MODULE TaskSlotsProofs ---------------------------
(***************************************************************************)
(* The type invariant of TaskSlots for any number of tasks, runs, commands *)
(* and restarts: first what each building block leaves typed, then one     *)
(* lemma per handler.                                                      *)
(***************************************************************************)
EXTENDS TaskSlots, SequenceTheorems, TLAPS

(* No task waits twice. *)
Once(q) == \A i, j \in 1..Len(q) : q[i] = q[j] => i = j

(* What the queue holds once one entry is taken out. *)
LEMMA RemoveEntries ==
  ASSUME queue \in Seq(Task), NEW i \in 1..Len(queue)
  PROVE  /\ Remove(i) \in Seq(Task) /\ Len(Remove(i)) = Len(queue) - 1
         /\ \A j \in 1..(Len(queue) - 1) : Remove(i)[j] = IF j < i THEN queue[j] ELSE queue[j + 1]
<1> DEFINE a == SubSeq(queue, 1, i - 1)
           b == SubSeq(queue, i + 1, Len(queue))
<1>0. Len(queue) \in Nat /\ i \in Nat /\ i - 1 \in Int /\ i + 1 \in Int
  BY LenProperties
<1>1. /\ a \in Seq(Task) /\ Len(a) = i - 1
      /\ \A j \in 1..(i - 1) : a[j] = queue[j]
  <2>1. \A j \in 1..(i - 1) : queue[j] \in Task
    BY <1>0, ElementOfSeq
  <2> HIDE DEF a
  <2>2. QED
    BY <1>0, <2>1, SubSeqProperties DEF a
<1>2. /\ b \in Seq(Task) /\ Len(b) = Len(queue) - i
      /\ \A j \in 1..(Len(queue) - i) : b[j] = queue[j + i]
  <2>1. \A j \in (i + 1)..Len(queue) : queue[j] \in Task
    BY <1>0, ElementOfSeq
  <2>2. QED
    BY <1>0, <2>1, SubSeqProperties
<1>3. Remove(i) = a \o b
  BY DEF Remove
<1> HIDE DEF a, b
<1>4. /\ Remove(i) \in Seq(Task) /\ Len(Remove(i)) = Len(queue) - 1
      /\ \A j \in 1..(Len(queue) - 1) : Remove(i)[j] = IF j <= i - 1 THEN a[j] ELSE b[j - (i - 1)]
  <2>1. /\ a \o b \in Seq(Task) /\ Len(a \o b) = Len(a) + Len(b)
        /\ \A j \in 1..(Len(a) + Len(b)) : (a \o b)[j] = IF j <= Len(a) THEN a[j] ELSE b[j - Len(a)]
    BY <1>1, <1>2, ConcatProperties
  <2>2. Len(a) + Len(b) = Len(queue) - 1
    BY <1>0, <1>1, <1>2
  <2>3. QED
    BY <1>1, <1>3, <2>1, <2>2
<1>5. \A j \in 1..(Len(queue) - 1) : Remove(i)[j] = IF j < i THEN queue[j] ELSE queue[j + 1]
  <2>1. TAKE j \in 1..(Len(queue) - 1)
  <2>2. CASE j < i
    <3>1. j <= i - 1 /\ j \in 1..(i - 1)
      BY <1>0, <2>2
    <3>2. QED
      BY <1>1, <1>4, <2>2, <3>1
  <2>3. CASE ~(j < i)
    <3>1. ~(j <= i - 1) /\ j - (i - 1) \in 1..(Len(queue) - i) /\ j - (i - 1) + i = j + 1
      BY <1>0, <2>3
    <3>2. QED
      BY <1>2, <1>4, <2>3, <3>1
  <2>4. QED
    BY <2>2, <2>3
<1>6. QED
  BY <1>4, <1>5

(* Taking one entry out of a queue without duplicates leaves such a queue. *)
LEMMA RemoveTyped ==
  ASSUME queue \in Seq(Task), Once(queue), NEW i \in 1..Len(queue)
  PROVE  Remove(i) \in Seq(Task) /\ Once(Remove(i))
<1>1. Len(queue) \in Nat /\ i \in Nat
  BY LenProperties
<1>2. /\ Remove(i) \in Seq(Task) /\ Len(Remove(i)) = Len(queue) - 1
      /\ \A j \in 1..(Len(queue) - 1) : Remove(i)[j] = IF j < i THEN queue[j] ELSE queue[j + 1]
  BY RemoveEntries
<1> DEFINE rest == Remove(i)
           place(j) == IF j < i THEN j ELSE j + 1
<1>3. \A j \in 1..Len(rest) : place(j) \in 1..Len(queue) /\ rest[j] = queue[place(j)]
  BY <1>1, <1>2
<1>4. \A j, k \in 1..Len(rest) : place(j) = place(k) => j = k
  BY <1>1, <1>2
<1> HIDE DEF rest, place
<1>5. Once(rest)
  BY <1>3, <1>4 DEF Once
<1>6. QED
  BY <1>2, <1>5 DEF rest

(* dropFromQueue leaves a queue without duplicates. *)
LEMMA DroppedTyped ==
  ASSUME queue \in Seq(Task), Once(queue), NEW t \in Task
  PROVE  Dropped(t) \in Seq(Task) /\ Once(Dropped(t))
<1>1. CASE Queued(t)
  <2>1. (CHOOSE i \in 1..Len(queue) : queue[i] = t) \in 1..Len(queue)
    BY <1>1 DEF Queued
  <2>2. QED
    BY <1>1, <2>1, RemoveTyped DEF Dropped
<1>2. QED
  BY <1>1 DEF Dropped

(* Appending a task that is not waiting leaves no duplicates. *)
LEMMA AppendTyped ==
  ASSUME NEW q \in Seq(Task), Once(q), NEW t \in Task, ~\E i \in 1..Len(q) : q[i] = t
  PROVE  Append(q, t) \in Seq(Task) /\ Once(Append(q, t))
<1>1. Len(q) \in Nat
  BY LenProperties
<1>2. Append(q, t) \in Seq(Task) /\ Len(Append(q, t)) = Len(q) + 1
  OBVIOUS
<1>3. \A i \in 1..(Len(q) + 1) : Append(q, t)[i] = IF i <= Len(q) THEN q[i] ELSE t
  BY <1>1
<1>4. QED
  BY <1>1, <1>2, <1>3 DEF Once

Wakes == {"none", "timer", "held"}

(* Firing the held auto-resumes leaves each wake-up in its type. *)
LEMMA ReleasedTyped == ASSUME TypeOK PROVE Released \in [Task -> Wakes]
BY DEF TypeOK, Released, Wakes

(* A start fills a run record and a slot with values of their types. *)
LEMMA StartTyped ==
  ASSUME TypeOK, NEW t \in Task, NEW kind \in {"queued", "immediate", "resume"},
         NEW at \in {"prep", "select"}, Start(t, kind, at)
  PROVE  runs' \in [Task -> [Gen -> Run]] /\ slot' \in [Task -> 0..MaxGen]
<1>1. PICK g \in Gen :
        /\ runs' = [runs EXCEPT ![t][g] = [at |-> at, kind |-> kind, turn |-> "none", stops |-> 0]]
        /\ slot' = [slot EXCEPT ![t] = g]
  BY DEF Start
<1>2. [at |-> at, kind |-> kind, turn |-> "none", stops |-> 0] \in Run
  BY ConstantsOK DEF Run
<1>3. QED
  BY <1>1, <1>2, ConstantsOK DEF TypeOK, Gen

(* A run record is replaced by a run record. *)
LEMMA AtTyped ==
  ASSUME TypeOK, NEW t \in Task, NEW g \in Gen, NEW r \in Run, At(t, g, r)
  PROVE  runs' \in [Task -> [Gen -> Run]]
BY DEF TypeOK, At

Turns == {"none", "busy", "idle"}
Awaits == {"none", "prep", "plan", "select", "start", "work", "unwind", "throw"}

(* The record of every run has its type, and so has every update below. *)
LEMMA RunTyped == ASSUME TypeOK, NEW t \in Task, NEW g \in Gen PROVE runs[t][g] \in Run
BY DEF TypeOK

(* A run goes on to another await. *)
LEMMA RunAt ==
  ASSUME TypeOK, NEW t \in Task, NEW g \in Gen, NEW at \in Awaits
  PROVE  [runs[t][g] EXCEPT !.at = at] \in Run
BY RunTyped DEF Run, Awaits

(* A turn begins or ends. *)
LEMMA RunTurn ==
  ASSUME TypeOK, NEW t \in Task, NEW g \in Gen, NEW turn \in Turns
  PROVE  [runs[t][g] EXCEPT !.turn = turn] \in Run
BY RunTyped DEF Run, Turns

(* A run goes on to another await and its turn begins or ends. *)
LEMMA RunAtTurn ==
  ASSUME TypeOK, NEW t \in Task, NEW g \in Gen, NEW at \in Awaits, NEW turn \in Turns
  PROVE  [runs[t][g] EXCEPT !.at = at, !.turn = turn] \in Run
BY RunTyped DEF Run, Awaits, Turns

(* A run remembers which session its finally stops. *)
LEMMA RunUnwinds ==
  ASSUME TypeOK, NEW t \in Task, NEW g \in Gen, NEW at \in Awaits
  PROVE  /\ [runs[t][g] EXCEPT !.at = at, !.stops = live[t]] \in Run
         /\ [runs[t][g] EXCEPT !.at = at, !.turn = "none", !.stops = live[t]] \in Run
<1>1. runs[t][g] \in Run /\ live[t] \in 0..MaxGen
  BY DEF TypeOK
<1>2. QED
  BY <1>1 DEF Run, Awaits

(* The empty record is a run record. *)
LEMMA NoRunTyped == NoRun \in Run
BY ConstantsOK DEF NoRun, Run

(* The part of TypeOK that Move touches, and the part it leaves alone. *)
MoveOK == /\ state \in [Task -> State] /\ slot \in [Task -> 0..MaxGen]
          /\ scan \in Nat /\ wake \in [Task -> Wakes]
RunsOK == runs \in [Task -> [Gen -> Run]]
LiveOK == live \in [Task -> 0..MaxGen] /\ resuming \in SUBSET Task
RestOK == /\ queue \in Seq(Task) /\ QueuedOnce /\ call \in [Task -> Call]
          /\ cowork \in SUBSET Repo /\ draining \in BOOLEAN /\ requeue \in SUBSET Task
          /\ commands \in 0..MaxCommands /\ bounces \in 0..MaxBounces

(* The parts make up the type invariant. *)
LEMMA Whole ==
  ASSUME MoveOK', RunsOK', LiveOK', RestOK'
  PROVE  TypeOK'
BY DEF TypeOK, MoveOK, RunsOK, LiveOK, RestOK, QueuedOnce, Wakes

(* Writing a row, with or without the release of its slot. *)
LEMMA MoveTyped ==
  ASSUME TypeOK, NEW t \in Task, NEW s \in State, NEW frees, Move(t, s, frees)
  PROVE  MoveOK'
<1>1. state' \in [Task -> State]
  BY DEF TypeOK, Move
<1>2. /\ slot \in [Task -> 0..MaxGen] /\ scan \in Nat /\ wake \in [Task -> Wakes]
      /\ 0 \in 0..MaxGen /\ 1 \in Nat /\ Released \in [Task -> Wakes]
  BY ReleasedTyped, ConstantsOK DEF TypeOK, Wakes
<1>3. \/ slot' = [slot EXCEPT ![t] = 0] /\ scan' = 1 /\ wake' = Released
      \/ slot' = slot /\ scan' = scan /\ wake' = wake
  BY DEF Move
<1>4. QED
  BY <1>1, <1>2, <1>3 DEF MoveOK

(* setState keeps rows, slots, the pump and the wake-ups typed. *)
LEMMA PublishTyped ==
  ASSUME TypeOK, NEW t \in Task, NEW s \in State, Publish(t, s)
  PROVE  MoveOK'
BY MoveTyped DEF Publish

(* A run that returns. *)
LEMMA LeaveTyped ==
  ASSUME TypeOK, NEW t \in Task, NEW g \in Gen, Leave(t, g)
  PROVE  MoveOK' /\ RunsOK'
<1>1. state[t] \in State
  BY DEF TypeOK
<1>2. MoveOK'
  BY <1>1, MoveTyped DEF Leave
<1>3. RunsOK'
  BY AtTyped, NoRunTyped DEF Leave, RunsOK
<1>4. QED
  BY <1>2, <1>3

(* A run that parks or fails its task and returns. *)
LEMMA SettleTyped ==
  ASSUME TypeOK, NEW t \in Task, NEW g \in Gen, NEW s \in State, Settle(t, g, s)
  PROVE  MoveOK' /\ RunsOK'
<1>1. MoveOK'
  BY PublishTyped DEF Settle
<1>2. RunsOK'
  BY AtTyped, NoRunTyped DEF Settle, RunsOK
<1>3. QED
  BY <1>1, <1>2

(* What a run step leaves alone keeps its type. *)
LEMMA CommandsUnchanged == ASSUME TypeOK, UNCHANGED Commands PROVE RestOK'
BY DEF TypeOK, Commands, RestOK, QueuedOnce

(* The steps of a run, one lemma for each await. *)
LEMMA PrepDoneTyped ==
  ASSUME TypeOK, NEW t \in Task, NEW g \in Gen, PrepDone(t, g)
  PROVE  TypeOK'
<1>1. MoveOK' /\ RunsOK'
  <2>1. CASE Settle(t, g, "failed")
    BY <2>1, SettleTyped DEF State
  <2>2. CASE /\ Publish(t, "planning")
             /\ At(t, g, [runs[t][g] EXCEPT !.at = "plan", !.turn = "busy"])
    <3>1. [runs[t][g] EXCEPT !.at = "plan", !.turn = "busy"] \in Run
      BY RunAt, RunAtTurn DEF Awaits, Turns
    <3>2. QED
      BY <2>2, <3>1, PublishTyped, AtTyped DEF State, RunsOK
  <2>3. CASE Next0(t, g, "select") /\ UNCHANGED <<state, slot, scan, wake>>
    <3>1. [runs[t][g] EXCEPT !.at = "select"] \in Run
      BY RunAt, RunAtTurn DEF Awaits, Turns
    <3>2. QED
      BY <2>3, <3>1, AtTyped DEF Next0, TypeOK, MoveOK, RunsOK, Wakes
  <2>4. QED
    BY <2>1, <2>2, <2>3 DEF PrepDone
<1>2. LiveOK' /\ RestOK'
  BY CommandsUnchanged DEF PrepDone, TypeOK, LiveOK
<1>3. QED
  BY <1>1, <1>2, Whole

(* A step that moves neither a row nor a slot. *)
LEMMA FrameOK == ASSUME TypeOK, UNCHANGED <<state, slot, scan, wake>> PROVE MoveOK'
BY DEF TypeOK, MoveOK, Wakes

(* A run goes on to its next await. *)
LEMMA Next0Typed ==
  ASSUME TypeOK, NEW t \in Task, NEW g \in Gen, NEW at \in Awaits, Next0(t, g, at)
  PROVE  RunsOK'
BY RunAt, AtTyped DEF Next0, RunsOK

(* startImplementor. *)
LEMMA StartImplementorTyped ==
  ASSUME TypeOK, NEW t \in Task, NEW g \in Gen, startImplementor(t, g)
  PROVE  MoveOK' /\ RunsOK' /\ live' \in [Task -> 0..MaxGen]
<1>1. MoveOK'
  BY PublishTyped DEF startImplementor, State
<1>2. \A h \in Gen : /\ [runs[t][h] EXCEPT !.at = "work", !.turn = "busy"] \in Run
                     /\ [runs[t][h] EXCEPT !.turn = "none"] \in Run
                     /\ runs[t][h] \in Run
  BY RunTyped, RunTurn, RunAtTurn DEF Awaits, Turns
<1>3. RunsOK'
  <2> DEFINE new == [h \in Gen |->
        IF h = g THEN [runs[t][h] EXCEPT !.at = "work", !.turn = "busy"]
        ELSE IF h = live[t] THEN [runs[t][h] EXCEPT !.turn = "none"] ELSE runs[t][h]]
  <2>1. new \in [Gen -> Run]
    BY <1>2
  <2>2. runs' = [runs EXCEPT ![t] = new]
    BY DEF startImplementor
  <2> HIDE DEF new
  <2>3. QED
    BY <2>1, <2>2 DEF TypeOK, RunsOK
<1>4. live' \in [Task -> 0..MaxGen]
  <2>1. g \in 0..MaxGen
    BY ConstantsOK DEF Gen
  <2>2. live \in [Task -> 0..MaxGen] /\ live' = [live EXCEPT ![t] = g]
    BY DEF startImplementor, TypeOK
  <2>3. QED
    BY <2>1, <2>2
<1>5. QED
  BY <1>1, <1>3, <1>4

(* The planner returns. *)
LEMMA PlanDoneTyped ==
  ASSUME TypeOK, NEW t \in Task, NEW g \in Gen, PlanDone(t, g)
  PROVE  TypeOK'
<1>1. MoveOK' /\ RunsOK'
  <2>1. CASE Leave(t, g)
    BY <2>1, LeaveTyped
  <2>2. CASE Settle(t, g, "review")
    BY <2>2, SettleTyped DEF State
  <2>3. CASE /\ At(t, g, [runs[t][g] EXCEPT !.at = "select", !.turn = "none"])
             /\ UNCHANGED <<state, slot, scan, wake>>
    <3>1. [runs[t][g] EXCEPT !.at = "select", !.turn = "none"] \in Run
      BY RunAtTurn DEF Awaits, Turns
    <3>2. QED
      BY <2>3, <3>1, AtTyped, FrameOK DEF RunsOK
  <2>4. QED
    BY <2>1, <2>2, <2>3 DEF PlanDone
<1>2. LiveOK' /\ RestOK'
  BY CommandsUnchanged DEF PlanDone, TypeOK, LiveOK
<1>3. QED
  BY <1>1, <1>2, Whole

(* A pipeline has its model. *)
LEMMA SelectDoneTyped ==
  ASSUME TypeOK, NEW t \in Task, NEW g \in Gen, SelectDone(t, g)
  PROVE  TypeOK'
<1>0. live \in [Task -> 0..MaxGen]
  BY DEF TypeOK
<1>1. MoveOK' /\ RunsOK' /\ live' \in [Task -> 0..MaxGen]
  <2>1. CASE Leave(t, g) /\ UNCHANGED live
    BY <1>0, <2>1, LeaveTyped
  <2>2. CASE \E s \in {"failed", "review"} : Settle(t, g, s) /\ UNCHANGED live
    BY <1>0, <2>2, SettleTyped DEF State
  <2>3. CASE Next0(t, g, "start") /\ UNCHANGED <<state, slot, scan, wake, live>>
    BY <1>0, <2>3, Next0Typed, FrameOK DEF Awaits
  <2>4. CASE startImplementor(t, g)
    BY <2>4, StartImplementorTyped
  <2>5. QED
    BY <2>1, <2>2, <2>3, <2>4 DEF SelectDone
<1>2. LiveOK' /\ RestOK'
  BY <1>1, CommandsUnchanged DEF SelectDone, TypeOK, LiveOK
<1>3. QED
  BY <1>1, <1>2, Whole

(* A pipeline has compressed its context. *)
LEMMA StartDoneTyped ==
  ASSUME TypeOK, NEW t \in Task, NEW g \in Gen, StartDone(t, g)
  PROVE  TypeOK'
<1>0. live \in [Task -> 0..MaxGen]
  BY DEF TypeOK
<1>1. MoveOK' /\ RunsOK' /\ live' \in [Task -> 0..MaxGen]
  <2>1. ASSUME NEW at \in {"unwind", "throw"},
               At(t, g, [runs[t][g] EXCEPT !.at = at, !.stops = live[t]]),
               UNCHANGED <<state, slot, scan, wake, live>>
        PROVE  MoveOK' /\ RunsOK' /\ live' \in [Task -> 0..MaxGen]
    <3>1. [runs[t][g] EXCEPT !.at = at, !.stops = live[t]] \in Run
      BY RunUnwinds DEF Awaits
    <3>2. QED
      BY <1>0, <2>1, <3>1, AtTyped, FrameOK DEF RunsOK
  <2>2. CASE startImplementor(t, g)
    BY <2>2, StartImplementorTyped
  <2>3. QED
    BY <2>1, <2>2 DEF StartDone
<1>2. LiveOK' /\ RestOK'
  BY <1>1, CommandsUnchanged DEF StartDone, TypeOK, LiveOK
<1>3. QED
  BY <1>1, <1>2, Whole

(* A resume has its model. *)
LEMMA ResumeSelectDoneTyped ==
  ASSUME TypeOK, NEW t \in Task, NEW g \in Gen, ResumeSelectDone(t, g)
  PROVE  TypeOK'
<1>0. live \in [Task -> 0..MaxGen] /\ resuming \in SUBSET Task
  BY DEF TypeOK
<1>1. MoveOK' /\ RunsOK' /\ live' \in [Task -> 0..MaxGen]
  <2>1. CASE Leave(t, g) /\ UNCHANGED live
    BY <1>0, <2>1, LeaveTyped
  <2>2. CASE (\E s \in {"failed", "review"} : Settle(t, g, s)) /\ UNCHANGED live
    BY <1>0, <2>2, SettleTyped DEF State
  <2>3. CASE Next0(t, g, "start") /\ UNCHANGED <<state, slot, scan, wake, live>>
    BY <1>0, <2>3, Next0Typed, FrameOK DEF Awaits
  <2>4. CASE startImplementor(t, g)
    BY <2>4, StartImplementorTyped
  <2>5. QED
    BY <2>1, <2>2, <2>3, <2>4 DEF ResumeSelectDone
<1>2. resuming' \in SUBSET Task /\ RestOK'
  BY <1>0, CommandsUnchanged DEF ResumeSelectDone
<1>3. QED
  BY <1>1, <1>2, Whole DEF LiveOK

(* A resume has compressed its context. *)
LEMMA ResumeStartDoneTyped ==
  ASSUME TypeOK, NEW t \in Task, NEW g \in Gen, ResumeStartDone(t, g)
  PROVE  TypeOK'
<1>0. live \in [Task -> 0..MaxGen] /\ resuming \in SUBSET Task
  BY DEF TypeOK
<1>1. MoveOK' /\ RunsOK' /\ live' \in [Task -> 0..MaxGen]
  <2>1. CASE Leave(t, g) /\ UNCHANGED live
    BY <1>0, <2>1, LeaveTyped
  <2>2. CASE Settle(t, g, "review") /\ UNCHANGED live
    BY <1>0, <2>2, SettleTyped DEF State
  <2>3. CASE startImplementor(t, g)
    BY <2>3, StartImplementorTyped
  <2>4. QED
    BY <2>1, <2>2, <2>3 DEF ResumeStartDone
<1>2. resuming' \in SUBSET Task /\ RestOK'
  BY <1>0, CommandsUnchanged DEF ResumeStartDone
<1>3. QED
  BY <1>1, <1>2, Whole DEF LiveOK

(* A pipeline has its result. *)
LEMMA WorkDoneTyped ==
  ASSUME TypeOK, NEW t \in Task, NEW g \in Gen, WorkDone(t, g)
  PROVE  TypeOK'
<1>1. RunsOK'
  <2>1. PICK at \in {"unwind", "throw"} :
          At(t, g, [runs[t][g] EXCEPT !.at = at, !.turn = "none", !.stops = live[t]])
    BY DEF WorkDone
  <2>2. [runs[t][g] EXCEPT !.at = at, !.turn = "none", !.stops = live[t]] \in Run
    BY RunUnwinds DEF Awaits
  <2>3. QED
    BY <2>1, <2>2, AtTyped DEF RunsOK
<1>2. MoveOK'
  <2>1. \/ UNCHANGED <<state, slot, scan, wake>>
        \/ \E s \in {"done", "review", "paused"} : Publish(t, s)
    BY DEF WorkDone
  <2>2. QED
    BY <2>1, FrameOK, PublishTyped DEF State
<1>3. LiveOK' /\ RestOK'
  BY CommandsUnchanged DEF WorkDone, TypeOK, LiveOK
<1>4. QED
  BY <1>1, <1>2, <1>3, Whole

(* A resume has its result. *)
LEMMA ResumeWorkDoneTyped ==
  ASSUME TypeOK, NEW t \in Task, NEW g \in Gen, ResumeWorkDone(t, g)
  PROVE  TypeOK'
<1>1. RunsOK'
  <2>1. [runs[t][g] EXCEPT !.at = "unwind", !.turn = "none", !.stops = live[t]] \in Run
    BY RunUnwinds DEF Awaits
  <2>2. QED
    BY <2>1, AtTyped DEF RunsOK, ResumeWorkDone
<1>2. MoveOK'
  <2>1. \/ \E s \in {"review", "paused"} : Publish(t, s)
        \/ Move(t, state[t], slot[t] = g)
    BY DEF ResumeWorkDone
  <2>2. state[t] \in State
    BY DEF TypeOK
  <2>3. QED
    BY <2>1, <2>2, MoveTyped, PublishTyped DEF State
<1>3. LiveOK' /\ RestOK'
  BY CommandsUnchanged DEF ResumeWorkDone, TypeOK, LiveOK
<1>4. QED
  BY <1>1, <1>2, <1>3, Whole

(* A finally has stopped its session. *)
LEMMA UnwoundTyped ==
  ASSUME TypeOK, NEW t \in Task, NEW g \in Gen, Unwound(t, g)
  PROVE  TypeOK'
<1> DEFINE h == runs[t][g].stops
           new == [k \in Gen |->
             IF k = g THEN NoRun
             ELSE IF k = h /\ live[t] = h THEN [runs[t][k] EXCEPT !.turn = "none"]
             ELSE runs[t][k]]
<1>1. RunsOK'
  <2>1. \A k \in Gen : runs[t][k] \in Run /\ [runs[t][k] EXCEPT !.turn = "none"] \in Run
    BY RunTyped, RunTurn DEF Turns
  <2>2. new \in [Gen -> Run]
    BY <2>1, NoRunTyped
  <2>3. runs' = [runs EXCEPT ![t] = new]
    BY DEF Unwound
  <2> HIDE DEF new
  <2>4. QED
    BY <2>2, <2>3 DEF TypeOK, RunsOK
<1>2. LiveOK'
  <2>1. 0 \in 0..MaxGen
    BY ConstantsOK
  <2>2. live \in [Task -> 0..MaxGen] /\ resuming \in SUBSET Task
    BY DEF TypeOK
  <2>3. live' = [live EXCEPT ![t] = IF live[t] = h THEN 0 ELSE live[t]] /\ resuming' = resuming
    BY DEF Unwound
  <2>4. QED
    BY <2>1, <2>2, <2>3 DEF LiveOK
<1>3. MoveOK'
  <2>1. Publish(t, "failed") \/ Move(t, state[t], slot[t] = g)
    BY DEF Unwound
  <2>2. state[t] \in State
    BY DEF TypeOK
  <2>3. QED
    BY <2>1, <2>2, MoveTyped, PublishTyped DEF State
<1>4. RestOK'
  BY CommandsUnchanged DEF Unwound
<1>5. QED
  BY <1>1, <1>2, <1>3, <1>4, Whole

(* What a start leaves of the types of the caps' bookkeeping. *)
LEMMA StartMoves ==
  ASSUME TypeOK, NEW t \in Task, NEW kind \in {"queued", "immediate", "resume"},
         NEW at \in {"prep", "select"}, Start(t, kind, at),
         state' \in [Task -> State], UNCHANGED <<scan, wake>>
  PROVE  MoveOK' /\ RunsOK'
BY StartTyped DEF MoveOK, RunsOK, TypeOK, Wakes

(* enqueueOrRun keeps every queue it is given free of duplicates. *)
LEMMA EnqueueTyped ==
  ASSUME TypeOK, NEW t \in Task, NEW s \in State, NEW q \in Seq(Task), Once(q),
         enqueueOrRun(t, s, q), UNCHANGED <<scan, wake>>
  PROVE  MoveOK' /\ RunsOK' /\ queue' \in Seq(Task) /\ QueuedOnce'
<1>1. state' \in [Task -> State]
  BY DEF enqueueOrRun, TypeOK, State
<1>2. MoveOK' /\ RunsOK'
  <2>1. CASE UNCHANGED <<runs, slot>>
    BY <1>1, <2>1 DEF MoveOK, RunsOK, TypeOK, Wakes
  <2>2. CASE Start(t, "queued", "prep")
    BY <1>1, <2>2, StartMoves
  <2>3. QED
    BY <2>1, <2>2 DEF enqueueOrRun
<1>3. queue' \in Seq(Task) /\ Once(queue')
  <2>1. CASE queue' = q
    BY <2>1
  <2>2. CASE queue' = IF \E i \in 1..Len(q) : q[i] = t THEN q ELSE Append(q, t)
    <3>1. CASE \E i \in 1..Len(q) : q[i] = t
      BY <2>2, <3>1
    <3>2. CASE ~\E i \in 1..Len(q) : q[i] = t
      BY <2>2, <3>2, AppendTyped
    <3>3. QED
      BY <3>1, <3>2
  <2>3. QED
    BY <2>1, <2>2 DEF enqueueOrRun
<1>4. QED
  BY <1>2, <1>3 DEF Once, QueuedOnce

(* One iteration of the pump. *)
LEMMA PumpStepTyped ==
  ASSUME TypeOK, PumpStep
  PROVE  TypeOK'
<1>0. /\ state \in [Task -> State] /\ queue \in Seq(Task) /\ Once(queue) /\ scan \in Nat
      /\ Len(queue) \in Nat
  BY LenProperties DEF TypeOK, Once, QueuedOnce
<1>1. LiveOK' /\ /\ call' \in [Task -> Call] /\ cowork' \in SUBSET Repo /\ draining' \in BOOLEAN
                 /\ requeue' \in SUBSET Task /\ commands' \in 0..MaxCommands
                 /\ bounces' \in 0..MaxBounces
  BY DEF PumpStep, Rows, TypeOK, LiveOK
<1>2. CASE scan' = 0 /\ UNCHANGED <<state, runs, slot, queue, wake>>
  BY <1>0, <1>1, <1>2, Whole DEF TypeOK, MoveOK, RunsOK, RestOK, QueuedOnce, Wakes
<1>3. CASE scan' = scan + 1 /\ UNCHANGED <<state, runs, slot, queue, wake>>
  BY <1>0, <1>1, <1>3, Whole DEF TypeOK, MoveOK, RunsOK, RestOK, QueuedOnce, Wakes
<1>4. CASE /\ scan > 0 /\ scan <= Len(queue) /\ queue' = Remove(scan)
           /\ UNCHANGED <<state, scan, wake>>
           /\ UNCHANGED <<runs, slot>> \/ Start(queue[scan], "queued", "prep")
  <2>1. scan \in 1..Len(queue)
    BY <1>0, <1>4
  <2>2. queue[scan] \in Task
    BY <1>0, <2>1, ElementOfSeq
  <2>3. queue' \in Seq(Task) /\ QueuedOnce'
    BY <1>0, <1>4, <2>1, RemoveTyped DEF Once, QueuedOnce
  <2>4. MoveOK' /\ RunsOK'
    <3>1. CASE UNCHANGED <<runs, slot>>
      BY <1>4, <3>1 DEF MoveOK, RunsOK, TypeOK, Wakes
    <3>2. state' \in [Task -> State]
      BY <1>0, <1>4
    <3>3. CASE Start(queue[scan], "queued", "prep")
      BY <1>4, <2>2, <3>2, <3>3, StartMoves
    <3>4. QED
      BY <1>4, <3>1, <3>3
  <2>5. QED
    BY <1>1, <2>3, <2>4, Whole DEF RestOK
<1>5. QED
  BY <1>2, <1>3, <1>4 DEF PumpStep

Ops == {"none", "dispatch", "retry", "resume", "autoResume", "pause", "cancel", "close", "done"}

(* The continuation of a command is replaced by one of its type. *)
LEMMA CallSet ==
  ASSUME TypeOK, NEW t \in Task, NEW c \in Call, call' = [call EXCEPT ![t] = c]
  PROVE  call' \in [Task -> Call]
BY DEF TypeOK

(* Every continuation a command leaves has its type. *)
LEMMA CallTyped ==
  ASSUME TypeOK, NEW t \in Task
  PROVE  /\ \A op \in Ops, s \in State, g \in 0..MaxGen :
              call' = [call EXCEPT ![t] = [op |-> op, saw |-> s, run |-> g]] => call' \in [Task -> Call]
         /\ call' = [call EXCEPT ![t] = NoCall] => call' \in [Task -> Call]
<1>1. ASSUME NEW op \in Ops, NEW s \in State, NEW g \in 0..MaxGen,
             call' = [call EXCEPT ![t] = [op |-> op, saw |-> s, run |-> g]]
      PROVE  call' \in [Task -> Call]
  <2>1. [op |-> op, saw |-> s, run |-> g] \in Call
    BY DEF Ops, Call
  <2>2. QED
    BY <1>1, <2>1, CallSet
<1>2. NoCall \in Call
  BY ConstantsOK DEF Call, NoCall, State
<1>3. QED
  BY <1>1, <1>2, CallSet

(* A command awaits. *)
LEMMA AwaitTyped ==
  ASSUME TypeOK, NEW t \in Task, NEW op \in Ops, NEW g \in 0..MaxGen, Await(t, op, g)
  PROVE  call' \in [Task -> Call]
<1>1. state[t] \in State
  BY DEF TypeOK
<1>2. QED
  BY <1>1, CallTyped DEF Await

(* A command goes on. *)
LEMMA ResumedTyped ==
  ASSUME TypeOK, NEW t \in Task, NEW ops, Resumed(t, ops)
  PROVE  call' \in [Task -> Call]
BY CallTyped DEF Resumed

(* The bound on commands is kept. *)
LEMMA OwnerTyped == ASSUME TypeOK, Owner PROVE commands' \in 0..MaxCommands
BY ConstantsOK DEF TypeOK, Owner

(* The types of what is neither a task row, its runs nor its calls. *)
OtherOK == /\ cowork \in SUBSET Repo /\ draining \in BOOLEAN /\ requeue \in SUBSET Task
           /\ commands \in 0..MaxCommands /\ bounces \in 0..MaxBounces
QueueOK == queue \in Seq(Task) /\ QueuedOnce

(* The type invariant falls into these parts ... *)
LEMMA Parts == ASSUME TypeOK PROVE MoveOK /\ RunsOK /\ LiveOK /\ QueueOK /\ call \in [Task -> Call] /\ OtherOK
BY DEF TypeOK, MoveOK, RunsOK, LiveOK, QueueOK, OtherOK, Wakes

(* ... and they make it up. *)
LEMMA PartsWhole ==
  ASSUME MoveOK', RunsOK', LiveOK', QueueOK', call' \in [Task -> Call], OtherOK'
  PROVE  TypeOK'
BY Whole DEF RestOK, QueueOK, OtherOK

(* A queue left alone. *)
LEMMA QueueSame == ASSUME QueueOK, queue' = queue PROVE QueueOK'
BY DEF QueueOK, QueuedOnce

(* Runs left alone. *)
LEMMA RunsSame == ASSUME RunsOK, runs' = runs PROVE RunsOK'
BY DEF RunsOK

(* A queue one task left. *)
LEMMA QueueDropped == ASSUME TypeOK, NEW t \in Task, queue' = Dropped(t) PROVE QueueOK'
<1>1. queue \in Seq(Task) /\ Once(queue)
  BY DEF TypeOK, QueuedOnce, Once
<1>2. QED
  BY <1>1, DroppedTyped DEF QueueOK, QueuedOnce, Once

(* The owner's commands up to their await. *)
LEMMA CommandTyped ==
  ASSUME TypeOK, NEW t \in Task, Command(t)
  PROVE  TypeOK'
<1>0. /\ MoveOK /\ RunsOK /\ LiveOK /\ QueueOK /\ call \in [Task -> Call] /\ OtherOK
      /\ 0 \in 0..MaxGen
  BY Parts, ConstantsOK
<1>1. CASE Dispatch(t)
  <2>1. call' \in [Task -> Call]
    BY <1>0, <1>1, CallTyped DEF Dispatch, Ops, State
  <2>2. MoveOK'
    BY <1>0, <1>1 DEF Dispatch, MoveOK, State
  <2>3. QED
    BY <1>0, <1>1, <2>1, <2>2, PartsWhole, QueueSame DEF Dispatch, RunsOK, LiveOK, OtherOK
<1>2. CASE StartImmediately(t)
  <2>1. MoveOK' /\ RunsOK'
    <3>1. state' \in [Task -> State]
      BY <1>0, <1>2 DEF StartImmediately, MoveOK
    <3>2. QED
      BY <1>2, <3>1, StartMoves DEF StartImmediately
  <2>2. QueueOK'
    BY <1>2, QueueDropped DEF StartImmediately
  <2>3. QED
    BY <1>0, <1>2, <2>1, <2>2, PartsWhole, OwnerTyped DEF StartImmediately, LiveOK, OtherOK
<1>3. CASE Ask(t)
  <2>1. live[t] \in 0..MaxGen
    BY <1>0 DEF LiveOK
  <2>2. call' \in [Task -> Call]
    BY <1>0, <1>3, <2>1, AwaitTyped DEF Ask, Ops
  <2>3. UNCHANGED <<state, runs, slot, live, queue, scan, resuming, cowork, draining,
                    requeue, wake, bounces>>
    BY <1>3 DEF Ask
  <2>4. commands' \in 0..MaxCommands
    BY <1>3, OwnerTyped DEF Ask
  <2>5. MoveOK' /\ RunsOK' /\ LiveOK' /\ QueueOK' /\ OtherOK'
    BY <1>0, <2>3, <2>4, QueueSame DEF MoveOK, RunsOK, LiveOK, OtherOK
  <2>6. QED
    BY <2>2, <2>5, PartsWhole
<1>4. CASE Cancel(t)
  <2>1. MoveOK' /\ call' \in [Task -> Call] /\ resuming' \in SUBSET Task
    <3>1. CASE Await(t, "cancel", 0) /\ UNCHANGED <<state, slot, scan, wake, resuming>>
      BY <1>0, <3>1, AwaitTyped, FrameOK DEF Ops, LiveOK
    <3>2. CASE UNCHANGED call /\ Publish(t, "cancelled") /\ resuming' = resuming \ {t}
      BY <1>0, <3>2, PublishTyped DEF LiveOK, State
    <3>3. QED
      BY <1>4, <3>1, <3>2 DEF Cancel
  <2>2. QueueOK'
    BY <1>4, QueueDropped DEF Cancel
  <2>3. QED
    BY <1>0, <1>4, <2>1, <2>2, PartsWhole, OwnerTyped DEF Cancel, RunsOK, LiveOK, OtherOK
<1>5. QED
  BY <1>1, <1>2, <1>3, <1>4 DEF Command

(* dispatch after its git read. *)
LEMMA DispatchedTyped ==
  ASSUME TypeOK, NEW t \in Task, Dispatched(t)
  PROVE  TypeOK'
<1>0. /\ MoveOK /\ RunsOK /\ LiveOK /\ QueueOK /\ OtherOK /\ Once(queue)
      /\ queue \in Seq(Task)
  BY Parts DEF QueueOK, QueuedOnce, Once
<1>1. MoveOK' /\ RunsOK' /\ QueueOK'
  <2>1. CASE enqueueOrRun(t, "intake", queue)
    BY <1>0, <2>1, EnqueueTyped DEF Dispatched, State, QueueOK
  <2>2. CASE UNCHANGED <<state, queue, runs, slot>>
    BY <1>0, <2>2, FrameOK, RunsSame, QueueSame DEF Dispatched
  <2>3. QED
    BY <2>1, <2>2 DEF Dispatched
<1>2. QED
  BY <1>0, <1>1, ResumedTyped, PartsWhole DEF Dispatched, LiveOK, OtherOK

(* The boot timer re-queues a row. *)
LEMMA RequeueTyped ==
  ASSUME TypeOK, NEW t \in Task, RequeueAfterBoot(t)
  PROVE  TypeOK'
<1>0. /\ MoveOK /\ RunsOK /\ LiveOK /\ QueueOK /\ OtherOK /\ Once(queue)
      /\ queue \in Seq(Task) /\ call \in [Task -> Call]
  BY Parts DEF QueueOK, QueuedOnce, Once
<1>1. MoveOK' /\ RunsOK' /\ QueueOK'
  <2>1. CASE enqueueOrRun(t, "queued", queue)
    BY <1>0, <2>1, EnqueueTyped DEF RequeueAfterBoot, State, QueueOK
  <2>2. CASE UNCHANGED <<state, queue, runs, slot>>
    BY <1>0, <2>2, FrameOK, RunsSame, QueueSame DEF RequeueAfterBoot
  <2>3. QED
    BY <2>1, <2>2 DEF RequeueAfterBoot
<1>2. QED
  BY <1>0, <1>1, PartsWhole DEF RequeueAfterBoot, LiveOK, OtherOK

(* Retry after its await. *)
LEMMA RetriedTyped ==
  ASSUME TypeOK, NEW t \in Task, Retried(t)
  PROVE  TypeOK'
<1>0. MoveOK /\ RunsOK /\ LiveOK /\ QueueOK /\ OtherOK
  BY Parts
<1>1. MoveOK' /\ RunsOK' /\ QueueOK' /\ resuming' \in SUBSET Task
  <2>1. CASE Publish(t, "failed") /\ UNCHANGED <<runs, queue, resuming>>
    BY <1>0, <2>1, PublishTyped, RunsSame, QueueSame DEF LiveOK, State
  <2>2. CASE /\ enqueueOrRun(t, "queued", Dropped(t))
             /\ resuming' = resuming \ {t} /\ UNCHANGED <<scan, wake>>
    <3>1. Dropped(t) \in Seq(Task) /\ Once(Dropped(t))
      BY <1>0, DroppedTyped DEF QueueOK, QueuedOnce, Once
    <3>2. QED
      BY <1>0, <2>2, <3>1, EnqueueTyped DEF QueueOK, LiveOK, State
  <2>3. QED
    BY <2>1, <2>2 DEF Retried
<1>2. QED
  BY <1>0, <1>1, ResumedTyped, PartsWhole DEF Retried, LiveOK, OtherOK

(* A handler that cuts or restarts turns of one task keeps its runs typed. *)
LEMMA TurnsTyped ==
  ASSUME TypeOK, NEW t \in Task, NEW turn \in Turns, NEW chosen \in SUBSET Gen,
         runs' = [runs EXCEPT ![t] = [g \in Gen |->
           IF g \in chosen THEN [runs[t][g] EXCEPT !.turn = turn] ELSE runs[t][g]]]
  PROVE  RunsOK'
<1> DEFINE new == [g \in Gen |->
      IF g \in chosen THEN [runs[t][g] EXCEPT !.turn = turn] ELSE runs[t][g]]
<1>1. new \in [Gen -> Run]
  BY RunTyped, RunTurn
<1>2. runs' = [runs EXCEPT ![t] = new]
  OBVIOUS
<1> HIDE DEF new
<1>3. QED
  BY <1>1, <1>2 DEF TypeOK, RunsOK

(* The handlers that stop agents. *)
LEMMA TeardownTyped ==
  ASSUME TypeOK, NEW t \in Task, AgentsStopped(t) \/ TornDown(t) \/ Paused(t)
  PROVE  TypeOK'
<1>0. /\ MoveOK /\ RunsOK /\ LiveOK /\ QueueOK /\ call \in [Task -> Call] /\ OtherOK
      /\ 0 \in 0..MaxGen
  BY Parts, ConstantsOK
<1>1. CASE AgentsStopped(t)
  <2>1. RunsOK'
    <3>1. runs' = [runs EXCEPT ![t] = [g \in Gen |->
            IF g \in Gen THEN [runs[t][g] EXCEPT !.turn = "none"] ELSE runs[t][g]]]
      BY <1>1 DEF AgentsStopped
    <3>2. QED
      BY <3>1, TurnsTyped DEF Turns
  <2>2. MoveOK' /\ LiveOK' /\ QueueOK' /\ call' \in [Task -> Call] /\ OtherOK'
    BY <1>0, <1>1, FrameOK, QueueSame DEF AgentsStopped, LiveOK, OtherOK
  <2>3. QED
    BY <2>1, <2>2, PartsWhole
<1>2. CASE TornDown(t)
  <2>1. call' \in [Task -> Call] /\ MoveOK'
    BY <1>2, PublishTyped, ResumedTyped DEF TornDown, State
  <2>2. RunsOK' /\ LiveOK' /\ QueueOK' /\ OtherOK'
    BY <1>0, <1>2, RunsSame, QueueSame DEF TornDown, LiveOK, OtherOK
  <2>3. QED
    BY <2>1, <2>2, PartsWhole
<1>3. CASE Paused(t)
  <2>1. RunsOK'
    <3> DEFINE chosen == {g \in Gen : g = call[t].run /\ runs[t][g].turn = "busy"}
    <3>1. runs' = [runs EXCEPT ![t] = [g \in Gen |->
            IF g \in chosen THEN [runs[t][g] EXCEPT !.turn = "idle"] ELSE runs[t][g]]]
      BY <1>3 DEF Paused
    <3>2. chosen \in SUBSET Gen
      OBVIOUS
    <3> HIDE DEF chosen
    <3>3. QED
      BY <3>1, <3>2, TurnsTyped DEF Turns
  <2>2. call' \in [Task -> Call] /\ MoveOK'
    BY <1>3, PublishTyped, ResumedTyped DEF Paused, State
  <2>3. LiveOK' /\ QueueOK' /\ OtherOK'
    BY <1>0, <1>3, QueueSame DEF Paused, LiveOK, OtherOK
  <2>4. QED
    BY <2>1, <2>2, <2>3, PartsWhole
<1>4. QED
  BY <1>1, <1>2, <1>3

(* Every branch of resumeThread. *)
LEMMA ResumeTyped ==
  ASSUME TypeOK, NEW t \in Task,
         \/ ResumeMissing(t) \/ ResumeRefused(t) \/ ResumeNoop(t) \/ ResumeSteers(t)
         \/ ResumePipeline(t) \/ ResumeImplementor(t)
  PROVE  TypeOK'
<1>0. MoveOK /\ RunsOK /\ LiveOK /\ QueueOK /\ call \in [Task -> Call] /\ OtherOK
  BY Parts
<1>1. call' \in [Task -> Call]
  BY ResumedTyped
  DEF ResumeMissing, ResumeRefused, ResumeNoop, ResumeSteers, ResumePipeline, ResumeImplementor
<1>2. QueueOK' /\ OtherOK'
  <2>1. UNCHANGED <<queue, cowork, draining, requeue, commands, bounces>>
    BY DEF ResumeMissing, ResumeRefused, ResumeNoop, ResumeSteers, ResumePipeline, ResumeImplementor
  <2>2. QED
    BY <1>0, <2>1, QueueSame DEF OtherOK
<1>3. LiveOK'
  <2>1. UNCHANGED live /\ (UNCHANGED resuming \/ resuming' = resuming \cup {t})
    BY DEF ResumeMissing, ResumeRefused, ResumeNoop, ResumeSteers, ResumePipeline, ResumeImplementor
  <2>2. QED
    BY <1>0, <2>1 DEF LiveOK
<1>4. MoveOK' /\ RunsOK'
  <2>1. CASE ResumeMissing(t)
    BY <1>0, <2>1, PublishTyped, RunsSame DEF ResumeMissing, State
  <2>2. CASE ResumeRefused(t)
    BY <1>0, <2>2, RunsSame DEF ResumeRefused, MoveOK, Wakes
  <2>3. CASE ResumeNoop(t)
    BY <1>0, <2>3, RunsSame, FrameOK DEF ResumeNoop
  <2>4. CASE ResumeSteers(t)
    <3> DEFINE chosen == {g \in Gen : g = live[t] /\ runs[t][g].turn = "idle"}
    <3>1. runs' = [runs EXCEPT ![t] = [g \in Gen |->
            IF g \in chosen THEN [runs[t][g] EXCEPT !.turn = "busy"] ELSE runs[t][g]]]
      BY <2>4 DEF ResumeSteers
    <3>2. chosen \in SUBSET Gen
      OBVIOUS
    <3> HIDE DEF chosen
    <3>3. QED
      BY <2>4, <3>1, <3>2, TurnsTyped, PublishTyped DEF Turns, ResumeSteers, State
  <2>5. CASE ResumePipeline(t)
    <3>1. state' \in [Task -> State] /\ UNCHANGED <<scan, wake>> /\ Start(t, "immediate", "prep")
      BY <1>0, <2>5 DEF ResumePipeline, MoveOK
    <3>2. QED
      BY <3>1, StartMoves
  <2>6. CASE ResumeImplementor(t)
    <3>1. state' \in [Task -> State] /\ UNCHANGED <<scan, wake>> /\ Start(t, "resume", "select")
      BY <1>0, <2>6 DEF ResumeImplementor, MoveOK, State
    <3>2. QED
      BY <3>1, StartMoves
  <2>7. QED
    BY <2>1, <2>2, <2>3, <2>4, <2>5, <2>6
<1>5. QED
  BY <1>1, <1>2, <1>3, <1>4, PartsWhole

(* Co-work turns and the restart drain. *)
LEMMA OutsideTyped ==
  ASSUME TypeOK,
         \/ \E r \in Repo : CoworkBegin(r) \/ CoworkEnd(r)
         \/ DrainBegins \/ DrainReleased
  PROVE  TypeOK'
<1>0. /\ MoveOK /\ RunsOK /\ LiveOK /\ QueueOK /\ call \in [Task -> Call] /\ OtherOK
      /\ Released \in [Task -> Wakes] /\ 1 \in Nat
  BY Parts, ReleasedTyped
<1>1. UNCHANGED TaskVars
  BY DEF CoworkBegin, CoworkEnd, DrainBegins, DrainReleased
<1>2. MoveOK'
  <2>1. UNCHANGED <<scan, wake>> \/ (scan' = 1 /\ wake' = Released)
    BY DEF CoworkBegin, CoworkEnd, DrainBegins, DrainReleased
  <2>2. QED
    BY <1>0, <1>1, <2>1 DEF MoveOK, TaskVars
<1>3. OtherOK'
  <2>1. CASE \E r \in Repo : CoworkBegin(r)
    BY <1>0, <2>1, OwnerTyped DEF CoworkBegin, TaskVars, OtherOK
  <2>2. CASE \E r \in Repo : CoworkEnd(r)
    BY <1>0, <2>2 DEF CoworkEnd, TaskVars, OtherOK
  <2>3. CASE DrainBegins
    BY <1>0, <2>3, ConstantsOK DEF DrainBegins, TaskVars, OtherOK
  <2>4. CASE DrainReleased
    BY <1>0, <2>4 DEF DrainReleased, TaskVars, OtherOK
  <2>5. QED
    BY <2>1, <2>2, <2>3, <2>4
<1>4. RunsOK' /\ LiveOK' /\ QueueOK' /\ call' \in [Task -> Call]
  BY <1>0, <1>1, RunsSame, QueueSame DEF TaskVars, LiveOK
<1>5. QED
  BY <1>2, <1>3, <1>4, PartsWhole

(* An auto-resume fires. *)
LEMMA FireWakeTyped ==
  ASSUME TypeOK, NEW t \in Task, FireWake(t)
  PROVE  TypeOK'
<1>0. /\ MoveOK /\ RunsOK /\ LiveOK /\ QueueOK /\ call \in [Task -> Call] /\ OtherOK
      /\ 0 \in 0..MaxGen
  BY Parts, ConstantsOK
<1>1. call' \in [Task -> Call]
  BY <1>0, AwaitTyped DEF FireWake, Ops
<1>2. MoveOK'
  BY <1>0 DEF FireWake, MoveOK, Wakes
<1>3. RunsOK' /\ LiveOK' /\ QueueOK' /\ OtherOK'
  BY <1>0, RunsSame, QueueSame DEF FireWake, LiveOK, OtherOK
<1>4. QED
  BY <1>1, <1>2, <1>3, PartsWhole

(* The process dies and boots. *)
LEMMA RestartTyped == ASSUME TypeOK, Restart PROVE TypeOK'
<1>0. 0 \in 0..MaxGen /\ NoCall \in Call /\ NoRun \in Run
  BY NoRunTyped, ConstantsOK DEF NoCall, Call, State
<1>1. state' \in [Task -> State]
  BY DEF Restart, AfterBoot, TypeOK, State
<1>2. MoveOK'
  BY <1>0, <1>1 DEF Restart, MoveOK, Wakes
<1>3. RunsOK' /\ LiveOK' /\ call' \in [Task -> Call]
  BY <1>0 DEF Restart, RunsOK, LiveOK
<1>4. QueueOK'
  BY DEF Restart, QueueOK, QueuedOnce
<1>5. OtherOK'
  <2>1. bounces' \in 0..MaxBounces
    BY ConstantsOK DEF Restart, TypeOK
  <2>2. cowork' = {} /\ draining' = FALSE /\ requeue' \in SUBSET Task
    BY DEF Restart
  <2>3. commands' \in 0..MaxCommands
    BY DEF Restart, TypeOK
  <2>4. QED
    BY <2>1, <2>2, <2>3 DEF OtherOK
<1>6. QED
  BY <1>2, <1>3, <1>4, <1>5, PartsWhole

(* A fresh process. *)
LEMMA InitTyped == ASSUME Init PROVE TypeOK
<1>1. NoCall \in Call /\ NoRun \in Run /\ 0 \in 0..MaxGen /\ 0 \in 0..MaxCommands /\ 0 \in 0..MaxBounces
  BY NoRunTyped, ConstantsOK DEF NoCall, Call, State
<1>3. queue \in Seq(Task) /\ QueuedOnce
  BY DEF Init, QueuedOnce
<1>4. /\ state \in [Task -> State] /\ runs \in [Task -> [Gen -> Run]]
      /\ slot \in [Task -> 0..MaxGen] /\ live \in [Task -> 0..MaxGen]
  BY <1>1 DEF Init, State
<1>5. /\ call \in [Task -> Call] /\ wake \in [Task -> {"none", "timer", "held"}]
      /\ commands \in 0..MaxCommands /\ bounces \in 0..MaxBounces
  BY <1>1 DEF Init
<1>6. scan \in Nat /\ resuming \in SUBSET Task /\ cowork \in SUBSET Repo /\ draining \in BOOLEAN
      /\ requeue \in SUBSET Task
  BY DEF Init
<1>7. QED
  BY <1>3, <1>4, <1>5, <1>6 DEF TypeOK

(* Nothing happens. *)
LEMMA StutterTyped == ASSUME TypeOK, UNCHANGED vars PROVE TypeOK'
BY DEF TypeOK, vars, QueuedOnce

(* Every step keeps the type invariant. *)
LEMMA NextTyped == ASSUME TypeOK, [Next]_vars PROVE TypeOK'
<1>1. ASSUME NEW t \in Task, NEW g \in Gen, RunStep(t, g) PROVE TypeOK'
  BY <1>1, PrepDoneTyped, PlanDoneTyped, SelectDoneTyped, StartDoneTyped, ResumeSelectDoneTyped,
     ResumeStartDoneTyped, WorkDoneTyped, ResumeWorkDoneTyped, UnwoundTyped DEF RunStep
<1>2. ASSUME NEW t \in Task, Continue(t) PROVE TypeOK'
  BY <1>2, DispatchedTyped, TeardownTyped, RetriedTyped, ResumeTyped DEF Continue
<1>3. ASSUME NEW t \in Task, Command(t) \/ FireWake(t) \/ RequeueAfterBoot(t) PROVE TypeOK'
  BY <1>3, CommandTyped, FireWakeTyped, RequeueTyped
<1>4. QED
  BY <1>1, <1>2, <1>3, OutsideTyped, PumpStepTyped, RestartTyped, StutterTyped DEF Next

(* Every reachable state has its type, for any number of tasks and any caps; the
   queue of waiting tasks holds no task twice. *)
THEOREM TypeCorrect == Spec => []TypeOK
<1>1. QED
  BY InitTyped, NextTyped, PTL DEF Spec
=============================================================================
