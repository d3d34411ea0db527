---------------------------- MODULE TaskSlotsQueue ----------------------------
(***************************************************************************)
(* What the dispatch queue owes its tasks, for any number of them: a       *)
(* queued row is never stranded, whatever makes room for it wakes the      *)
(* pump, and the pump serves the line in order.                            *)
(*                                                                         *)
(* QueuedIsOwned is not inductive: a run that returns frees its slot without looking at  *)
(* the row, and Retry and dispatch write "queued" after an await without   *)
(* looking at the slot.  Row adds why neither strands the task: the run of *)
(* a queued task is no Resume and not past its end, and a task waiting for *)
(* one of the two commands holds no slot.  NoLostWakeup becomes            *)
(* LineHeldUp, which also says of the tasks that a pass has already gone   *)
(* by that their own repository holds them up: a pass that ends at the     *)
(* global cap leaves nobody behind who could have started.                 *)
(***************************************************************************)
EXTENDS TaskSlotsSafety

Owned(t) == Queued(t) \/ slot[t] # 0 \/ t \in requeue \/ call[t].op = "cancel"

Enqueuing == {"dispatch", "retry"}
Resumes   == {"resume", "autoResume"}

Row(t) ==
  /\ state[t] = "queued" => Owned(t)
  /\ state[t] \in {"none", "cancelled"} => slot[t] = 0
  /\ call[t].op \in Resumes => state[t] # "none"
  /\ call[t].op \in Enqueuing => slot[t] = 0 /\ state[t] # "queued"
  /\ slot[t] # 0 => runs[t][slot[t]].at # "unwind"
  /\ state[t] = "queued" /\ slot[t] # 0 => runs[t][slot[t]].kind # "resume"

RowsHold == \A t \in Task : Row(t)

(* A step that moves one task leaves every other where it was. *)
Elsewhere(t) == \A u \in Task : u # t =>
  /\ state'[u] = state[u] /\ slot'[u] = slot[u] /\ runs'[u] = runs[u] /\ call'[u] = call[u]
  /\ u \in requeue => u \in requeue'
  /\ Queued(u) => Queued(u)'

(* The invariant, then, has to be shown for that task only. *)
LEMMA RowAt == ASSUME RowsHold, NEW t \in Task, Elsewhere(t), Row(t)' PROVE RowsHold'
BY DEF RowsHold, Row, Owned, Elsewhere

-----------------------------------------------------------------------------
(* The queue keeps everyone but the entry that is taken out. *)
LEMMA RemoveKeeps ==
  ASSUME queue \in Seq(Task), NEW i \in 1..Len(queue), NEW u, u # queue[i], Queued(u)
  PROVE  \E j \in 1..Len(Remove(i)) : Remove(i)[j] = u
<1>1. PICK k \in 1..Len(queue) : queue[k] = u
  BY DEF Queued
<1>2. k # i /\ Len(queue) \in Nat
  BY <1>1, LenProperties
<1>3. CASE k < i
  <2>1. k \in 1..(Len(queue) - 1)
    BY <1>2, <1>3
  <2>2. QED
    BY <1>1, <1>3, <2>1, RemoveEntries
<1>4. CASE k > i
  <2>1. k - 1 \in 1..(Len(queue) - 1) /\ ~(k - 1 < i) /\ (k - 1) + 1 = k
    BY <1>2, <1>4
  <2>2. QED
    BY <1>1, <2>1, RemoveEntries
<1>5. QED
  BY <1>2, <1>3, <1>4

(* dropFromQueue takes out its own task only. *)
LEMMA DroppedKeeps ==
  ASSUME queue \in Seq(Task), NEW t, NEW u, u # t, Queued(u)
  PROVE  \E j \in 1..Len(Dropped(t)) : Dropped(t)[j] = u
<1>1. CASE Queued(t)
  <2> DEFINE i == CHOOSE i \in 1..Len(queue) : queue[i] = t
  <2>1. i \in 1..Len(queue) /\ queue[i] = t
    BY <1>1 DEF Queued
  <2>2. Dropped(t) = Remove(i)
    BY <1>1 DEF Dropped
  <2> HIDE DEF i
  <2>3. QED
    BY <2>1, <2>2, RemoveKeeps
<1>2. CASE ~Queued(t)
  BY <1>2 DEF Dropped, Queued
<1>3. QED
  BY <1>1, <1>2

(* Pushing a task at the end keeps the line and adds the task. *)
LEMMA AppendKeeps ==
  ASSUME NEW q \in Seq(Task), NEW t \in Task
  PROVE  /\ \A u : (\E i \in 1..Len(q) : q[i] = u) =>
                   \E i \in 1..Len(Append(q, t)) : Append(q, t)[i] = u
         /\ \E i \in 1..Len(Append(q, t)) : Append(q, t)[i] = t
<1>1. /\ Len(q) \in Nat /\ Len(Append(q, t)) = Len(q) + 1
      /\ \A i \in 1..(Len(q) + 1) : Append(q, t)[i] = IF i <= Len(q) THEN q[i] ELSE t
  BY LenProperties, AppendProperties
<1>2. ASSUME NEW u, NEW i \in 1..Len(q), q[i] = u
      PROVE  \E j \in 1..Len(Append(q, t)) : Append(q, t)[j] = u
  BY <1>1, <1>2
<1>3. Len(q) + 1 \in 1..(Len(q) + 1) /\ ~(Len(q) + 1 <= Len(q))
  BY <1>1
<1>4. QED
  BY <1>1, <1>2, <1>3

-----------------------------------------------------------------------------
(* The building blocks of the handlers. *)

(* The waiting line, the boot's list and the commands of other tasks stand. *)
LineKept(t) == \A u \in Task : u # t =>
  /\ call'[u] = call[u] /\ (u \in requeue => u \in requeue') /\ (Queued(u) => Queued(u)')

(* Nobody's place in line changes. *)
LEMMA LineSame ==
  ASSUME NEW t \in Task, UNCHANGED <<queue, requeue>>, \A u \in Task : u # t => call'[u] = call[u]
  PROVE  LineKept(t) /\ Queued(t)' = Queued(t)
BY DEF LineKept, Queued

(* A command of one task changes no other task's. *)
LEMMA CallElsewhere ==
  ASSUME TypeOK, NEW t \in Task, NEW c, call' = [call EXCEPT ![t] = c]
  PROVE  call'[t] = c /\ \A u \in Task : u # t => call'[u] = call[u]
BY DEF TypeOK

(* A row that is written leaves the queued state, or its task gives up its *)
(* slot with it.                                                           *)
LEMMA PublishRow ==
  ASSUME TypeOK, RowsHold, NEW t \in Task, NEW s \in State \ {"none", "queued"}, Publish(t, s),
         \A u \in Task : u # t => runs'[u] = runs[u],
         s \in SLOT_FREE \/ \A h \in Gen : runs[t][h].at # "unwind" => runs'[t][h].at # "unwind",
         LineKept(t), call'[t].op \in {call[t].op, "none"}
  PROVE  RowsHold'
<1>1. /\ state'[t] = s /\ \A u \in Task : u # t => state'[u] = state[u]
      /\ \A u \in Task : u # t => slot'[u] = slot[u]
      /\ slot'[t] = IF s \in SLOT_FREE THEN 0 ELSE slot[t]
  BY PublishSlot DEF TypeOK, Publish, Move
<1>2. Elsewhere(t)
  BY <1>1 DEF Elsewhere, LineKept
<1>3. slot'[t] # 0 => runs'[t][slot'[t]].at # "unwind"
  BY <1>1, SlotNamesRun DEF RowsHold, Row
<1>4. "cancelled" \in SLOT_FREE /\ "none" \notin Enqueuing
  BY DEF SLOT_FREE, Enqueuing
<1>5. Row(t)'
  BY <1>1, <1>3, <1>4 DEF RowsHold, Row
<1>6. QED
  BY <1>2, <1>5, RowAt

(* Rows and slots stand; the task's run goes on, or its command does. *)
LEMMA StandRow ==
  ASSUME TypeOK, RowsHold, NEW t \in Task, UNCHANGED <<state, slot>>,
         \A u \in Task : u # t => runs'[u] = runs[u],
         \A h \in Gen : h = slot[t] =>
           runs'[t][h].at # "unwind" /\ runs'[t][h].kind = runs[t][h].kind,
         LineKept(t), state[t] = "queued" => Owned(t)',
         call'[t].op \in Resumes => state[t] # "none",
         call'[t].op \in Enqueuing => slot[t] = 0 /\ state[t] # "queued"
  PROVE  RowsHold'
<1>1. Elsewhere(t)
  BY DEF Elsewhere, LineKept
<1>2. slot[t] # 0 => runs'[t][slot[t]].at # "unwind" /\ runs'[t][slot[t]].kind = runs[t][slot[t]].kind
  BY SlotNamesRun
<1>3. Row(t)'
  BY <1>2 DEF RowsHold, Row
<1>4. QED
  BY <1>1, <1>3, RowAt

(* A run returns: a queued task keeps the slot, for it is another run's. *)
LEMMA ReturnRow ==
  ASSUME TypeOK, RowsHold, NEW t \in Task, NEW g \in Gen, Move(t, state[t], slot[t] = g),
         state[t] # "queued" \/ slot[t] # g,
         \A u \in Task : u # t => runs'[u] = runs[u],
         \A h \in Gen : h # g => runs'[t][h].at = runs[t][h].at /\ runs'[t][h].kind = runs[t][h].kind,
         UNCHANGED <<queue, requeue, call>>
  PROVE  RowsHold'
<1>1. state' = state /\ \A u \in Task : u # t => slot'[u] = slot[u]
  BY ReturnSlot DEF TypeOK, Move
<1>2. LineKept(t) /\ Queued(t)' = Queued(t) /\ Elsewhere(t)
  BY <1>1, LineSame DEF LineKept, Elsewhere
<1>3. CASE slot[t] = g
  <2>1. slot'[t] = 0 /\ state[t] # "queued"
    BY <1>3, ReturnSlot
  <2>2. Row(t)'
    BY <1>1, <2>1 DEF RowsHold, Row
  <2>3. QED
    BY <1>2, <2>2, RowAt
<1>4. CASE slot[t] # g
  <2>1. slot'[t] = slot[t]
    BY <1>4, ReturnSlot
  <2>2. slot[t] # 0 => /\ runs'[t][slot[t]].at = runs[t][slot[t]].at
                       /\ runs'[t][slot[t]].kind = runs[t][slot[t]].kind
    BY <1>4, SlotNamesRun
  <2>3. Row(t)'
    BY <1>1, <1>2, <2>1, <2>2 DEF RowsHold, Row, Owned
  <2>4. QED
    BY <1>2, <2>3, RowAt
<1>5. QED
  BY <1>3, <1>4

(* A start gives the task a slot of its own. *)
LEMMA StartRow ==
  ASSUME TypeOK, RowsHold, NEW t \in Task, NEW kind, NEW at \in {"prep", "select"},
         Start(t, kind, at), \A u \in Task : u # t => state'[u] = state[u],
         state'[t] \notin {"none", "cancelled"}, state'[t] = "queued" => kind # "resume",
         LineKept(t), call'[t].op \notin Enqueuing
  PROVE  RowsHold'
<1>1. PICK g \in Gen :
        /\ runs' = [runs EXCEPT ![t][g] = [at |-> at, kind |-> kind, turn |-> "none", stops |-> 0]]
        /\ slot' = [slot EXCEPT ![t] = g]
  BY DEF Start
<1>2. /\ g # 0 /\ slot'[t] = g /\ runs'[t][g].at = at /\ runs'[t][g].kind = kind
      /\ \A u \in Task : u # t => slot'[u] = slot[u] /\ runs'[u] = runs[u]
  BY <1>1, ConstantsOK DEF TypeOK, Gen
<1>3. Elsewhere(t)
  BY <1>2 DEF Elsewhere, LineKept
<1>4. Row(t)'
  BY <1>2 DEF Row, Owned
<1>5. QED
  BY <1>3, <1>4, RowAt

(* enqueueOrRun puts a task without a slot in line or starts it. *)
LEMMA EnqueueRow ==
  ASSUME TypeOK, RowsHold, NEW t \in Task, NEW s \in {"intake", "queued"}, NEW q \in Seq(Task),
         enqueueOrRun(t, s, q), slot[t] = 0, call'[t].op \notin Enqueuing,
         \A u \in Task : u # t =>
           /\ call'[u] = call[u] /\ (u \in requeue => u \in requeue')
           /\ Queued(u) => \E i \in 1..Len(q) : q[i] = u
  PROVE  RowsHold'
<1>1. state' = [state EXCEPT ![t] = "queued"] \/ state' = [state EXCEPT ![t] = s]
  BY DEF enqueueOrRun
<1>2. /\ state'[t] \in {"intake", "queued"}
      /\ \A u \in Task : u # t => state'[u] = state[u]
  BY <1>1 DEF TypeOK
<1>3. ASSUME NEW u, \E i \in 1..Len(q) : q[i] = u PROVE Queued(u)'
  <2>1. queue' = q \/ queue' = Append(q, t)
    BY DEF enqueueOrRun
  <2>2. \E i \in 1..Len(Append(q, t)) : Append(q, t)[i] = u
    BY <1>3, AppendKeeps
  <2>3. Queued(u)' = \E i \in 1..Len(queue') : queue'[i] = u
    BY DEF Queued
  <2>4. QED
    BY <1>3, <2>1, <2>2, <2>3
<1>4. LineKept(t)
  BY <1>3 DEF LineKept
<1>5. CASE Start(t, "queued", "prep")
  BY <1>2, <1>4, <1>5, StartRow
<1>6. CASE /\ queue' = IF \E i \in 1..Len(q) : q[i] = t THEN q ELSE Append(q, t)
           /\ UNCHANGED <<runs, slot>>
  <2>1. Queued(t)'
    BY <1>6, AppendKeeps DEF Queued
  <2>2. Row(t)'
    BY <1>2, <1>6, <2>1 DEF Row, Owned
  <2>3. Elsewhere(t)
    BY <1>2, <1>4, <1>6 DEF Elsewhere, LineKept
  <2>4. QED
    BY <2>2, <2>3, RowAt
<1>7. QED
  BY <1>5, <1>6 DEF enqueueOrRun

(* Nothing this invariant reads moves. *)
LEMMA NothingMoved ==
  ASSUME RowsHold, UNCHANGED <<state, slot, runs, call, requeue, queue>>
  PROVE  RowsHold'
BY DEF RowsHold, Row, Owned, Queued

-----------------------------------------------------------------------------
(* What every run step leaves alone. *)
LEMMA RunFrame ==
  ASSUME NEW t \in Task, UNCHANGED Commands
  PROVE  LineKept(t) /\ Queued(t)' = Queued(t) /\ UNCHANGED <<queue, requeue, call>>
BY LineSame DEF Commands

(* A run that parks or fails its task. *)
LEMMA SettleRow ==
  ASSUME TypeOK, RowsHold, NEW t \in Task, NEW g \in Gen, NEW s \in SLOT_FREE,
         Settle(t, g, s), UNCHANGED Commands
  PROVE  RowsHold'
<1>1. s \in State \ {"none", "queued"} /\ Publish(t, s)
  BY DEF SLOT_FREE, State, Settle
<1>2. \A u \in Task : u # t => runs'[u] = runs[u]
  BY AtElsewhere DEF Settle
<1>3. QED
  BY <1>1, <1>2, PublishRow, RunFrame

(* A run that returns from a task that is not queued, or no longer its own. *)
LEMMA LeaveRow ==
  ASSUME TypeOK, RowsHold, NEW t \in Task, NEW g \in Gen, Leave(t, g), UNCHANGED Commands,
         state[t] # "queued" \/ slot[t] # g
  PROVE  RowsHold'
<1>1. Move(t, state[t], slot[t] = g) /\ At(t, g, NoRun)
  BY DEF Leave
<1>2. QED
  BY <1>1, AtElsewhere, RunFrame, ReturnRow

(* Whatever update of itself takes a run to its next await. *)
LEMMA UpdateRow ==
  ASSUME TypeOK, RowsHold, NEW t \in Task, NEW g \in Gen, NEW at \in Awaits,
         at # "unwind" \/ slot[t] = 0, NEW turn \in Turns,
         UNCHANGED <<state, slot>>, UNCHANGED Commands,
         \/ At(t, g, [runs[t][g] EXCEPT !.at = at])
         \/ At(t, g, [runs[t][g] EXCEPT !.at = at, !.turn = turn])
         \/ At(t, g, [runs[t][g] EXCEPT !.at = at, !.stops = live[t]])
         \/ At(t, g, [runs[t][g] EXCEPT !.at = at, !.turn = turn, !.stops = live[t]])
  PROVE  RowsHold'
<1> DEFINE r0 == runs[t][g]
<1>0. r0 \in Run /\ live[t] \in 0..MaxGen
  BY DEF TypeOK
<1>1. PICK r : /\ At(t, g, r)
               /\ \/ r = [r0 EXCEPT !.at = at]
                  \/ r = [r0 EXCEPT !.at = at, !.turn = turn]
                  \/ r = [r0 EXCEPT !.at = at, !.stops = live[t]]
                  \/ r = [r0 EXCEPT !.at = at, !.turn = turn, !.stops = live[t]]
  OBVIOUS
<1> HIDE DEF r0
<1>2. r.at = at /\ r.kind = r0.kind
  BY <1>0, <1>1 DEF Run, Awaits, Turns
<1>3. r.kind = runs[t][g].kind
  BY <1>2 DEF r0
<1>4. \A h \in Gen : h = slot[t] =>
        runs'[t][h].at # "unwind" /\ runs'[t][h].kind = runs[t][h].kind
  <2>1. ASSUME NEW h \in Gen, h = slot[t]
        PROVE  runs'[t][h].at # "unwind" /\ runs'[t][h].kind = runs[t][h].kind
    <3>1. slot[t] # 0 /\ runs[t][h].at # "unwind" /\ at # "unwind"
      BY <2>1, ConstantsOK DEF Gen, RowsHold, Row
    <3>2. runs'[t][h] = IF h = g THEN r ELSE runs[t][h]
      BY <1>1, AtElsewhere
    <3>3. QED
      BY <1>2, <1>3, <3>1, <3>2
  <2>2. QED
    BY <2>1
<1>5. LineKept(t) /\ Queued(t)' = Queued(t) /\ UNCHANGED <<requeue, call>>
  BY RunFrame
<1>6. \A u \in Task : u # t => runs'[u] = runs[u]
  BY <1>1, AtElsewhere
<1>7. /\ state[t] = "queued" => Owned(t)'
      /\ call'[t].op \in Resumes => state[t] # "none"
      /\ call'[t].op \in Enqueuing => slot[t] = 0 /\ state[t] # "queued"
  BY <1>5 DEF RowsHold, Row, Owned
<1>8. QED
  BY <1>4, <1>5, <1>6, <1>7, StandRow

(* A new implementor takes its task out of the queue's hands. *)
LEMMA StartImplementorRow ==
  ASSUME TypeOK, RowsHold, NEW t \in Task, NEW g \in Gen, startImplementor(t, g),
         UNCHANGED Commands
  PROVE  RowsHold'
<1>1. /\ \A u \in Task : u # t => runs'[u] = runs[u]
      /\ \A h \in Gen : runs'[t][h] =
           IF h = g THEN [runs[t][h] EXCEPT !.at = "work", !.turn = "busy"]
           ELSE IF h = live[t] THEN [runs[t][h] EXCEPT !.turn = "none"] ELSE runs[t][h]
  BY DEF startImplementor, TypeOK
<1>2. ASSUME NEW h \in Gen, runs[t][h].at # "unwind" PROVE runs'[t][h].at # "unwind"
  <2> DEFINE r == runs[t][h]
  <2>1. r \in Run
    BY RunTyped
  <2>2. \/ runs'[t][h] = [r EXCEPT !.at = "work", !.turn = "busy"]
        \/ runs'[t][h] = [r EXCEPT !.turn = "none"]
        \/ runs'[t][h] = r
    BY <1>1
  <2>3. r.at # "unwind"
    BY <1>2
  <2> HIDE DEF r
  <2>4. QED
    BY <2>1, <2>2, <2>3 DEF Run
<1>3. Publish(t, "implementing") /\ "implementing" \in State \ {"none", "queued"}
  BY DEF startImplementor, State
<1>4. QED
  BY <1>1, <1>2, <1>3, PublishRow, RunFrame

(* The steps of a run, one lemma for each await. *)
LEMMA PrepDoneRow ==
  ASSUME TypeOK, RowsHold, NEW t \in Task, NEW g \in Gen, PrepDone(t, g)
  PROVE  RowsHold'
<1>0. UNCHANGED Commands
  BY DEF PrepDone
<1>1. CASE Settle(t, g, "failed")
  BY <1>0, <1>1, SettleRow DEF SLOT_FREE
<1>2. CASE /\ Publish(t, "planning")
           /\ At(t, g, [runs[t][g] EXCEPT !.at = "plan", !.turn = "busy"])
  <2>1. \E r : At(t, g, r) /\ r.at # "unwind"
    <3> DEFINE r0 == runs[t][g]
    <3>1. r0 \in Run
      BY RunTyped
    <3> HIDE DEF r0
    <3>2. [r0 EXCEPT !.at = "plan", !.turn = "busy"].at = "plan"
      BY <3>1 DEF Run
    <3>3. QED
      BY <1>2, <3>2 DEF r0
  <2>2. /\ \A u \in Task : u # t => runs'[u] = runs[u]
        /\ \A h \in Gen : runs[t][h].at # "unwind" => runs'[t][h].at # "unwind"
    BY <2>1, AtElsewhere
  <2>3. QED
    BY <1>0, <1>2, <2>2, PublishRow, RunFrame DEF State
<1>3. CASE At(t, g, [runs[t][g] EXCEPT !.at = "select"]) /\ UNCHANGED <<state, slot>>
  BY <1>0, <1>3, UpdateRow DEF Awaits, Turns
<1>4. QED
  BY <1>1, <1>2, <1>3 DEF PrepDone, Next0

(* The planner returns. *)
LEMMA PlanDoneRow ==
  ASSUME TypeOK, RowsHold, NEW t \in Task, NEW g \in Gen, PlanDone(t, g)
  PROVE  RowsHold'
<1>0. UNCHANGED Commands
  BY DEF PlanDone
<1>1. CASE Cancelled(t) /\ Leave(t, g)
  BY <1>0, <1>1, LeaveRow DEF Cancelled
<1>2. CASE Settle(t, g, "review")
  BY <1>0, <1>2, SettleRow DEF SLOT_FREE
<1>3. CASE /\ At(t, g, [runs[t][g] EXCEPT !.at = "select", !.turn = "none"])
           /\ UNCHANGED <<state, slot>>
  BY <1>0, <1>3, UpdateRow DEF Awaits, Turns
<1>4. QED
  BY <1>1, <1>2, <1>3 DEF PlanDone

(* Every way out of the model choice and of the compression.  A Resume     *)
(* without an implementor returns whatever its row says: on a queued row   *)
(* the slot belongs to another run.                                        *)
LEMMA SelectRow ==
  ASSUME TypeOK, RowsHold, NEW t \in Task, NEW g \in Gen,
         \/ SelectDone(t, g) \/ ResumeSelectDone(t, g) \/ StartDone(t, g) \/ ResumeStartDone(t, g)
  PROVE  RowsHold'
<1>0. UNCHANGED Commands
  BY DEF SelectDone, ResumeSelectDone, StartDone, ResumeStartDone
<1>1. CASE (Cancelled(t) \/ runs[t][g].kind = "resume") /\ Leave(t, g)
  <2>1. state[t] # "queued" \/ slot[t] # g
    BY <1>1, ConstantsOK DEF Cancelled, RowsHold, Row, Gen
  <2>2. QED
    BY <1>0, <1>1, <2>1, LeaveRow
<1>2. CASE \E s \in {"failed", "review"} : Settle(t, g, s)
  BY <1>0, <1>2, SettleRow DEF SLOT_FREE
<1>3. CASE At(t, g, [runs[t][g] EXCEPT !.at = "start"]) /\ UNCHANGED <<state, slot>>
  BY <1>0, <1>3, UpdateRow DEF Awaits, Turns
<1>4. CASE startImplementor(t, g)
  BY <1>0, <1>4, StartImplementorRow
<1>5. CASE \E at \in {"unwind", "throw"} :
             /\ at = "unwind" => Cancelled(t)
             /\ At(t, g, [runs[t][g] EXCEPT !.at = at, !.stops = live[t]])
             /\ UNCHANGED <<state, slot>>
  <2>1. PICK at \in {"unwind", "throw"} :
          /\ at = "unwind" => Cancelled(t)
          /\ At(t, g, [runs[t][g] EXCEPT !.at = at, !.stops = live[t]])
          /\ UNCHANGED <<state, slot>>
    BY <1>5
  <2>2. at # "unwind" \/ slot[t] = 0
    BY <2>1 DEF Cancelled, RowsHold, Row
  <2>3. at \in Awaits /\ "none" \in Turns
    BY DEF Awaits, Turns
  <2>4. QED
    BY <1>0, <2>1, <2>2, <2>3, UpdateRow
<1>6. CASE SelectDone(t, g)
  BY <1>1, <1>2, <1>3, <1>4, <1>6 DEF SelectDone, Next0
<1>7. CASE ResumeSelectDone(t, g)
  BY <1>1, <1>2, <1>3, <1>4, <1>7 DEF ResumeSelectDone, Next0
<1>8. CASE StartDone(t, g)
  BY <1>4, <1>5, <1>8 DEF StartDone
<1>9. CASE ResumeStartDone(t, g)
  BY <1>1, <1>2, <1>4, <1>9 DEF ResumeStartDone
<1>10. QED
  BY <1>6, <1>7, <1>8, <1>9

(* A pipeline has its result: it publishes a state that frees the slot, or *)
(* the task is cancelled and holds none, or the run leaves by its throw.   *)
LEMMA WorkDoneRow ==
  ASSUME TypeOK, RowsHold, NEW t \in Task, NEW g \in Gen, WorkDone(t, g)
  PROVE  RowsHold'
<1>0. UNCHANGED Commands
  BY DEF WorkDone
<1>1. PICK at \in {"unwind", "throw"} :
        /\ At(t, g, [runs[t][g] EXCEPT !.at = at, !.turn = "none", !.stops = live[t]])
        /\ \/ (at = "throw" \/ Cancelled(t)) /\ UNCHANGED <<state, slot>>
           \/ \E s \in {"done", "review", "paused"} : Publish(t, s)
  BY DEF WorkDone
<1>2. CASE (at = "throw" \/ Cancelled(t)) /\ UNCHANGED <<state, slot>>
  <2>1. at # "unwind" \/ slot[t] = 0
    BY <1>2 DEF Cancelled, RowsHold, Row
  <2>2. at \in Awaits /\ "none" \in Turns
    BY DEF Awaits, Turns
  <2>3. QED
    BY <1>0, <1>1, <1>2, <2>1, <2>2, UpdateRow
<1>3. CASE \E s \in {"done", "review", "paused"} : Publish(t, s)
  <2>1. PICK s \in {"done", "review", "paused"} : Publish(t, s)
    BY <1>3
  <2>2. s \in State \ {"none", "queued"} /\ s \in SLOT_FREE
    BY DEF State, SLOT_FREE
  <2>3. QED
    BY <1>0, <1>1, <2>1, <2>2, PublishRow, AtElsewhere, RunFrame
<1>4. QED
  BY <1>1, <1>2, <1>3

(* A resume has its result. *)
LEMMA ResumeWorkDoneRow ==
  ASSUME TypeOK, RowsHold, NEW t \in Task, NEW g \in Gen, ResumeWorkDone(t, g)
  PROVE  RowsHold'
<1>0. UNCHANGED Commands
  BY DEF ResumeWorkDone
<1>1. PICK r : At(t, g, r)
  BY DEF ResumeWorkDone
<1>2. CASE \E s \in {"review", "paused"} : Publish(t, s)
  <2>1. PICK s \in {"review", "paused"} : Publish(t, s)
    BY <1>2
  <2>2. s \in State \ {"none", "queued"} /\ s \in SLOT_FREE
    BY DEF State, SLOT_FREE
  <2>3. QED
    BY <1>0, <1>1, <2>1, <2>2, PublishRow, AtElsewhere, RunFrame
<1>3. CASE Move(t, state[t], slot[t] = g)
  <2>1. state[t] # "queued" \/ slot[t] # g
    BY ConstantsOK DEF ResumeWorkDone, RowsHold, Row, Gen
  <2>2. QED
    BY <1>0, <1>1, <1>3, <2>1, AtElsewhere, RunFrame, ReturnRow
<1>4. QED
  BY <1>2, <1>3 DEF ResumeWorkDone

(* A finally has stopped its session: a run that threw fails its task, and *)
(* no other holds the slot this late.                                      *)
LEMMA UnwoundRow ==
  ASSUME TypeOK, RowsHold, NEW t \in Task, NEW g \in Gen, Unwound(t, g)
  PROVE  RowsHold'
<1>0. UNCHANGED Commands
  BY DEF Unwound
<1>1. /\ \A u \in Task : u # t => runs'[u] = runs[u]
      /\ \A k \in Gen : k # g =>
           runs'[t][k] = runs[t][k] \/ runs'[t][k] = [runs[t][k] EXCEPT !.turn = "none"]
  BY DEF Unwound, TypeOK
<1>2. ASSUME NEW k \in Gen, k # g
      PROVE  runs'[t][k].at = runs[t][k].at /\ runs'[t][k].kind = runs[t][k].kind
  <2>1. runs[t][k] \in Run
    BY RunTyped
  <2>2. QED
    BY <1>1, <1>2, <2>1 DEF Run
<1>3. CASE Publish(t, "failed")
  <2>1. "failed" \in State \ {"none", "queued"} /\ "failed" \in SLOT_FREE
    BY DEF State, SLOT_FREE
  <2>2. QED
    BY <1>0, <1>1, <1>3, <2>1, PublishRow, RunFrame
<1>4. CASE /\ Move(t, state[t], slot[t] = g)
           /\ ~(runs[t][g].at = "throw" /\ ~Cancelled(t))
  <2>1. state[t] # "queued" \/ slot[t] # g
    <3>1. runs[t][g].at = "unwind" \/ Cancelled(t)
      BY <1>4 DEF Unwound
    <3>2. QED
      BY <3>1, ConstantsOK DEF Cancelled, RowsHold, Row, Gen
  <2>2. QED
    BY <1>0, <1>1, <1>2, <1>4, <2>1, RunFrame, ReturnRow
<1>5. QED
  BY <1>3, <1>4 DEF Unwound

(* No run strands its task. *)
LEMMA RunStepRow ==
  ASSUME TypeOK, RowsHold, NEW t \in Task, NEW g \in Gen, RunStep(t, g)
  PROVE  RowsHold'
BY PrepDoneRow, PlanDoneRow, SelectRow, WorkDoneRow, ResumeWorkDoneRow, UnwoundRow DEF RunStep

-----------------------------------------------------------------------------
(* A command after its await: its own continuation is gone, and no other   *)
(* task's is touched.                                                      *)
LEMMA ResumedCall ==
  ASSUME TypeOK, NEW t \in Task, NEW ops, Resumed(t, ops)
  PROVE  call[t].op \in ops /\ call'[t].op = "none" /\ \A u \in Task : u # t => call'[u] = call[u]
<1>1. call' = [call EXCEPT ![t] = NoCall] /\ call[t].op \in ops
  BY DEF Resumed
<1>2. call'[t] = NoCall /\ \A u \in Task : u # t => call'[u] = call[u]
  BY <1>1 DEF TypeOK
<1>3. NoCall.op = "none"
  BY DEF NoCall
<1>4. QED
  BY <1>1, <1>2, <1>3

(* A command that awaits leaves its own continuation only. *)
LEMMA AwaitCall ==
  ASSUME TypeOK, NEW t \in Task, NEW op, Await(t, op, 0)
  PROVE  call'[t].op = op /\ \A u \in Task : u # t => call'[u] = call[u]
BY DEF Await, TypeOK

(* Handlers that cut or restart turns, and at most write a row. *)
LEMMA TurnsRow ==
  ASSUME TypeOK, RowsHold, NEW t \in Task, AgentsStopped(t) \/ Paused(t) \/ ResumeSteers(t)
  PROVE  RowsHold'
<1>1. PICK turn \in Turns, chosen \in SUBSET Gen :
        runs' = [runs EXCEPT ![t] = [g \in Gen |->
          IF g \in chosen THEN [runs[t][g] EXCEPT !.turn = turn] ELSE runs[t][g]]]
  <2>1. CASE AgentsStopped(t)
    <3>0. "none" \in Turns
      BY DEF Turns
    <3> WITNESS "none" \in Turns, Gen \in SUBSET Gen
    <3>1. QED
      BY <2>1 DEF AgentsStopped
  <2>2. CASE Paused(t)
    <3>0. "idle" \in Turns
      BY DEF Turns
    <3> WITNESS "idle" \in Turns, {g \in Gen : g = call[t].run /\ runs[t][g].turn = "busy"} \in SUBSET Gen
    <3>1. QED
      BY <2>2 DEF Paused
  <2>3. CASE ResumeSteers(t)
    <3>0. "busy" \in Turns
      BY DEF Turns
    <3> WITNESS "busy" \in Turns, {g \in Gen : g = live[t] /\ runs[t][g].turn = "idle"} \in SUBSET Gen
    <3>1. QED
      BY <2>3 DEF ResumeSteers
  <2>4. QED
    BY <2>1, <2>2, <2>3
<1>2. SameStage(t)
  BY <1>1, TurnsSame
<1>3. CASE AgentsStopped(t)
  <2>1. UNCHANGED <<state, slot, queue, requeue, call>>
    BY <1>3 DEF AgentsStopped
  <2>2. LineKept(t) /\ Queued(t)' = Queued(t)
    BY <2>1, LineSame
  <2>3. \A h \in Gen : h = slot[t] =>
          runs'[t][h].at # "unwind" /\ runs'[t][h].kind = runs[t][h].kind
    BY <1>2, ConstantsOK DEF SameStage, RowsHold, Row, Gen
  <2>4. /\ state[t] = "queued" => Owned(t)'
        /\ call'[t].op \in Resumes => state[t] # "none"
        /\ call'[t].op \in Enqueuing => slot[t] = 0 /\ state[t] # "queued"
    BY <2>1, <2>2 DEF RowsHold, Row, Owned
  <2>5. QED
    BY <1>2, <2>1, <2>2, <2>3, <2>4, StandRow DEF SameStage
<1>4. CASE Paused(t) \/ ResumeSteers(t)
  <2>1. PICK s \in {"paused", "implementing"} : Publish(t, s)
    BY <1>4 DEF Paused, ResumeSteers
  <2>2. s \in State \ {"none", "queued"}
    BY DEF State
  <2>3. UNCHANGED <<queue, requeue>> /\ \E ops : Resumed(t, ops)
    BY <1>4 DEF Paused, ResumeSteers
  <2>4. LineKept(t) /\ call'[t].op = "none"
    BY <2>3, ResumedCall, LineSame
  <2>5. QED
    BY <1>2, <2>1, <2>2, <2>4, PublishRow DEF SameStage
<1>5. QED
  BY <1>3, <1>4

(* Retry and dispatch put a task in line that holds no slot. *)
LEMMA EnqueuingRow ==
  ASSUME TypeOK, RowsHold, NEW t \in Task, Dispatched(t) \/ Retried(t)
  PROVE  RowsHold'
<1>1. UNCHANGED requeue /\ \E ops \in SUBSET Enqueuing : Resumed(t, ops)
  BY DEF Dispatched, Retried, Enqueuing
<1>2. /\ call[t].op \in Enqueuing /\ call'[t].op = "none"
      /\ \A u \in Task : u # t => call'[u] = call[u]
  BY <1>1, ResumedCall
<1>3. slot[t] = 0 /\ state[t] # "queued" /\ "none" \notin Enqueuing
  BY <1>2 DEF RowsHold, Row, Enqueuing
<1>4. queue \in Seq(Task) /\ Once(queue)
  BY DEF TypeOK, QueuedOnce, Once
<1>5. CASE enqueueOrRun(t, "intake", queue)
  BY <1>1, <1>2, <1>3, <1>4, <1>5, EnqueueRow DEF Queued
<1>6. CASE enqueueOrRun(t, "queued", Dropped(t))
  <2>1. Dropped(t) \in Seq(Task)
    BY <1>4, DroppedTyped
  <2>2. \A u \in Task : u # t /\ Queued(u) => \E i \in 1..Len(Dropped(t)) : Dropped(t)[i] = u
    BY <1>4, DroppedKeeps
  <2>3. QED
    BY <1>1, <1>2, <1>3, <1>6, <2>1, <2>2, EnqueueRow
<1>7. CASE UNCHANGED <<state, queue, runs, slot>>
  <2>1. LineKept(t)
    BY <1>1, <1>2, <1>7, LineSame
  <2>2. \A h \in Gen : h # slot[t]
    BY <1>3, ConstantsOK DEF Gen
  <2>3. QED
    BY <1>2, <1>3, <1>7, <2>1, <2>2, StandRow DEF Resumes
<1>8. CASE Publish(t, "failed") /\ UNCHANGED <<runs, queue>>
  <2>1. LineKept(t)
    BY <1>1, <1>2, <1>8, LineSame
  <2>2. "failed" \in State \ {"none", "queued"} /\ "failed" \in SLOT_FREE
    BY DEF State, SLOT_FREE
  <2>3. QED
    BY <1>2, <1>8, <2>1, <2>2, PublishRow
<1>9. QED
  BY <1>5, <1>6, <1>7, <1>8 DEF Dispatched, Retried

(* A teardown and a resume without its workspace settle the row; a refused *)
(* resume, or one that finds a run coming up, leaves everything alone; the *)
(* others start.                                                           *)
LEMMA ContinueRow ==
  ASSUME TypeOK, RowsHold, NEW t \in Task, Continue(t)
  PROVE  RowsHold'
<1>1. CASE TornDown(t) \/ ResumeMissing(t)
  <2>1. PICK s \in {"cancelled", "closed", "done", "failed"} : Publish(t, s)
    BY <1>1 DEF TornDown, ResumeMissing
  <2>2. s \in State \ {"none", "queued"} /\ s \in SLOT_FREE
    BY DEF State, SLOT_FREE
  <2>3. UNCHANGED <<runs, queue, requeue>> /\ \E ops : Resumed(t, ops)
    BY <1>1 DEF TornDown, ResumeMissing
  <2>4. LineKept(t) /\ call'[t].op = "none"
    BY <2>3, ResumedCall, LineSame
  <2>5. QED
    BY <2>1, <2>2, <2>3, <2>4, PublishRow
<1>2. CASE ResumeRefused(t) \/ ResumeNoop(t)
  <2>1. UNCHANGED <<state, slot, runs, queue, requeue>> /\ Resumed(t, Resumes)
    BY <1>2 DEF ResumeRefused, ResumeNoop, Resumes
  <2>2. /\ call[t].op \in Resumes /\ call'[t].op = "none"
        /\ LineKept(t) /\ Queued(t)' = Queued(t)
    BY <2>1, ResumedCall, LineSame
  <2>3. \A h \in Gen : h = slot[t] => runs[t][h].at # "unwind"
    BY ConstantsOK DEF RowsHold, Row, Gen
  <2>4. state[t] = "queued" => Owned(t)'
    BY <2>1, <2>2 DEF RowsHold, Row, Owned, Resumes
  <2>5. QED
    BY <2>1, <2>2, <2>3, <2>4, StandRow DEF Resumes, Enqueuing
<1>3. CASE ResumePipeline(t) \/ ResumeImplementor(t)
  <2>1. UNCHANGED <<queue, requeue>> /\ Resumed(t, Resumes)
    BY <1>3 DEF ResumePipeline, ResumeImplementor, Resumes
  <2>2. call[t].op \in Resumes /\ call'[t].op = "none" /\ LineKept(t)
    BY <2>1, ResumedCall, LineSame
  <2>3. state[t] # "none"
    BY <2>2 DEF RowsHold, Row
  <2>4. CASE ResumePipeline(t)
    BY <2>2, <2>3, <2>4, StartRow DEF ResumePipeline, Cancelled, Enqueuing
  <2>5. CASE ResumeImplementor(t)
    <3>1. state'[t] = "implementing" /\ \A u \in Task : u # t => state'[u] = state[u]
      BY <2>5 DEF ResumeImplementor, TypeOK
    <3>2. QED
      BY <2>2, <2>5, <3>1, StartRow DEF ResumeImplementor, Enqueuing
  <2>6. QED
    BY <1>3, <2>4, <2>5
<1>4. QED
  BY <1>1, <1>2, <1>3, TurnsRow, EnqueuingRow DEF Continue

(* dropFromQueue keeps every other task in line. *)
LEMMA DroppedLine ==
  ASSUME TypeOK, NEW t \in Task, queue' = Dropped(t)
  PROVE  \A u \in Task : u # t /\ Queued(u) => Queued(u)'
<1>1. queue \in Seq(Task)
  BY DEF TypeOK
<1>2. ASSUME NEW u \in Task, u # t, Queued(u) PROVE Queued(u)'
  <2>1. \E j \in 1..Len(Dropped(t)) : Dropped(t)[j] = u
    BY <1>1, <1>2, DroppedKeeps
  <2>2. \E j \in 1..Len(queue') : queue'[j] = u
    BY <2>1
  <2>3. QED
    BY <2>2 DEF Queued
<1>3. QED
  BY <1>2

(* The owner's commands up to their await. *)
LEMMA CommandRow ==
  ASSUME TypeOK, RowsHold, NEW t \in Task, Command(t)
  PROVE  RowsHold'
<1>0. queue \in Seq(Task) /\ \A h \in Gen : h = slot[t] => runs[t][h].at # "unwind"
  BY ConstantsOK DEF TypeOK, RowsHold, Row, Gen
<1>1. CASE Dispatch(t)
  <2>1. /\ call'[t].op = "dispatch" /\ \A u \in Task : u # t => call'[u] = call[u]
        /\ state'[t] = "intake" /\ \A u \in Task : u # t => state'[u] = state[u]
        /\ UNCHANGED <<runs, slot, queue, requeue>> /\ slot[t] = 0
    BY <1>1, CallElsewhere DEF Dispatch, TypeOK, RowsHold, Row
  <2>2. Elsewhere(t)
    BY <2>1, LineSame DEF Elsewhere, LineKept
  <2>3. Row(t)'
    BY <2>1 DEF Row, Resumes
  <2>4. QED
    BY <2>2, <2>3, RowAt
<1>2. CASE StartImmediately(t)
  <2>1. LineKept(t)
    BY <1>2, DroppedLine DEF StartImmediately, LineKept
  <2>2. call'[t].op \notin Enqueuing
    BY <1>2 DEF StartImmediately, RowsHold, Row
  <2>3. QED
    BY <1>2, <2>1, <2>2, StartRow DEF StartImmediately
<1>3. CASE Ask(t)
  <2>1. UNCHANGED <<state, slot, runs, queue, requeue>> /\ call[t].op = "none"
    BY <1>3 DEF Ask, Idle, NoCall
  <2>2. /\ \A u \in Task : u # t => call'[u] = call[u]
        /\ call'[t].op \in Resumes => state[t] # "none"
        /\ call'[t].op \in Enqueuing => state[t] = "cancelled"
    BY <1>3, CallElsewhere DEF Ask, Await, Resumes, Enqueuing
  <2>3. LineKept(t) /\ Queued(t)' = Queued(t)
    BY <2>1, <2>2, LineSame
  <2>4. state[t] = "queued" => Owned(t)'
    BY <2>1, <2>3 DEF RowsHold, Row, Owned
  <2>5. state[t] = "cancelled" => slot[t] = 0
    BY DEF RowsHold, Row
  <2>6. QED
    BY <1>0, <2>1, <2>2, <2>3, <2>4, <2>5, StandRow
<1>4. CASE Cancel(t)
  <2>1. /\ UNCHANGED <<runs, requeue>>
        /\ \A u \in Task : u # t /\ Queued(u) => Queued(u)'
    BY <1>4, DroppedLine DEF Cancel
  <2>2. CASE Await(t, "cancel", 0) /\ UNCHANGED <<state, slot>>
    <3>1. call'[t].op = "cancel" /\ \A u \in Task : u # t => call'[u] = call[u]
      BY <2>2, AwaitCall
    <3>2. LineKept(t) /\ Owned(t)'
      BY <2>1, <3>1 DEF LineKept, Owned
    <3>3. QED
      BY <1>0, <2>1, <2>2, <3>1, <3>2, StandRow DEF Resumes, Enqueuing
  <2>3. CASE UNCHANGED call /\ Publish(t, "cancelled")
    BY <2>1, <2>3, PublishRow DEF LineKept, State, SLOT_FREE
  <2>4. QED
    BY <1>4, <2>2, <2>3 DEF Cancel
<1>5. QED
  BY <1>1, <1>2, <1>3, <1>4 DEF Command

(* An auto-resume fires. *)
LEMMA FireWakeRow ==
  ASSUME TypeOK, RowsHold, NEW t \in Task, FireWake(t)
  PROVE  RowsHold'
<1>1. UNCHANGED <<state, slot, runs, queue, requeue>>
  BY DEF FireWake
<1>2. CASE UNCHANGED call
  BY <1>1, <1>2, NothingMoved
<1>3. CASE state[t] = "interrupted" /\ Await(t, "autoResume", 0)
  <2>1. call'[t].op = "autoResume" /\ \A u \in Task : u # t => call'[u] = call[u]
    BY <1>3, AwaitCall
  <2>2. LineKept(t) /\ \A h \in Gen : h = slot[t] => runs[t][h].at # "unwind"
    BY <1>1, <2>1, LineSame, ConstantsOK DEF RowsHold, Row, Gen
  <2>3. QED
    BY <1>1, <1>3, <2>1, <2>2, StandRow DEF Enqueuing
<1>4. QED
  BY <1>2, <1>3 DEF FireWake

(* The boot timer puts a row back in line, or finds it served. *)
LEMMA RequeueRow ==
  ASSUME TypeOK, RowsHold, NEW t \in Task, RequeueAfterBoot(t)
  PROVE  RowsHold'
<1>1. requeue' = requeue \ {t} /\ UNCHANGED call
  BY DEF RequeueAfterBoot
<1>2. CASE state[t] = "queued" /\ slot[t] = 0 /\ enqueueOrRun(t, "queued", queue)
  <2>1. call[t].op \notin Enqueuing /\ queue \in Seq(Task)
    BY <1>2 DEF RowsHold, Row, TypeOK
  <2>2. QED
    BY <1>1, <1>2, <2>1, EnqueueRow DEF Queued
<1>3. CASE ~(state[t] = "queued" /\ slot[t] = 0) /\ UNCHANGED <<state, queue, runs, slot>>
  <2>1. LineKept(t)
    BY <1>1, <1>3 DEF LineKept, Queued
  <2>2. \A h \in Gen : h = slot[t] => runs[t][h].at # "unwind"
    BY ConstantsOK DEF RowsHold, Row, Gen
  <2>3. /\ state[t] = "queued" => Owned(t)'
        /\ call'[t].op \in Resumes => state[t] # "none"
        /\ call'[t].op \in Enqueuing => slot[t] = 0 /\ state[t] # "queued"
    BY <1>1, <1>3 DEF RowsHold, Row, Owned
  <2>4. QED
    BY <1>3, <2>1, <2>2, <2>3, StandRow
<1>4. QED
  BY <1>2, <1>3 DEF RequeueAfterBoot

(* The pump takes out of line what it starts, and what no longer waits. *)
LEMMA PumpRow == ASSUME TypeOK, RowsHold, PumpStep PROVE RowsHold'
<1>0. UNCHANGED <<state, call, requeue>>
  BY DEF PumpStep, Rows
<1>1. CASE UNCHANGED <<runs, slot, queue>>
  BY <1>0, <1>1, NothingMoved
<1>2. CASE /\ scan > 0 /\ scan <= Len(queue) /\ queue' = Remove(scan)
           /\ \/ state[queue[scan]] # "queued" /\ UNCHANGED <<runs, slot>>
              \/ state[queue[scan]] = "queued" /\ Start(queue[scan], "queued", "prep")
  <2>1. scan \in 1..Len(queue) /\ queue \in Seq(Task)
    BY <1>2, LenProperties DEF TypeOK
  <2>2. PICK t \in Task : t = queue[scan]
    BY <2>1, ElementOfSeq
  <2>3. LineKept(t)
    BY <1>0, <1>2, <2>1, <2>2, RemoveKeeps DEF LineKept, Queued
  <2>4. CASE state[t] # "queued" /\ UNCHANGED <<runs, slot>>
    <3>1. \A h \in Gen : h = slot[t] => runs[t][h].at # "unwind"
      BY ConstantsOK DEF RowsHold, Row, Gen
    <3>2. /\ call'[t].op \in Resumes => state[t] # "none"
          /\ call'[t].op \in Enqueuing => slot[t] = 0 /\ state[t] # "queued"
      BY <1>0 DEF RowsHold, Row
    <3>3. QED
      BY <1>0, <2>3, <2>4, <3>1, <3>2, StandRow
  <2>5. CASE state[t] = "queued" /\ Start(t, "queued", "prep")
    <3>1. call'[t].op \notin Enqueuing
      BY <1>0, <2>5 DEF RowsHold, Row
    <3>2. QED
      BY <1>0, <2>3, <2>5, <3>1, StartRow
  <2>6. QED
    BY <1>2, <2>2, <2>4, <2>5
<1>3. QED
  BY <1>1, <1>2 DEF PumpStep

(* The boot lists every row it finds or makes queued. *)
LEMMA RestartRow == ASSUME TypeOK, RowsHold, Restart PROVE RowsHold'
BY DEF Restart, RowsHold, Row, Owned, NoCall, Resumes, Enqueuing

(* Every step keeps every row owned. *)
LEMMA NextRow == ASSUME TypeOK, RowsHold, [Next]_vars PROVE RowsHold'
<1>1. CASE \/ DrainBegins \/ DrainReleased \/ \E r \in Repo : CoworkBegin(r) \/ CoworkEnd(r)
           \/ UNCHANGED vars
  <2>1. UNCHANGED <<state, slot, runs, call, requeue, queue>>
    BY <1>1 DEF DrainBegins, DrainReleased, CoworkBegin, CoworkEnd, TaskVars, vars
  <2>2. QED
    BY <2>1, NothingMoved
<1>2. QED
  BY <1>1, RunStepRow, ContinueRow, CommandRow, FireWakeRow, RequeueRow, PumpRow, RestartRow DEF Next

(* A queued task is never stranded, for any number of tasks: whatever its  *)
(* owner, a late run, the pump and a restart do to it, it waits in the     *)
(* dispatch queue, holds its slot, is on the boot's list or is being       *)
(* cancelled.                                                              *)
THEOREM QueuedNeverStranded == Spec => []QueuedIsOwned
<1>1. Init => RowsHold
  BY DEF Init, RowsHold, Row, NoCall, Resumes, Enqueuing
<1>2. TypeOK /\ RowsHold /\ [Next]_vars => RowsHold'
  BY NextRow
<1>3. RowsHold => QueuedIsOwned
  BY DEF RowsHold, Row, Owned, QueuedIsOwned
<1>4. QED
  BY <1>1, <1>2, <1>3, TypeCorrect, PTL DEF Spec

-----------------------------------------------------------------------------
(* Nobody waits for nothing.  What holds a waiting task up may only end in *)
(* a step that asks for a pass; a pass leaves behind it only tasks that    *)
(* their own repository holds up, and ends where nothing else can start.   *)
HeldUp(t) == \A i \in 1..Len(queue) : queue[i] = t /\ state[t] = "queued" =>
  /\ scan = 0 => Full(t)
  /\ i < scan => repoAtCapacity(t)

LineHeldUp == \A t \in Task : HeldUp(t)

(* Outside a pass, being in line is all that counts. *)
LEMMA WaitsFull ==
  ASSUME LineHeldUp, scan = 0, NEW t \in Task, Queued(t), state[t] = "queued"
  PROVE  Full(t)
BY DEF LineHeldUp, HeldUp, Queued

(* More slots held, more Co-work turns and a drain free nothing. *)
LEMMA StillFull ==
  ASSUME NEW t \in Task, Active \subseteq Active', cowork \subseteq cowork',
         draining => draining'
  PROVE  /\ repoAtCapacity(t) => repoAtCapacity(t)'
         /\ Full(t) => Full(t)'
<1> DEFINE r == RepoOf[t]
<1>1. ASSUME NEW S \in SUBSET Task, NEW T \in SUBSET Task, S \subseteq T, NEW cap \in Nat,
             Cardinality(S) >= cap
      PROVE  Cardinality(T) >= cap
  <2>1. IsFiniteSet(T) /\ Cardinality(S) <= Cardinality(T)
    BY <1>1, ConstantsOK, FS_Subset
  <2>2. Cardinality(S) \in Nat /\ Cardinality(T) \in Nat
    BY <1>1, ConstantsOK, FS_Subset, FS_CardinalityType
  <2>3. QED
    BY <1>1, <2>1, <2>2
<1>2. /\ Active \in SUBSET Task /\ Active' \in SUBSET Task
      /\ ActiveIn(r) \in SUBSET Task /\ ActiveIn(r)' \in SUBSET Task
      /\ ActiveIn(r) \subseteq ActiveIn(r)'
  BY DEF Active, ActiveIn
<1>3. Cardinality(Active) >= MaxConcurrent => Cardinality(Active') >= MaxConcurrent
  BY <1>1, <1>2, ConstantsOK
<1>4. Cardinality(ActiveIn(r)) >= MaxPerRepo => Cardinality(ActiveIn(r)') >= MaxPerRepo
  BY <1>1, <1>2, ConstantsOK
<1>5. repoAtCapacity(t) => repoAtCapacity(t)'
  BY <1>4 DEF repoAtCapacity
<1>6. QED
  BY <1>3, <1>5 DEF Full

(* A step between passes that asks for one has nothing to show. *)
LEMMA Woken == ASSUME scan' = 1 PROVE LineHeldUp'
BY DEF LineHeldUp, HeldUp

(* A step between passes that frees nothing: whoever waits after it was    *)
(* held up when it came, or is by the time it joins.                       *)
LEMMA Unwoken ==
  ASSUME scan' = 0, Active \subseteq Active', cowork \subseteq cowork', draining => draining',
         \A u \in Task : Queued(u)' /\ state'[u] = "queued" => Full(u)
  PROVE  LineHeldUp'
<1>1. SUFFICES ASSUME NEW u \in Task, NEW i \in 1..Len(queue'), queue'[i] = u, state'[u] = "queued"
               PROVE  Full(u)' /\ ~(i < scan')
  BY DEF LineHeldUp, HeldUp
<1>2. Queued(u)'
  BY <1>1 DEF Queued
<1>3. Full(u)'
  BY <1>1, <1>2, StillFull
<1>4. QED
  BY <1>3

(* A handler outside a pass that keeps the line, or takes out of it, and   *)
(* makes no row queued: it keeps the slots or asks for a pass.             *)
LEMMA KeepsLine ==
  ASSUME LineHeldUp, scan = 0, scan' = 1 \/ (UNCHANGED slot /\ scan' = 0),
         UNCHANGED <<cowork, draining>>,
         \A u \in Task : Queued(u)' => Queued(u),
         \A u \in Task : state'[u] = "queued" => state[u] = "queued"
  PROVE  LineHeldUp'
<1>1. CASE scan' = 1
  BY <1>1, Woken
<1>2. CASE UNCHANGED slot /\ scan' = 0
  <2>1. Active \subseteq Active'
    BY <1>2 DEF Active
  <2>2. \A u \in Task : Queued(u)' /\ state'[u] = "queued" => Full(u)
    BY WaitsFull
  <2>3. QED
    BY <1>2, <2>1, <2>2, Unwoken
<1>3. QED
  BY <1>1, <1>2

(* A row written with anything but "queued", its slot freed or not. *)
LEMMA MoveLine ==
  ASSUME TypeOK, LineHeldUp, scan = 0, NEW t \in Task, NEW s, NEW frees, Move(t, s, frees),
         s # "queued" \/ s = state[t], UNCHANGED <<cowork, draining>>,
         \A u \in Task : Queued(u)' => Queued(u)
  PROVE  LineHeldUp'
<1>1. scan' = 1 \/ (UNCHANGED slot /\ scan' = 0)
  BY DEF Move
<1>2. \A u \in Task : state'[u] = "queued" => state[u] = "queued"
  BY DEF Move, TypeOK
<1>3. QED
  BY <1>1, <1>2, KeepsLine

(* Every run step writes at most its own task's row, never as queued. *)
LEMMA RunStepLine ==
  ASSUME TypeOK, LineHeldUp, NEW t \in Task, NEW g \in Gen, RunStep(t, g)
  PROVE  LineHeldUp'
<1>1. scan = 0 /\ UNCHANGED <<cowork, draining>> /\ \A u \in Task : Queued(u)' => Queued(u)
  <2>1. scan = 0 /\ UNCHANGED Commands
    BY DEF RunStep, PrepDone, PlanDone, SelectDone, StartDone, ResumeSelectDone, ResumeStartDone,
           WorkDone, ResumeWorkDone, Unwound, Step
  <2>2. QED
    BY <2>1 DEF Commands, Queued
<1>2. CASE UNCHANGED <<state, slot, scan>>
  BY <1>1, <1>2, KeepsLine
<1>3. CASE Leave(t, g) \/ Move(t, state[t], slot[t] = g)
  BY <1>1, <1>3, MoveLine DEF Leave
<1>4. CASE \E s \in State \ {"none", "queued"} : Publish(t, s)
  BY <1>1, <1>4, MoveLine DEF Publish
<1>5. \/ UNCHANGED <<state, slot, scan>> \/ Leave(t, g) \/ Move(t, state[t], slot[t] = g)
      \/ \E s \in State \ {"none", "queued"} : Publish(t, s)
  <2>1. {"failed", "review", "paused", "done", "planning", "implementing"} \subseteq State \ {"none", "queued"}
    BY DEF State
  <2>2. \A s \in {"failed", "review"} : Settle(t, g, s) => Publish(t, s)
    BY DEF Settle
  <2>3. startImplementor(t, g) => Publish(t, "implementing")
    BY Zenon DEF startImplementor
  <2>4. CASE PrepDone(t, g)
    BY <2>1, <2>2, <2>4 DEF PrepDone
  <2>5. CASE PlanDone(t, g)
    BY <2>1, <2>2, <2>5 DEF PlanDone
  <2>6. CASE SelectDone(t, g)
    BY <2>1, <2>2, <2>3, <2>6 DEF SelectDone
  <2>7. CASE StartDone(t, g)
    BY <2>1, <2>3, <2>7 DEF StartDone
  <2>8. CASE ResumeSelectDone(t, g)
    BY <2>1, <2>2, <2>3, <2>8 DEF ResumeSelectDone
  <2>9. CASE ResumeStartDone(t, g)
    BY <2>1, <2>2, <2>3, <2>9 DEF ResumeStartDone
  <2>10. CASE WorkDone(t, g)
    BY <2>1, <2>10 DEF WorkDone
  <2>11. CASE ResumeWorkDone(t, g)
    BY <2>1, <2>11 DEF ResumeWorkDone
  <2>12. CASE Unwound(t, g)
    BY <2>1, <2>12 DEF Unwound
  <2>13. QED
    BY <2>4, <2>5, <2>6, <2>7, <2>8, <2>9, <2>10, <2>11, <2>12 DEF RunStep
<1>6. QED
  BY <1>2, <1>3, <1>4, <1>5

(* A start outside the pump, by the owner or a resume: one slot more. *)
LEMMA StartLine ==
  ASSUME TypeOK, LineHeldUp, scan = 0, NEW t \in Task, NEW kind, NEW at \in {"prep", "select"},
         Start(t, kind, at), UNCHANGED <<scan, cowork, draining>>,
         \A u \in Task : Queued(u)' => Queued(u),
         \A u \in Task : state'[u] = "queued" => state[u] = "queued"
  PROVE  LineHeldUp'
<1>1. Active \subseteq Active'
  BY StartSlots DEF Active
<1>2. \A u \in Task : Queued(u)' /\ state'[u] = "queued" => Full(u)
  BY WaitsFull
<1>3. QED
  BY <1>1, <1>2, Unwoken

(* enqueueOrRun puts in line only what cannot start now; a row that is     *)
(* already in line when it is started was not queued, or could not start.  *)
LEMMA EnqueueLine ==
  ASSUME TypeOK, LineHeldUp, scan = 0, NEW t \in Task, NEW s \in State, NEW q \in Seq(Task),
         enqueueOrRun(t, s, q), UNCHANGED <<scan, cowork, draining>>,
         \A u \in Task : (\E i \in 1..Len(q) : q[i] = u) => Queued(u),
         s = "queued" /\ (\E i \in 1..Len(q) : q[i] = t) => state[t] = "queued"
  PROVE  LineHeldUp'
<1>0. \A u \in Task : u # t => state'[u] = state[u]
  BY DEF enqueueOrRun, TypeOK
<1>1. CASE Full(t) /\ queue' = (IF \E i \in 1..Len(q) : q[i] = t THEN q ELSE Append(q, t))
           /\ UNCHANGED slot
  <2>1. ASSUME NEW u \in Task, u # t, Queued(u)' PROVE Queued(u)
    <3>1. CASE queue' = q
      BY <2>1, <3>1 DEF Queued
    <3>2. CASE queue' = Append(q, t)
      <4>1. PICK i \in 1..Len(queue') : queue'[i] = u
        BY <2>1 DEF Queued
      <4>2. Len(q) \in Nat /\ Len(queue') = Len(q) + 1 /\ queue'[i] = IF i <= Len(q) THEN q[i] ELSE t
        BY <3>2, LenProperties, AppendProperties
      <4>3. i \in 1..Len(q) /\ q[i] = u
        BY <2>1, <4>1, <4>2
      <4>4. QED
        BY <4>3
    <3>3. QED
      BY <1>1, <3>1, <3>2
  <2>2. \A u \in Task : Queued(u)' /\ state'[u] = "queued" => Full(u)
    BY <1>0, <1>1, <2>1, WaitsFull
  <2>3. Active \subseteq Active'
    BY <1>1 DEF Active
  <2>4. QED
    BY <2>2, <2>3, Unwoken
<1>2. CASE ~Full(t) /\ state' = [state EXCEPT ![t] = s] /\ queue' = q /\ Start(t, "queued", "prep")
  <2>1. \A u \in Task : Queued(u)' => Queued(u)
    BY <1>2 DEF Queued
  <2>2. state'[t] = s
    BY <1>2 DEF TypeOK
  <2>3. \A u \in Task : Queued(u)' /\ state'[u] = "queued" => Full(u)
    <3>1. Queued(t)' => \E i \in 1..Len(q) : q[i] = t
      BY <1>2 DEF Queued
    <3>2. QED
      BY <1>0, <2>1, <2>2, <3>1, WaitsFull
  <2>4. Active \subseteq Active'
    BY <1>2, StartSlots DEF Active
  <2>5. QED
    BY <2>3, <2>4, Unwoken
<1>3. QED
  BY <1>1, <1>2 DEF enqueueOrRun

(* dropFromQueue adds nobody, and takes its task out for good. *)
LEMMA DroppedEntries ==
  ASSUME TypeOK, NEW t \in Task
  PROVE  /\ \A u \in Task : (\E i \in 1..Len(Dropped(t)) : Dropped(t)[i] = u) => Queued(u)
         /\ ~\E i \in 1..Len(Dropped(t)) : Dropped(t)[i] = t
<1>1. CASE Queued(t)
  <2> DEFINE k == CHOOSE i \in 1..Len(queue) : queue[i] = t
  <2>1. k \in 1..Len(queue) /\ queue[k] = t
    BY <1>1 DEF Queued
  <2>2. Dropped(t) = Remove(k)
    BY <1>1 DEF Dropped
  <2> HIDE DEF k
  <2>3. /\ queue \in Seq(Task) /\ Len(queue) \in Nat /\ k \in Nat
        /\ \A i, j \in 1..Len(queue) : queue[i] = queue[j] => i = j
    BY <2>1, LenProperties DEF TypeOK, QueuedOnce
  <2>4. /\ Len(Remove(k)) = Len(queue) - 1
        /\ \A j \in 1..(Len(queue) - 1) : Remove(k)[j] = IF j < k THEN queue[j] ELSE queue[j + 1]
    BY <2>1, <2>3, RemoveEntries
  <2>5. ASSUME NEW j \in 1..(Len(queue) - 1)
        PROVE  \E i \in 1..Len(queue) : i # k /\ queue[i] = Remove(k)[j]
    <3>1. CASE j < k
      BY <2>3, <2>4, <3>1
    <3>2. CASE ~(j < k)
      <4>1. j + 1 \in 1..Len(queue) /\ j + 1 # k /\ Remove(k)[j] = queue[j + 1]
        BY <2>3, <2>4, <3>2
      <4>2. QED
        BY <4>1
    <3>3. QED
      BY <3>1, <3>2
  <2>6. QED
    BY <2>1, <2>2, <2>3, <2>4, <2>5 DEF Queued
<1>2. CASE ~Queued(t)
  BY <1>2 DEF Dropped, Queued
<1>3. QED
  BY <1>1, <1>2

(* Commands after their await. *)
LEMMA ContinueLine ==
  ASSUME TypeOK, LineHeldUp, NEW t \in Task, Continue(t)
  PROVE  LineHeldUp'
<1>0. scan = 0 /\ UNCHANGED <<cowork, draining>>
  BY DEF Continue, Dispatched, AgentsStopped, TornDown, Retried, Paused, ResumeMissing,
         ResumeRefused, ResumeNoop, ResumeSteers, ResumePipeline, ResumeImplementor, Resumed
<1>1. CASE AgentsStopped(t) \/ ResumeRefused(t) \/ ResumeNoop(t)
  <2>1. UNCHANGED <<state, slot, scan, queue>>
    BY <1>1 DEF AgentsStopped, ResumeRefused, ResumeNoop
  <2>2. QED
    BY <1>0, <2>1, KeepsLine DEF Queued
<1>2. CASE TornDown(t) \/ Paused(t) \/ ResumeMissing(t) \/ ResumeSteers(t)
  <2>1. PICK s \in {"cancelled", "closed", "done", "paused", "failed", "implementing"} : Publish(t, s)
    BY <1>2 DEF TornDown, Paused, ResumeMissing, ResumeSteers
  <2>2. UNCHANGED queue
    BY <1>2 DEF TornDown, Paused, ResumeMissing, ResumeSteers
  <2>3. QED
    BY <1>0, <2>1, <2>2, MoveLine DEF Publish, Queued
<1>3. CASE ResumePipeline(t) \/ ResumeImplementor(t)
  <2>1. /\ Start(t, "immediate", "prep") \/ Start(t, "resume", "select")
        /\ UNCHANGED <<queue, scan>>
        /\ \A u \in Task : state'[u] = "queued" => state[u] = "queued"
    BY <1>3 DEF ResumePipeline, ResumeImplementor, TypeOK
  <2>2. QED
    BY <1>0, <2>1, StartLine DEF Queued
<1>4. CASE Dispatched(t)
  <2>1. UNCHANGED scan /\ queue \in Seq(Task) /\ "intake" \in State
    BY <1>4 DEF Dispatched, TypeOK, State
  <2>2. CASE enqueueOrRun(t, "intake", queue)
    BY <1>0, <2>1, <2>2, EnqueueLine DEF Queued
  <2>3. CASE UNCHANGED <<state, queue, runs, slot>>
    BY <1>0, <2>1, <2>3, KeepsLine DEF Queued
  <2>4. QED
    BY <1>4, <2>2, <2>3 DEF Dispatched
<1>5. CASE Retried(t)
  <2>1. CASE Publish(t, "failed") /\ UNCHANGED queue
    BY <1>0, <2>1, MoveLine DEF Publish, Queued
  <2>2. CASE enqueueOrRun(t, "queued", Dropped(t)) /\ UNCHANGED scan
    <3>1. Dropped(t) \in Seq(Task) /\ "queued" \in State
      BY DroppedTyped DEF TypeOK, QueuedOnce, Once, State
    <3>2. QED
      BY <1>0, <2>2, <3>1, DroppedEntries, EnqueueLine
  <2>3. QED
    BY <1>5, <2>1, <2>2 DEF Retried
<1>6. QED
  BY <1>1, <1>2, <1>3, <1>4, <1>5 DEF Continue

(* Commands up to their await. *)
LEMMA CommandLine ==
  ASSUME TypeOK, LineHeldUp, NEW t \in Task, Command(t)
  PROVE  LineHeldUp'
<1>0. scan = 0 /\ UNCHANGED <<cowork, draining>>
  BY DEF Command, Dispatch, StartImmediately, Ask, Cancel, Idle
<1>1. CASE Dispatch(t) \/ Ask(t)
  <2>1. /\ UNCHANGED <<slot, scan, queue>>
        /\ \A u \in Task : state'[u] = "queued" => state[u] = "queued"
    BY <1>1 DEF Dispatch, Ask, TypeOK
  <2>2. QED
    BY <1>0, <2>1, KeepsLine DEF Queued
<1>2. ASSUME queue' = Dropped(t), NEW u \in Task, Queued(u)' PROVE Queued(u)
  <2>1. \E i \in 1..Len(Dropped(t)) : Dropped(t)[i] = u
    BY <1>2 DEF Queued
  <2>2. QED
    BY <2>1, DroppedEntries
<1>3. CASE StartImmediately(t)
  BY <1>0, <1>2, <1>3, StartLine DEF StartImmediately
<1>4. CASE Cancel(t)
  <2>1. CASE Publish(t, "cancelled")
    BY <1>0, <1>2, <1>4, <2>1, MoveLine DEF Cancel, Publish
  <2>2. CASE UNCHANGED <<state, slot, scan>>
    BY <1>0, <1>2, <1>4, <2>2, KeepsLine DEF Cancel
  <2>3. QED
    BY <1>4, <2>1, <2>2 DEF Cancel
<1>5. QED
  BY <1>1, <1>3, <1>4 DEF Command

(* A pass: whom it leaves behind it was at its repository's cap and stays  *)
(* there, for no slot is given back inside a pass; it only stops where     *)
(* the rest of the line is held up too.                                    *)
LEMMA PumpLine == ASSUME TypeOK, LineHeldUp, PumpStep PROVE LineHeldUp'
<1>0. scan \in Nat /\ scan > 0 /\ UNCHANGED <<state, cowork, draining>> /\ queue \in Seq(Task)
  BY DEF PumpStep, Rows, TypeOK
<1>1. CASE /\ draining \/ scan > Len(queue) \/ Cardinality(Active) >= MaxConcurrent
           /\ scan' = 0 /\ UNCHANGED <<slot, queue>>
  <2>1. SUFFICES ASSUME NEW u \in Task, NEW i \in 1..Len(queue), queue[i] = u, state[u] = "queued"
                 PROVE  Full(u)' /\ ~(i < scan')
    BY <1>0, <1>1 DEF LineHeldUp, HeldUp
  <2>2. Full(u)
    BY <1>0, <1>1, <2>1 DEF LineHeldUp, HeldUp, Full
  <2>3. Active \subseteq Active'
    BY <1>1 DEF Active
  <2>4. QED
    BY <1>0, <1>1, <2>2, <2>3, StillFull
<1>2. CASE /\ scan <= Len(queue) /\ queue' = Remove(scan) /\ scan' = scan
           /\ UNCHANGED slot \/ Start(queue[scan], "queued", "prep")
  <2>1. scan \in 1..Len(queue) /\ Len(queue) \in Nat
    BY <1>0, <1>2, LenProperties
  <2>2. PICK t \in Task : t = queue[scan]
    BY <1>0, <2>1, ElementOfSeq
  <2>3. Active \subseteq Active'
    BY <1>2, <2>2, StartSlots DEF Active
  <2>4. SUFFICES ASSUME NEW u \in Task, NEW i \in 1..Len(queue'), queue'[i] = u,
                        state[u] = "queued", i < scan
                 PROVE  repoAtCapacity(u)'
    BY <1>0, <1>2 DEF LineHeldUp, HeldUp
  <2>5. /\ Len(Remove(scan)) = Len(queue) - 1
        /\ \A j \in 1..(Len(queue) - 1) : Remove(scan)[j] = IF j < scan THEN queue[j] ELSE queue[j + 1]
    BY <1>0, <2>1, RemoveEntries
  <2>6. i \in 1..Len(queue) /\ queue[i] = u
    BY <1>2, <2>1, <2>4, <2>5
  <2>7. repoAtCapacity(u)
    BY <2>4, <2>6 DEF LineHeldUp, HeldUp
  <2>8. QED
    BY <1>0, <2>3, <2>7, StillFull
<1>3. CASE /\ scan <= Len(queue) /\ repoAtCapacity(queue[scan])
           /\ scan' = scan + 1 /\ UNCHANGED <<slot, queue>>
  <2>1. SUFFICES ASSUME NEW u \in Task, NEW i \in 1..Len(queue), queue[i] = u, state[u] = "queued",
                        i < scan + 1
                 PROVE  repoAtCapacity(u)'
    BY <1>0, <1>3 DEF LineHeldUp, HeldUp
  <2>2. i < scan \/ i = scan
    BY <1>0, <2>1
  <2>3. repoAtCapacity(u)
    BY <1>3, <2>1, <2>2 DEF LineHeldUp, HeldUp
  <2>4. Active \subseteq Active'
    BY <1>3 DEF Active
  <2>5. QED
    BY <1>0, <2>3, <2>4, StillFull
<1>4. QED
  BY <1>1, <1>2, <1>3 DEF PumpStep

(* What ends a hold asks for a pass; what begins one holds more. *)
LEMMA OutsideLine ==
  ASSUME TypeOK, LineHeldUp,
         DrainBegins \/ DrainReleased \/ Restart \/ \E r \in Repo : CoworkBegin(r) \/ CoworkEnd(r)
  PROVE  LineHeldUp'
<1>1. CASE DrainReleased \/ \E r \in Repo : CoworkEnd(r)
  BY <1>1, Woken DEF DrainReleased, CoworkEnd
<1>2. CASE DrainBegins \/ \E r \in Repo : CoworkBegin(r)
  <2>1. /\ scan = 0 /\ scan' = 0 /\ UNCHANGED <<state, slot, queue>>
        /\ cowork \subseteq cowork' /\ (draining => draining')
    BY <1>2 DEF DrainBegins, CoworkBegin, TaskVars
  <2>2. Active \subseteq Active' /\ \A u \in Task : Queued(u)' => Queued(u)
    BY <2>1 DEF Active, Queued
  <2>3. \A u \in Task : Queued(u)' /\ state'[u] = "queued" => Full(u)
    BY <2>1, <2>2, WaitsFull
  <2>4. QED
    BY <2>1, <2>2, <2>3, Unwoken
<1>3. CASE Restart
  <2>1. queue' = <<>>
    BY <1>3 DEF Restart
  <2>2. 1..Len(queue') = {}
    BY <2>1
  <2>3. QED
    BY <2>2 DEF LineHeldUp, HeldUp
<1>4. QED
  BY <1>1, <1>2, <1>3

(* Every step leaves whoever waits held up. *)
LEMMA NextLine == ASSUME TypeOK, LineHeldUp, [Next]_vars PROVE LineHeldUp'
<1>1. CASE UNCHANGED vars
  BY <1>1 DEF vars, LineHeldUp, HeldUp, Full, repoAtCapacity, ActiveIn, Active
<1>2. CASE \E t \in Task : FireWake(t)
  <2>1. scan = 0 /\ UNCHANGED <<state, slot, scan, queue, cowork, draining>>
    BY <1>2 DEF FireWake
  <2>2. QED
    BY <2>1, KeepsLine DEF Queued
<1>3. CASE \E t \in Task : RequeueAfterBoot(t)
  <2>1. PICK t \in Task : RequeueAfterBoot(t)
    BY <1>3
  <2>2. /\ scan = 0 /\ UNCHANGED <<scan, cowork, draining>>
        /\ queue \in Seq(Task) /\ "queued" \in State
    BY <2>1 DEF RequeueAfterBoot, TypeOK, State
  <2>3. CASE state[t] = "queued" /\ enqueueOrRun(t, "queued", queue)
    BY <2>2, <2>3, EnqueueLine DEF Queued
  <2>4. CASE UNCHANGED <<state, queue, runs, slot>>
    BY <2>2, <2>4, KeepsLine DEF Queued
  <2>5. QED
    BY <2>1, <2>3, <2>4 DEF RequeueAfterBoot
<1>4. QED
  BY <1>1, <1>2, <1>3, RunStepLine, ContinueLine, CommandLine, PumpLine, OutsideLine DEF Next

(* LineHeldUp holds throughout. *)
LEMMA LineInductive == Spec => []LineHeldUp
<1>1. Init => LineHeldUp
  <2>1. SUFFICES ASSUME Init PROVE LineHeldUp
    OBVIOUS
  <2>2. 1..Len(queue) = {}
    BY <2>1 DEF Init
  <2>3. QED
    BY <2>2 DEF LineHeldUp, HeldUp
<1>2. TypeOK /\ LineHeldUp /\ [Next]_vars => LineHeldUp'
  BY NextLine
<1>3. QED
  BY <1>1, <1>2, TypeCorrect, PTL DEF Spec

(* No wakeup is lost, for any number of tasks and repositories and any     *)
(* caps: whenever no pass is under way, each task that waits in line is    *)
(* held up by a drain, a cap or a Co-work turn.                            *)
THEOREM NoWakeupLost == Spec => []NoLostWakeup
<1>1. TypeOK /\ LineHeldUp => NoLostWakeup
  <2>1. SUFFICES ASSUME TypeOK, LineHeldUp, scan = 0, NEW i \in 1..Len(queue), state[queue[i]] = "queued"
                 PROVE  Full(queue[i])
    BY DEF NoLostWakeup
  <2>2. queue[i] \in Task
    BY <2>1, ElementOfSeq DEF TypeOK
  <2>3. QED
    BY <2>1, <2>2 DEF LineHeldUp, HeldUp
<1>2. QED
  BY <1>1, LineInductive, TypeCorrect, PTL

(* No other handler runs inside a pass. *)
LEMMA PassUndisturbed == ASSUME scan \in Nat, scan > 0, Next PROVE PumpStep
<1>1. ASSUME NEW t \in Task, NEW g \in Gen, RunStep(t, g) PROVE scan = 0
  BY <1>1 DEF RunStep, PrepDone, PlanDone, SelectDone, StartDone, ResumeSelectDone,
     ResumeStartDone, WorkDone, ResumeWorkDone, Unwound, Step
<1>2. ASSUME NEW t \in Task, Continue(t) PROVE scan = 0
  BY <1>2 DEF Continue, Dispatched, AgentsStopped, TornDown, Retried, Paused, ResumeMissing,
     ResumeRefused, ResumeNoop, ResumeSteers, ResumePipeline, ResumeImplementor, Resumed
<1>3. ASSUME NEW t \in Task, Command(t) \/ FireWake(t) \/ RequeueAfterBoot(t) PROVE scan = 0
  BY <1>3 DEF Command, Dispatch, StartImmediately, Ask, Cancel, Idle, FireWake, RequeueAfterBoot
<1>4. ASSUME \/ \E r \in Repo : CoworkBegin(r) \/ CoworkEnd(r)
             \/ DrainBegins \/ DrainReleased \/ Restart
      PROVE  scan = 0
  BY <1>4 DEF CoworkBegin, CoworkEnd, DrainBegins, DrainReleased, Restart
<1>5. QED
  BY <1>1, <1>2, <1>3, <1>4 DEF Next

(* The line is served in order: a pass starts a task only past tasks that  *)
(* their own repository's cap or Co-work turn holds up.                    *)
THEOREM LineInTurn == Spec => ServedInTurn
<1> DEFINE Rule == \A i, j \in 1..Len(queue) :
      i < j /\ scan > 0 /\ slot[queue[j]] = 0 /\ slot'[queue[j]] # 0 /\ state[queue[i]] = "queued"
        => repoAtCapacity(queue[i])
<1>1. TypeOK /\ LineHeldUp /\ [Next]_vars => [Rule]_vars
  <2>1. SUFFICES ASSUME TypeOK, LineHeldUp, Next, NEW i \in 1..Len(queue), NEW j \in 1..Len(queue),
                        i < j, scan > 0, slot[queue[j]] = 0, slot'[queue[j]] # 0,
                        state[queue[i]] = "queued"
                 PROVE  repoAtCapacity(queue[i])
    OBVIOUS
  <2>2. queue[i] \in Task /\ queue[j] \in Task /\ scan \in Nat /\ Len(queue) \in Nat
    BY <2>1, ElementOfSeq, LenProperties DEF TypeOK
  <2>3. PumpStep
    BY <2>1, <2>2, PassUndisturbed
  <2>4. scan <= Len(queue) /\ Start(queue[scan], "queued", "prep")
    BY <2>1, <2>3 DEF PumpStep
  <2>5. queue[scan] \in Task
    BY <2>1, <2>2, <2>4, ElementOfSeq DEF TypeOK
  <2>6. queue[j] = queue[scan]
    BY <2>1, <2>2, <2>4, <2>5, StartSlots
  <2>7. j = scan
    BY <2>1, <2>2, <2>4, <2>6 DEF TypeOK, QueuedOnce
  <2>8. QED
    BY <2>1, <2>2, <2>7 DEF LineHeldUp, HeldUp
<1>2. QED
  BY <1>1, LineInductive, TypeCorrect, PTL DEF Spec, ServedInTurn
=============================================================================
