----------------------- MODULE InjectionReceiptsProofs -----------------------
(* Proofs about InjectionReceipts, for any receipts, injections and runs.  *)
EXTENDS InjectionReceipts, TLAPS

(* A run holds only receipts of its lane that it may still take. *)
BoundOK == \A r \in Receipt, g \in Run : <<r, g>> \in bound =>
  Running(g) /\ Serves[g] = RecipientOf[r] /\ status[r] \in {"sent", "delivered"}

SentBound == \A r \in Receipt : status[r] = "sent" => \E g \in Run : <<r, g>> \in bound

(* A watch waits for an input of a run that holds the receipt. *)
WatchOK == \A r \in Receipt, i \in Number : <<r, i>> \in watch =>
  i \notin consumed /\ input[i].accepted /\ <<r, input[i].run>> \in bound /\ Carried(r, i)

(* Only a proven delivery waits for an ACK. *)
AskedOK == \A r \in Receipt, i \in Number : <<r, i>> \in asked =>
  i \in consumed /\ input[i].token /\ Carried(r, i) /\ status[r] \in {"delivered", "read"}

IdsOK == \A r \in Receipt, i \in Number : i <= sent /\ r \in input[i].ids =>
  status[r] # "none" /\ Serves[input[i].run] = RecipientOf[r]

SentStarted == \A i \in Number : i <= sent => runs[input[i].run] # "new"

(* An input under way is watched for every receipt it could still prove. *)
StillWatched == \A r \in Receipt, i \in Number :
  /\ i <= sent /\ r \in input[i].ids /\ i \notin consumed /\ input[i].accepted
  /\ Running(input[i].run) /\ status[r] \in {"pending", "sent"}
  => <<r, i>> \in watch

HoldInv ==
  /\ TypeOK /\ BoundOK /\ SentBound /\ WatchOK /\ AskedOK
  /\ IdsOK /\ SentStarted /\ StillWatched /\ ProofNotLost

(* A run that starts was handed nothing yet. *)
LEMMA StartKeeps ==
  ASSUME HoldInv, NEW g \in Run, Start(g)
  PROVE  HoldInv'
<1> USE ConstantsOK DEF HoldInv, Start
<1>1. TypeOK'
  BY DEF TypeOK
<1>2. BoundOK'
  BY DEF BoundOK, Running
<1>3. SentBound'
  BY DEF SentBound
<1>4. WatchOK'
  BY DEF WatchOK, Carried
<1>5. AskedOK'
  BY DEF AskedOK, Carried
<1>6. IdsOK'
  BY DEF IdsOK
<1>7. SentStarted'
  BY DEF SentStarted
<1>8. StillWatched'
  BY DEF StillWatched, SentStarted, TypeOK, Number, Running
<1>9. ProofNotLost'
  BY DEF ProofNotLost
<1> QED
  BY <1>1, <1>2, <1>3, <1>4, <1>5, <1>6, <1>7, <1>8, <1>9

(* A stopping run still runs. *)
LEMMA StopKeeps ==
  ASSUME HoldInv, NEW g \in Run, Stop(g)
  PROVE  HoldInv'
<1> USE ConstantsOK DEF HoldInv, Stop
<1>1. TypeOK'
  BY DEF TypeOK
<1>2. BoundOK'
  BY DEF BoundOK, Running
<1>3. SentBound'
  BY DEF SentBound
<1>4. WatchOK'
  BY DEF WatchOK, Carried
<1>5. AskedOK'
  BY DEF AskedOK, Carried
<1>6. IdsOK'
  BY DEF IdsOK
<1>7. SentStarted'
  BY DEF SentStarted
<1>8. StillWatched'
  BY DEF StillWatched, Running
<1>9. ProofNotLost'
  BY DEF ProofNotLost
<1> QED
  BY <1>1, <1>2, <1>3, <1>4, <1>5, <1>6, <1>7, <1>8, <1>9

(* A receipt is put back only when no other run holds it. *)
LEMMA RunEndsKeeps ==
  ASSUME HoldInv, NEW g \in Run, RunEnds(g)
  PROVE  HoldInv'
<1> USE ConstantsOK DEF HoldInv, RunEnds, runEnds
<1>1. TypeOK'
  BY DEF TypeOK, Raise, Number, Status, Open
<1>2. BoundOK'
  BY DEF BoundOK, Running, Raise
<1>3. SentBound'
  BY DEF SentBound, Raise
<1>4. WatchOK'
  BY DEF WatchOK, Carried, Raise
<1>5. AskedOK'
  BY DEF AskedOK, Carried, Raise
<1>6. IdsOK'
  BY DEF IdsOK, Raise
<1>7. SentStarted'
  BY DEF SentStarted, Raise
<1>8. StillWatched'
  BY DEF StillWatched, Running, TypeOK, Raise
<1>9. ProofNotLost'
  BY DEF ProofNotLost, Raise
<1> QED
  BY <1>1, <1>2, <1>3, <1>4, <1>5, <1>6, <1>7, <1>8, <1>9

(* A restart leaves nothing held. *)
LEMMA RestartKeeps ==
  ASSUME HoldInv, Restart
  PROVE  HoldInv'
<1> USE ConstantsOK DEF HoldInv, Restart
<1>1. TypeOK'
  BY DEF TypeOK, Number, Input, NoInput, Running, Raise, Status, Open
<1>2. BoundOK'
  BY DEF BoundOK, Running, Raise
<1>3. SentBound'
  BY DEF SentBound, Raise
<1>4. WatchOK'
  BY DEF WatchOK, Carried, Raise
<1>5. AskedOK'
  BY DEF AskedOK, Carried, Raise
<1>6. IdsOK'
  BY DEF IdsOK, Raise
<1>7. SentStarted'
  BY DEF SentStarted, TypeOK, Raise
<1>8. StillWatched'
  BY DEF StillWatched, Running, TypeOK, Raise
<1>9. ProofNotLost'
  BY DEF ProofNotLost, Raise
<1> QED
  BY <1>1, <1>2, <1>3, <1>4, <1>5, <1>6, <1>7, <1>8, <1>9

(* Handing over an input watches it for all it carries. *)
LEMMA SendKeeps ==
  ASSUME HoldInv, NEW g \in Run, NEW words \in SUBSET Words, NEW ctx \in Op \cup {NoOp},
         NEW plain \in BOOLEAN, NEW accepted \in BOOLEAN, Send(g, words, ctx, plain, accepted)
  PROVE  HoldInv'
<1> USE ConstantsOK DEF HoldInv, Send, Carries, Fresh
<1>1. TypeOK'
  <2> DEFINE new == [run |-> g, ids |-> IF Running(g) THEN Carries(g, words) ELSE {}, ctx |-> ctx,
                    token |-> ~plain /\ (ctx # NoOp \/ Carries(g, words) # {}), accepted |-> accepted]
  <2>1. new.ids \in SUBSET Receipt /\ new \in Input
    BY DEF Input
  <2>2. input' = [input EXCEPT ![sent + 1] = new] /\ sent' = sent + 1 /\ sent + 1 \in Number
    BY DEF TypeOK, Number
  <2>3. input' \in [Number -> Input] /\ (\A i \in Number : i <= sent' => input'[i].run \in Run)
    BY <2>1, <2>2 DEF TypeOK, Number
  <2>4. status' \in [Receipt -> Status]
    BY DEF TypeOK, Raise, Status
  <2>5. /\ watch' \subseteq Receipt \X (1..sent') /\ bound' \subseteq Receipt \X Run
        /\ recent' \subseteq 1..sent'
    BY <2>1 DEF TypeOK
  <2>6. consumed' \subseteq 1..sent' /\ asked' \subseteq Receipt \X consumed'
    BY DEF TypeOK
  <2>7. runs' \in [Run -> {"new", "live", "stopping", "ended"}] /\ dead' \subseteq Op /\ sent' \in 0..MaxInputs
    BY DEF TypeOK
  <2> HIDE DEF Send, HoldInv
  <2> QED
    BY <2>3, <2>4, <2>5, <2>6, <2>7 DEF TypeOK
<1>2. BoundOK'
  BY DEF BoundOK, Running, TypeOK, Raise, Number, Status, Open
<1>3. SentBound'
  BY DEF SentBound, Raise
<1>4. WatchOK'
  BY DEF WatchOK, Carried, TypeOK, Raise
<1>5. AskedOK'
  BY DEF AskedOK, Carried, TypeOK, Raise
<1>6. IdsOK'
  BY DEF IdsOK, TypeOK, Raise, Number, Status, Open
<1>7. SentStarted'
  BY DEF SentStarted, TypeOK, Raise, Number
<1>8. StillWatched'
  BY DEF StillWatched, Running, TypeOK, Raise, Number
<1>9. ProofNotLost'
  BY DEF ProofNotLost, TypeOK, Raise
<1> QED
  BY <1>1, <1>2, <1>3, <1>4, <1>5, <1>6, <1>7, <1>8, <1>9

(* A proof delivers every receipt still watching the input. *)
LEMMA ConsumeKeeps ==
  ASSUME HoldInv, NEW i \in 1..sent, Consume(i)
  PROVE  HoldInv'
<1> USE ConstantsOK DEF HoldInv, Consume, consume
<1>1. TypeOK'
  BY DEF TypeOK, Raise, Number, Status, Open
<1>2. BoundOK'
  BY DEF BoundOK, Running, Raise
<1>3. SentBound'
  BY DEF SentBound, Raise
<1>4. WatchOK'
  BY DEF WatchOK, Carried, Raise
<1>5. AskedOK'
  BY DEF AskedOK, WatchOK, TypeOK, Number, Raise, Status, Open, Carried
<1>6. IdsOK'
  BY DEF IdsOK, Raise
<1>7. SentStarted'
  BY DEF SentStarted, Raise
<1>8. StillWatched'
  BY DEF StillWatched, Running, Raise
<1>9. ProofNotLost'
  BY DEF ProofNotLost, StillWatched, IdsOK, TypeOK, Number, Raise, Status, Open
<1> QED
  BY <1>1, <1>2, <1>3, <1>4, <1>5, <1>6, <1>7, <1>8, <1>9

(* Only delivered receipts are answered, and then let go. *)
LEMMA AckKeeps ==
  ASSUME HoldInv, NEW g \in Run, NEW i \in 1..sent, Ack(g, i)
  PROVE  HoldInv'
<1> USE ConstantsOK DEF HoldInv, Ack, ack, Unbound, Unwatched
<1>1. TypeOK'
  BY DEF TypeOK, Raise, Number, Status, Open
<1>2. BoundOK'
  BY DEF BoundOK, Running, Raise
<1>3. SentBound'
  <2> SUFFICES ASSUME NEW r \in Receipt, status'[r] = "sent"
               PROVE  \E h \in Run : <<r, h>> \in bound'
    BY DEF SentBound
  <2>1. status[r] = "sent"
    BY DEF TypeOK, Raise, Status
  <2>2. i \in Number
    BY DEF TypeOK, Number
  <2>3. <<r, i>> \notin asked
    BY <2>1, <2>2 DEF AskedOK
  <2> QED
    BY <2>1, <2>3 DEF SentBound
<1>4. WatchOK'
  BY DEF WatchOK, Carried, Raise
<1>5. AskedOK'
  BY DEF AskedOK, Carried, Raise
<1>6. IdsOK'
  BY DEF IdsOK, Raise
<1>7. SentStarted'
  BY DEF SentStarted, Raise
<1>8. StillWatched'
  BY DEF StillWatched, AskedOK, TypeOK, Number, Running, Raise, Status
<1>9. ProofNotLost'
  BY DEF ProofNotLost, Raise
<1> QED
  BY <1>1, <1>2, <1>3, <1>4, <1>5, <1>6, <1>7, <1>8, <1>9

(* A new row is bound to an input of its own injection. *)
LEMMA ExpectKeeps ==
  ASSUME HoldInv, NEW o \in Op, NEW R \in SUBSET Receipt, NEW refused \in BOOLEAN, Expect(o, R, refused)
  PROVE  HoldInv'
<1> USE ConstantsOK DEF HoldInv, Expect, Mine
<1>1. TypeOK'
  <2>1. status' \in [Receipt -> Status]
    BY DEF TypeOK, Status
  <2>2. \A i \in recent : i \in 1..sent /\ input[i].run \in Run
    BY DEF TypeOK, Number
  <2>3. watch' \subseteq watch \cup (R \X recent) /\ bound' \subseteq bound \cup (R \X Run)
    BY <2>2
  <2>4. watch' \subseteq Receipt \X (1..sent) /\ bound' \subseteq Receipt \X Run
    BY <2>2, <2>3 DEF TypeOK
  <2>5. asked' \subseteq Receipt \X consumed
    BY <2>2 DEF TypeOK
  <2> QED
    BY <2>1, <2>4, <2>5 DEF TypeOK
<1>2. BoundOK'
  BY DEF BoundOK, Running
<1>3. SentBound'
  <2> SUFFICES ASSUME NEW r \in Receipt, status'[r] = "sent"
               PROVE  \E h \in Run : <<r, h>> \in bound'
    BY DEF SentBound
  <2>1. CASE r \notin R
    BY <2>1 DEF SentBound, TypeOK, Status
  <2>2. CASE r \in R
    <3>1. /\ ~refused
          /\ \E p \in R \X recent : p[1] = r /\ <<r, input[p[2]].run>> \in bound'
      BY <2>2 DEF TypeOK, Status
    <3>2. \A i \in recent : input[i].run \in Run
      BY DEF TypeOK, Number
    <3> QED
      BY <3>1, <3>2
  <2> QED
    BY <2>1, <2>2
<1>4. WatchOK'
  BY DEF WatchOK, Carried
<1>5. AskedOK'
  BY DEF AskedOK, Carried
<1>6. IdsOK'
  BY DEF IdsOK
<1>7. SentStarted'
  BY DEF SentStarted
<1>8. StillWatched'
  BY DEF StillWatched, IdsOK, TypeOK, Number, Running
<1>9. ProofNotLost'
  BY DEF ProofNotLost, IdsOK, TypeOK, Number
<1> QED
  BY <1>1, <1>2, <1>3, <1>4, <1>5, <1>6, <1>7, <1>8, <1>9

(* A failed receipt is let go. *)
LEMMA SettleKeeps ==
  ASSUME HoldInv, NEW settled \in BOOLEAN, SettleLane(settled)
  PROVE  HoldInv'
<1> USE ConstantsOK DEF HoldInv, SettleLane, settle, Unbound, Unwatched
<1>1. TypeOK'
  BY DEF TypeOK, Raise, Number, Status, Open
<1>2. BoundOK'
  BY DEF BoundOK, Running, Raise
<1>3. SentBound'
  BY DEF SentBound, Raise
<1>4. WatchOK'
  BY DEF WatchOK, Carried, Raise
<1>5. AskedOK'
  BY DEF AskedOK, Carried, Raise
<1>6. IdsOK'
  BY DEF IdsOK, Raise
<1>7. SentStarted'
  BY DEF SentStarted, Raise
<1>8. StillWatched'
  BY DEF StillWatched, Running, Raise
<1>9. ProofNotLost'
  BY DEF ProofNotLost, Raise
<1> QED
  BY <1>1, <1>2, <1>3, <1>4, <1>5, <1>6, <1>7, <1>8, <1>9

(* Nothing is held before the first injection. *)
LEMMA InitHolds == Init => HoldInv
  BY ConstantsOK DEF Init, HoldInv, TypeOK, BoundOK, SentBound, WatchOK, AskedOK, IdsOK,
     SentStarted, StillWatched, ProofNotLost, Number, Input, NoInput, Status

(* The invariant is inductive: one case per action of the tracker. *)
LEMMA HoldInvStep == HoldInv /\ [Next]_vars => HoldInv'
<1> SUFFICES ASSUME HoldInv, [Next]_vars PROVE HoldInv'
  OBVIOUS
<1>1. CASE \E g \in Run : Start(g) \/ Stop(g) \/ RunEnds(g)
  BY <1>1, StartKeeps, StopKeeps, RunEndsKeeps
<1>2. CASE \E g \in Run, words \in SUBSET Words, ctx \in Op \cup {NoOp}, plain, accepted \in BOOLEAN :
             Send(g, words, ctx, plain, accepted)
  BY <1>2, SendKeeps
<1>3. CASE \E i \in 1..sent : Consume(i)
  BY <1>3, ConsumeKeeps
<1>4. CASE \E g \in Run, i \in 1..sent : Ack(g, i)
  BY <1>4, AckKeeps
<1>5. CASE \E o \in Op, R \in SUBSET Receipt, refused \in BOOLEAN : Expect(o, R, refused)
  BY <1>5, ExpectKeeps
<1>6. CASE \E settled \in BOOLEAN : SettleLane(settled)
  BY <1>6, SettleKeeps
<1>7. CASE Restart
  BY <1>7, RestartKeeps
<1>8. CASE UNCHANGED vars
  <2> USE <1>8 DEF vars
  <2>1. TypeOK'
    BY DEF HoldInv, TypeOK
  <2>2. BoundOK' /\ SentBound' /\ SentStarted'
    BY DEF HoldInv, BoundOK, SentBound, SentStarted, Running
  <2>3. WatchOK' /\ AskedOK'
    BY DEF HoldInv, WatchOK, AskedOK, Carried
  <2>4. IdsOK' /\ StillWatched' /\ ProofNotLost'
    BY DEF HoldInv, IdsOK, StillWatched, ProofNotLost, Running
  <2> QED
    BY <2>1, <2>2, <2>3, <2>4 DEF HoldInv
<1> QED
  BY <1>1, <1>2, <1>3, <1>4, <1>5, <1>6, <1>7, <1>8 DEF Next

(* It holds in every reachable state. *)
LEMMA HoldInvAlways == Spec => []HoldInv
  BY InitHolds, HoldInvStep, PTL DEF Spec

(* Types of the tracker's state, for any receipts, injections and runs. *)
THEOREM TypeCorrect == Spec => []TypeOK
<1>1. HoldInv => TypeOK
  BY DEF HoldInv
<1> QED
  BY <1>1, HoldInvAlways, PTL

(* A receipt shown as sent is held by a live run, whose end puts it back. *)
THEOREM SentHeld == Spec => []SentIsHeld
<1>1. HoldInv => SentIsHeld
  BY DEF HoldInv, SentIsHeld, SentBound, BoundOK
<1> QED
  BY <1>1, HoldInvAlways, PTL

(* No provider's proof of consumption is lost, in whatever order several
   inputs carrying one receipt are taken. *)
THEOREM ProofKept == Spec => []ProofNotLost
<1>1. HoldInv => ProofNotLost
  BY DEF HoldInv
<1> QED
  BY <1>1, HoldInvAlways, PTL

(* A closed receipt has no holder and no watch left. *)
THEOREM LetsGo == Spec => []ClosedLetsGo
<1>1. HoldInv => ClosedLetsGo
  <2>1. HoldInv /\ (\A r \in Receipt, i \in Number : <<r, i>> \in watch => input[i].run \in Run)
        => ClosedLetsGo
    BY DEF HoldInv, ClosedLetsGo, BoundOK, WatchOK
  <2>2. HoldInv => \A r \in Receipt, i \in Number : <<r, i>> \in watch => input[i].run \in Run
    BY DEF HoldInv, TypeOK, Number
  <2> QED
    BY <2>1, <2>2
<1> QED
  BY <1>1, HoldInvAlways, PTL

(* Only the ACK of a consumed input that carried the receipt reads it. *)
THEOREM Answered == Spec => ReadIsAnswered
<1> DEFINE Earned(r) ==
      /\ \E g \in Run, i \in Number : Ack(g, i)
      /\ \A g \in Run, i \in Number : Ack(g, i) =>
           i \in consumed /\ input[i].run = g /\ input[i].token /\ Carried(r, i)
<1>1. ASSUME HoldInv, Next, NEW r \in Receipt, status[r] # "read", status'[r] = "read"
      PROVE  \E g \in Run, i \in Number : Ack(g, i)
  <2>1. CASE \E g \in Run : Start(g) \/ Stop(g) \/ RunEnds(g)
    BY <1>1, <2>1 DEF Start, Stop, RunEnds, runEnds, Raise, HoldInv, TypeOK
  <2>2. CASE \E g \in Run, words \in SUBSET Words, ctx \in Op \cup {NoOp}, plain, accepted \in BOOLEAN :
               Send(g, words, ctx, plain, accepted)
    BY <1>1, <2>2 DEF Send, Raise, HoldInv, TypeOK
  <2>3. CASE \E i \in 1..sent : Consume(i)
    BY <1>1, <2>3 DEF Consume, consume, Raise, HoldInv, TypeOK
  <2>4. CASE \E g \in Run, i \in 1..sent : Ack(g, i)
    BY <1>1, <2>4, ConstantsOK DEF HoldInv, TypeOK, Number
  <2>5. CASE \E o \in Op, R \in SUBSET Receipt, refused \in BOOLEAN : Expect(o, R, refused)
    BY <1>1, <2>5 DEF Expect
  <2>6. CASE \E settled \in BOOLEAN : SettleLane(settled)
    BY <1>1, <2>6 DEF SettleLane, settle, Raise, HoldInv, TypeOK
  <2>7. CASE Restart
    BY <1>1, <2>7 DEF Restart, Raise, HoldInv, TypeOK
  <2> QED
    BY <1>1, <2>1, <2>2, <2>3, <2>4, <2>5, <2>6, <2>7 DEF Next
<1>2. ASSUME HoldInv, NEW r \in Receipt, status[r] # "read", status'[r] = "read",
             NEW g \in Run, NEW i \in Number, Ack(g, i)
      PROVE  i \in consumed /\ input[i].run = g /\ input[i].token /\ Carried(r, i)
  <2>1. <<r, i>> \in asked /\ input[i].run = g
    BY <1>2 DEF Ack, ack, Raise, HoldInv, TypeOK
  <2> QED
    BY <1>2, <2>1 DEF HoldInv, AskedOK
<1>3. HoldInv /\ [Next]_vars =>
        [\A r \in Receipt : status[r] # "read" /\ status'[r] = "read" => Earned(r)]_vars
  BY <1>1, <1>2
<1> QED
  BY <1>3, HoldInvAlways, PTL DEF Spec, ReadIsAnswered

-----------------------------------------------------------------------------
taken == {r \in Receipt : \E i \in consumed : Carried(r, i)}

(* Inputs made so far never change, so what was taken stays taken. *)
LEMMA TakenGrows ==
  ASSUME HoldInv, Next PROVE taken \subseteq taken'
<1>1. ASSUME NEW i \in consumed PROVE i \in consumed' /\ input'[i] = input[i]
  <2>1. i # sent + 1 /\ i \in Number /\ input \in [Number -> Input]
    BY <1>1, ConstantsOK DEF HoldInv, TypeOK, Number
  <2>2. CASE \E g \in Run : Start(g) \/ Stop(g) \/ RunEnds(g)
    BY <2>2, <1>1 DEF Start, Stop, RunEnds, runEnds
  <2>3. CASE \E g \in Run, words \in SUBSET Words, ctx \in Op \cup {NoOp}, plain, accepted \in BOOLEAN :
               Send(g, words, ctx, plain, accepted)
    BY <1>1, <2>1, <2>3 DEF Send
  <2>4. CASE \E j \in 1..sent : Consume(j)
    BY <1>1, <2>4 DEF Consume, consume
  <2>5. CASE \E g \in Run, j \in 1..sent : Ack(g, j)
    BY <1>1, <2>5 DEF Ack, ack
  <2>6. CASE \E o \in Op, R \in SUBSET Receipt, refused \in BOOLEAN : Expect(o, R, refused)
    BY <1>1, <2>6 DEF Expect
  <2>7. CASE (\E settled \in BOOLEAN : SettleLane(settled)) \/ Restart
    BY <1>1, <2>7 DEF SettleLane, settle, Restart
  <2> QED
    BY <2>2, <2>3, <2>4, <2>5, <2>6, <2>7 DEF Next
<1> QED
  BY <1>1 DEF taken, Carried

(* What one step may do to a receipt. *)
Climbs(r) ==
  /\ status'[r] = status[r] \/ <<status[r], status'[r]>> \in Life!Rises \cup {Life!Retreat}
  /\ status[r] # "delivered" /\ status'[r] = "delivered" => r \in taken'

(* No step of the tracker moves a receipt in any other way. *)
LEMMA EveryStepClimbs ==
  ASSUME HoldInv, Next, NEW r \in Receipt PROVE Climbs(r)
<1> USE DEF Life!Rises, Life!Retreat
<1>1. status \in [Receipt -> Status] /\ taken \subseteq taken'
  BY TakenGrows DEF HoldInv, TypeOK
<1>2. CASE \E g \in Run : Start(g) \/ Stop(g) \/ RunEnds(g)
  BY <1>1, <1>2 DEF Climbs, Start, Stop, RunEnds, runEnds, Raise
<1>3. CASE \E g \in Run, words \in SUBSET Words, ctx \in Op \cup {NoOp}, plain, accepted \in BOOLEAN :
             Send(g, words, ctx, plain, accepted)
  BY <1>1, <1>3 DEF Climbs, Send, Raise
<1>4. ASSUME NEW i \in 1..sent, Consume(i) PROVE Climbs(r)
  <2>1. CASE ~(<<r, i>> \in watch /\ status[r] \in Open)
    BY <1>1, <1>4, <2>1 DEF Climbs, Consume, consume, Raise
  <2>2. CASE <<r, i>> \in watch /\ status[r] \in Open
    <3>1. i \in consumed' /\ input' = input /\ status'[r] = "delivered"
      BY <1>1, <1>4, <2>2 DEF Consume, consume, Raise
    <3>2. i \in Number /\ input[i].run \in Run
      BY ConstantsOK DEF HoldInv, TypeOK, Number
    <3>3. Carried(r, i) /\ <<r, input[i].run>> \in bound
      BY <2>2, <3>2 DEF HoldInv, WatchOK
    <3>4. r \in taken'
      BY <3>1, <3>3 DEF taken, Carried
    <3>5. status[r] \in {"sent", "delivered"}
      BY <3>2, <3>3 DEF HoldInv, BoundOK
    <3> QED
      BY <3>1, <3>4, <3>5 DEF Climbs
  <2> QED
    BY <2>1, <2>2
<1>5. CASE \E g \in Run, i \in 1..sent : Ack(g, i)
  BY <1>1, <1>5 DEF Climbs, Ack, ack, Raise
<1>6. ASSUME NEW o \in Op, NEW R \in SUBSET Receipt, NEW refused \in BOOLEAN, Expect(o, R, refused)
      PROVE  Climbs(r)
  <2>1. CASE status'[r] = "delivered" /\ r \in R
    <3>1. \E i \in consumed : Carried(r, i)
      BY <1>1, <1>6, <2>1 DEF Expect, Mine, Carried
    <3>2. r \in taken'
      BY <1>1, <3>1 DEF taken
    <3>3. status[r] = "none"
      BY <1>6, <2>1 DEF Expect
    <3> QED
      BY <2>1, <3>2, <3>3 DEF Climbs
  <2>2. CASE ~(status'[r] = "delivered" /\ r \in R)
    BY <1>1, <1>6, <2>2 DEF Climbs, Expect
  <2> QED
    BY <2>1, <2>2
<1>7. CASE \E settled \in BOOLEAN : SettleLane(settled)
  BY <1>1, <1>7 DEF Climbs, SettleLane, settle, Raise
<1>8. CASE Restart
  BY <1>1, <1>8 DEF Climbs, Restart, Raise
<1> QED
  BY <1>2, <1>3, <1>4, <1>5, <1>6, <1>7, <1>8 DEF Next

(* The tracker implements the life of a receipt: one earned step at a time. *)
THEOREM PromiseKept == Spec => ReceiptsKeepPromise
<1>1. Init => Life!Init
  BY DEF Init, Life!Init
<1>2. ASSUME HoldInv, HoldInv', [Next]_vars PROVE [Life!Next]_<<status, taken>>
  <2>1. CASE Next
    <3>1. status' \in [Receipt -> Life!Status]
      BY <1>2 DEF HoldInv, TypeOK, Status, Life!Status
    <3> QED
      BY <1>2, <2>1, <3>1, TakenGrows, EveryStepClimbs DEF Life!Next, Climbs, taken
  <2>2. CASE UNCHANGED vars
    BY <2>2 DEF vars, taken, Carried
  <2> QED
    BY <1>2, <2>1, <2>2
<1> QED
  BY <1>1, <1>2, HoldInvAlways, PTL DEF Spec, ReceiptsKeepPromise, Life!Spec, taken
=============================================================================
