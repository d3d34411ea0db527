-------------------------- MODULE InjectionReceipts --------------------------
(***************************************************************************)
(* server/src/orchestrator/injectionReceipts.ts with agents/inputLedger.ts *)
(* and the callers threadManager.ts has: the read receipts of injected     *)
(* owner messages.  An injection opens one receipt for each agent role it  *)
(* addresses.  Inputs handed to runs name the receipts they carry, and     *)
(* only a run's own proof that it consumed such an input, and then its     *)
(* answer with the input's token, moves a receipt up.                      *)
(*                                                                         *)
(* Instructions are model values: two injections with the same Words are   *)
(* the same text sent twice.  A token (IR-uuid) is the number of the input *)
(* it was made for.  One task; feed publication, timestamps, wording and   *)
(* the trim of `recent` to RECENT_INPUTS (8 > MaxInputs) are left out.     *)
(***************************************************************************)
EXTENDS Naturals, FiniteSets

CONSTANTS Receipt, Op, Run, Words,
          OpOf,         \* the injection a receipt was opened by
          RecipientOf,  \* the role it is addressed to
          Serves,       \* the role of each run
          WordsOf,      \* the text of each injection
          NoOp,         \* an input sent outside any injection
          MaxInputs     \* bound: inputs handed over in all

Role == {"implementor", "qa", "reviewer", "planner"}

ASSUME ConstantsOK ==
  /\ OpOf \in [Receipt -> Op] /\ RecipientOf \in [Receipt -> Role]
  /\ Serves \in [Run -> Role] /\ WordsOf \in [Op -> Words]
  /\ NoOp \notin Op /\ MaxInputs \in Nat

VARIABLES status,    \* injection_receipts.status, "none" before the row exists
          runs,      \* "new", "live", "stopping", "ended"
          sent,      \* number of inputs so far
          input,     \* SentInput records, by number
          consumed,  \* InputLedger.consumed of all runs
          watch,     \* InputLedger.waiters: <<receipt, input>>
          bound,     \* this.bound: <<receipt, run>>
          asked,     \* this.awaitingAck: <<receipt, token>>
          recent,    \* this.recent: inputs still remembered
          dead       \* injections whose async context a restart ended

vars == <<status, runs, sent, input, consumed, watch, bound, asked, recent, dead>>

Status == {"none", "pending", "sent", "delivered", "read", "failed"}
Open   == {"pending", "sent", "delivered"}
Number == 1..MaxInputs
Input  == [run : Run \cup {NoOp}, ids : SUBSET Receipt, ctx : Op \cup {NoOp},
           token : BOOLEAN, accepted : BOOLEAN]
NoInput == [run |-> NoOp, ids |-> {}, ctx |-> NoOp, token |-> FALSE, accepted |-> FALSE]

TypeOK ==
  /\ status \in [Receipt -> Status]
  /\ runs \in [Run -> {"new", "live", "stopping", "ended"}]
  /\ sent \in 0..MaxInputs /\ input \in [Number -> Input]
  /\ \A i \in Number : i <= sent => input[i].run \in Run
  /\ consumed \subseteq 1..sent /\ recent \subseteq 1..sent
  /\ watch \subseteq Receipt \X (1..sent) /\ asked \subseteq Receipt \X consumed
  /\ bound \subseteq Receipt \X Run /\ dead \subseteq Op

Init ==
  /\ status = [r \in Receipt |-> "none"] /\ runs = [g \in Run |-> "new"]
  /\ sent = 0 /\ input = [i \in Number |-> NoInput] /\ consumed = {}
  /\ watch = {} /\ bound = {} /\ asked = {} /\ recent = {} /\ dead = {}

Running(g) == runs[g] \in {"live", "stopping"}

(* update(): rows in one of `from` take the status. *)
Raise(R, from, to) ==
  [r \in Receipt |-> IF r \in R /\ status[r] \in from THEN to ELSE status[r]]

(* What the receipts of R still hold is let go. *)
Unwatched(R) == {p \in watch : p[1] \notin R}
Unbound(R)   == {p \in bound : p[1] \notin R}

-----------------------------------------------------------------------------
(* The runner is constructed, wired and started. *)
Start(g) ==
  /\ runs[g] = "new"
  /\ runs' = [runs EXCEPT ![g] = "live"]
  /\ UNCHANGED <<status, sent, input, consumed, watch, bound, asked, recent, dead>>

(* A stop was asked for: the run drops sends until its child has exited. *)
Stop(g) ==
  /\ runs[g] = "live"
  /\ runs' = [runs EXCEPT ![g] = "stopping"]
  /\ UNCHANGED <<status, sent, input, consumed, watch, bound, asked, recent, dead>>

(* The open receipts of a run's lane that an input with these words carries. *)
Carries(g, words) == {r \in Receipt :
  status[r] \in Open /\ RecipientOf[r] = Serves[g] /\ WordsOf[OpOf[r]] \in words}

\* mutant: a run that already holds a receipt gets no second watch
Fresh_FirstOnly(g, R) == {r \in R : <<r, g>> \notin bound}

(* bind() watches every input that carries the receipt, also on a run that
   holds it already. *)
Fresh(g, R) == R

(* prepare, send and observe run without an await.  `plain` is a vanilla
   kickoff's text, which is not given a token; `accepted` is whether the run
   took the send.  A finished run has fired its end callbacks: a token
   prepared for it is forgotten at once and a receipt bound to it goes back. *)
Send(g, words, ctx, plain, accepted) ==
  LET open  == Carries(g, words)
      token == ~plain /\ (ctx # NoOp \/ open # {})
      ids   == IF Running(g) THEN open ELSE {}
  IN /\ runs[g] # "new" /\ sent < MaxInputs
     /\ ctx # NoOp => ctx \notin dead /\ WordsOf[ctx] \in words
     /\ ctx # NoOp \/ open # {}
     /\ runs[g] = "live" => accepted
     /\ runs[g] = "ended" => ~accepted
     /\ sent' = sent + 1
     /\ input' = [input EXCEPT ![sent + 1] =
          [run |-> g, ids |-> ids, ctx |-> ctx, token |-> token, accepted |-> accepted]]
     /\ recent' = recent \cup {sent + 1}
     /\ status' = Raise(ids, {"pending", "sent"}, "sent")
     /\ bound' = bound \cup (ids \X {g})
     /\ watch' = IF accepted THEN watch \cup (Fresh(g, ids) \X {sent + 1}) ELSE watch
     /\ UNCHANGED <<runs, consumed, asked, dead>>

consume(i, ledger) ==
  LET D == {r \in Receipt : <<r, i>> \in watch /\ status[r] \in Open}
  IN /\ input[i].accepted /\ i \notin consumed /\ Running(input[i].run)
     /\ consumed' = ledger
     /\ watch' = {p \in watch : p[2] # i}
     /\ status' = Raise(D, Open, "delivered")
     /\ asked' = IF input[i].token THEN asked \cup (D \X {i}) ELSE asked
     /\ UNCHANGED <<runs, sent, input, bound, recent, dead>>

\* mutant: the ledger fires its callbacks but does not keep the id
Consume_NotRecorded(i) == consume(i, consumed)

(* The provider proves that input i reached the model: each watch on it
   fires once, deliver() asks for the token's ACK. *)
Consume(i) == consume(i, consumed \cup {i})

ack(g, R) ==
  /\ Running(g) /\ R # {}
  /\ status' = Raise(R, {"delivered"}, "read")
  /\ asked' = {p \in asked : p[1] \notin R \/ input[p[2]].run # g}
  /\ bound' = Unbound(R) /\ watch' = Unwatched(R)
  /\ UNCHANGED <<runs, sent, input, consumed, recent, dead>>

\* mutant: any acknowledgement answers everything the run was asked
Ack_AnyToken(g, i) == ack(g, {r \in Receipt : \E j \in 1..sent :
  <<r, j>> \in asked /\ input[j].run = g})

(* The run's output acknowledges token i, possibly one it knows from the
   session of an earlier run. *)
Ack(g, i) == ack(g, {r \in Receipt : <<r, i>> \in asked /\ input[i].run = g})

runEnds(g, lost) ==
  /\ Running(g)
  /\ runs' = [runs EXCEPT ![g] = "ended"]
  /\ bound' = {p \in bound : p[2] # g}
  /\ watch' = {p \in watch : input[p[2]].run # g}
  /\ asked' = {p \in asked : input[p[2]].run # g}
  /\ recent' = {i \in recent : input[i].run # g}
  /\ status' = Raise(lost, {"sent"}, "pending")
  /\ UNCHANGED <<sent, input, consumed, dead>>

\* mutant: what the ended run had not taken stays "sent"
RunEnds_LeavesSent(g) == runEnds(g, {})

(* onEnd callbacks: a receipt no other run holds goes out again. *)
RunEnds(g) == runEnds(g, {r \in Receipt : <<r, g>> \in bound
                            /\ \A h \in Run : <<r, h>> \in bound => h = g})

-----------------------------------------------------------------------------
\* mutant: an equal text sent by another injection counts as this one's
Mine_AnyInjection(r) == {i \in recent : Serves[input[i].run] = RecipientOf[r]}

(* Remembered inputs of the lane sent by this very injection. *)
Mine(r) == {i \in recent : Serves[input[i].run] = RecipientOf[r] /\ input[i].ctx = OpOf[r]}

(* expect(): rows for the message that echoes injection o.  A route that sent
   before it echoed binds the row to its newest remembered input; one already
   consumed delivers at once.  refuse() then fails what it may. *)
Expect(o, R, refused) ==
  LET newest == {p \in R \X recent : p[2] \in Mine(p[1]) /\ \A j \in Mine(p[1]) : j <= p[2]}
      held   == {p \in newest : Running(input[p[2]].run)}
      took   == {p \in held : p[2] \in consumed}
  IN /\ o \notin dead /\ R # {}
     /\ \A r \in R : OpOf[r] = o /\ status[r] = "none"
     /\ status' = [r \in Receipt |->
          IF r \notin R THEN status[r]
          ELSE IF \E p \in took : p[1] = r THEN "delivered"
          ELSE IF refused THEN "failed"
          ELSE IF \E p \in held : p[1] = r THEN "sent" ELSE "pending"]
     /\ asked' = asked \cup {p \in took : input[p[2]].token}
     /\ IF refused THEN UNCHANGED <<bound, watch>>
        ELSE /\ bound' = bound \cup {<<p[1], input[p[2]].run>> : p \in held}
             /\ watch' = watch \cup {p \in held \ took : input[p[2]].accepted}
     /\ UNCHANGED <<runs, sent, input, consumed, recent, dead>>

settle(settled, R) ==
  LET F == {r \in Receipt : /\ status[r] \in {"pending", "sent"}
                            /\ settled \/ RecipientOf[r] = "planner"}
  IN /\ F # {}
     /\ status' = Raise(F, {"pending", "sent"}, "failed")
     /\ bound' = Unbound(F \cap R) /\ watch' = Unwatched(F \cap R)
     /\ UNCHANGED <<runs, sent, input, consumed, asked, recent, dead>>

\* mutant: fail() leaves the watches of the run that holds the receipt
SettleLane_KeepsWatches(settled) == settle(settled, {})

(* settleLane, from every published state that ends planning or the task. *)
SettleLane(settled) == settle(settled, Receipt)

(* The process dies with its runs; recoverAfterRestart puts back what was
   handed over and not taken.  Injections under way never echo. *)
Restart ==
  /\ runs' = [g \in Run |-> IF Running(g) THEN "ended" ELSE runs[g]]
  /\ watch' = {} /\ bound' = {} /\ asked' = {} /\ recent' = {}
  /\ dead' = dead \cup {OpOf[r] : r \in {q \in Receipt : status[q] # "none"}}
                  \cup ({input[i].ctx : i \in 1..sent} \ {NoOp})
  /\ status' = Raise(Receipt, {"sent"}, "pending")
  /\ UNCHANGED <<sent, input, consumed>>

Next ==
  \/ \E g \in Run : Start(g) \/ Stop(g) \/ RunEnds(g)
  \/ \E g \in Run, words \in SUBSET Words, ctx \in Op \cup {NoOp}, plain, accepted \in BOOLEAN :
       Send(g, words, ctx, plain, accepted)
  \/ \E i \in 1..sent : Consume(i)
  \/ \E g \in Run, i \in 1..sent : Ack(g, i)
  \/ \E o \in Op, R \in SUBSET Receipt, refused \in BOOLEAN : Expect(o, R, refused)
  \/ \E settled \in BOOLEAN : SettleLane(settled)
  \/ Restart

Spec == Init /\ [][Next]_vars
-----------------------------------------------------------------------------
(* The input carried the receipt's instruction: it was open when the input
   was made, or the input belongs to the receipt's own injection. *)
Carried(r, i) ==
  /\ Serves[input[i].run] = RecipientOf[r]
  /\ r \in input[i].ids \/ input[i].ctx = OpOf[r]

(* "sent" is only shown while some run still holds the message and its end
   would put it back: a message is never stuck with a run that is gone, over
   resends, several holders, stops and restarts. *)
SentIsHeld == \A r \in Receipt : status[r] = "sent" =>
  \E g \in Run : <<r, g>> \in bound /\ Running(g)

(* A provider's proof is never lost: once a run consumed an input made for an
   open receipt, the owner no longer reads that it is waiting, whichever of
   several sends was taken first. *)
ProofNotLost == \A r \in Receipt : \A i \in consumed :
  r \in input[i].ids => status[r] \notin {"pending", "sent"}

(* A failed or read receipt listens to nobody, so no late proof of an input
   still under way can touch it, and no run's memory keeps it. *)
ClosedLetsGo == \A r \in Receipt : status[r] \in {"none", "failed", "read"} =>
  (\A g \in Run : <<r, g>> \notin bound) /\ (\A i \in Number : <<r, i>> \notin watch)

(* "an old input ACK cannot read the new message", "a replacement run cannot
   borrow the old run's ACK": a receipt becomes read only by an answer, and
   the token answered is that of an input of the answering run that carried
   the receipt and that the run has provably consumed. *)
ReadIsAnswered == [][\A r \in Receipt : status[r] # "read" /\ status'[r] = "read" =>
  /\ \E g \in Run, i \in Number : Ack(g, i)
  /\ \A g \in Run, i \in Number : Ack(g, i) =>
       i \in consumed /\ input[i].run = g /\ input[i].token /\ Carried(r, i)]_vars

Life == INSTANCE ReceiptLife
          WITH taken <- {r \in Receipt : \E i \in consumed : Carried(r, i)}

(* The tracker implements the life of a receipt: one earned step at a time,
   delivery only of what a model has taken, and only an untaken hand-over
   falls back. *)
ReceiptsKeepPromise == Life!Spec
=============================================================================
