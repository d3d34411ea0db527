--------------------------- MODULE GitTransactions ---------------------------
(***************************************************************************)
(* server/scripts/git-transaction.cjs: the cross-process queue of Git      *)
(* writers of one object store.  A caller makes a lease file and locks it, *)
(* inserts a row for it in the admission database, and polls: the head of  *)
(* the rows takes the guard lock, the others probe whether the head's      *)
(* lease is still locked and reap it if not.  A step is one SQLite or file *)
(* call, so other processes run between any two.                           *)
(*                                                                         *)
(* A token (uuid) stands for its ticket, its lease file and its row.  The  *)
(* operating system drops a dead process's locks: Crash.  A database call  *)
(* may find another writer (SQLITE_BUSY), MaxBusy times in all; a file may *)
(* fail to be unlinked.  Time is the choice to expire a deadline.          *)
(***************************************************************************)
EXTENDS Naturals, FiniteSets

CONSTANTS Client,     \* callers of withCommonDirectory, in any process
          Old,        \* older programs that take only the guard
          Token,      \* bound: tickets in all
          Nobody,
          MaxBusy,    \* bound: calls that find the admission database busy
          Direct,     \* callers that do not wait for index.lock
          MaxForeign  \* bound: locks that programs outside the queue take

ASSUME ConstantsOK ==
  /\ Client \cap Old = {} /\ Token \cap Old = {}
  /\ Nobody \notin Client \cup Old \cup Token
  /\ Direct \subseteq Client /\ MaxBusy \in Nat /\ MaxForeign \in Nat

VARIABLES pc,      \* where each client is in acquire, its command or release
          tok,     \* its ticket
          seen,    \* the head row it read last
          row,     \* id of a ticket's pending row, 0 if it has none
          nextId,  \* AUTOINCREMENT
          file,    \* lease files on disk
          lease,   \* who has locked a lease file
          guard,   \* who has locked ggo-git-transactions.sqlite
          used,    \* tokens made so far
          index,   \* a foreign Git process has index.lock
          busy,    \* SQLITE_BUSY answers so far
          foreign  \* locks taken outside the queue so far

queue == <<row, nextId, file, lease>>
bounds == <<busy, foreign>>
vars == <<pc, tok, seen, queue, guard, used, index, bounds>>

Waiting == {"look", "exists", "probe", "rollback", "reap", "unlink", "guard", "wait"}
Holding == {"index", "run"}
InLine  == Waiting \cup Holding
Leaving == {"close", "closeKept", "closeDone", "closeFile"}
Place   == {"idle", "insert"} \cup InLine \cup Leaving

TypeOK ==
  /\ pc \in [Client -> Place]
  /\ tok \in [Client -> Token \cup {Nobody}] /\ seen \in [Client -> Token \cup {Nobody}]
  /\ row \in [Token -> Nat] /\ nextId \in Nat \ {0}
  /\ file \in [Token -> BOOLEAN] /\ lease \in [Token -> Client \cup {Nobody}]
  /\ guard \in Client \cup Old \cup {Nobody}
  /\ used \subseteq Token /\ index \in BOOLEAN
  /\ busy \in 0..MaxBusy /\ foreign \in 0..MaxForeign

Init ==
  /\ pc = [c \in Client |-> "idle"]
  /\ tok = [c \in Client |-> Nobody] /\ seen = [c \in Client |-> Nobody]
  /\ row = [t \in Token |-> 0] /\ nextId = 1
  /\ file = [t \in Token |-> FALSE] /\ lease = [t \in Token |-> Nobody]
  /\ guard = Nobody /\ used = {} /\ index = FALSE /\ busy = 0 /\ foreign = 0

-----------------------------------------------------------------------------
Go(c, from, to) == pc[c] = from /\ pc' = [pc EXCEPT ![c] = to]

(* A statement on the admission database finds another writer in it. *)
FindsBusy == busy < MaxBusy /\ busy' = busy + 1 /\ UNCHANGED foreign

(* unlinkSync in a try: the file goes, or stays for good. *)
MayUnlink(t) == file' \in {file, [file EXCEPT ![t] = FALSE]}

-----------------------------------------------------------------------------
(* registerTicket: a fresh lease file, locked before any row names it. *)
Start(c) == \E t \in Token \ used :
  /\ Go(c, "idle", "insert")
  /\ tok' = [tok EXCEPT ![c] = t] /\ used' = used \cup {t}
  /\ file' = [file EXCEPT ![t] = TRUE] /\ lease' = [lease EXCEPT ![t] = c]
  /\ UNCHANGED <<seen, row, nextId, guard, index, bounds>>

Insert(c) ==
  /\ Go(c, "insert", "look")
  /\ row' = [row EXCEPT ![tok[c]] = nextId] /\ nextId' = nextId + 1
  /\ UNCHANGED <<tok, seen, file, lease, guard, used, index, bounds>>

(* retryBusy waits and tries again, or its deadline has passed and the     *)
(* lease is closed and removed.  No row names it yet.                      *)
InsertBusy(c) ==
  /\ pc[c] = "insert" /\ FindsBusy
  /\ \/ UNCHANGED <<pc, tok, file, lease>>
     \/ /\ pc' = [pc EXCEPT ![c] = "idle"] /\ tok' = [tok EXCEPT ![c] = Nobody]
        /\ lease' = [lease EXCEPT ![tok[c]] = Nobody] /\ MayUnlink(tok[c])
  /\ UNCHANGED <<seen, row, nextId, guard, used, index>>

-----------------------------------------------------------------------------
(* firstInLine reads the head row: none, its own, or another's. *)
Head(t) == row[t] # 0 /\ \A u \in Token : row[u] = 0 \/ row[t] <= row[u]

look(c, heads) ==
  /\ pc[c] = "look"
  /\ \/ (\A t \in Token : row[t] = 0) /\ pc' = [pc EXCEPT ![c] = "close"] /\ UNCHANGED seen
     \/ tok[c] \in heads /\ pc' = [pc EXCEPT ![c] = "guard"] /\ UNCHANGED seen
     \/ \E t \in heads \ {tok[c]} :
          /\ seen' = [seen EXCEPT ![c] = t] /\ pc' = [pc EXCEPT ![c] = "exists"]
  /\ UNCHANGED <<tok, queue, guard, used, index, bounds>>

Look_AnyRow(c) == look(c, {t \in Token : row[t] # 0})
Look(c) == look(c, {t \in Token : Head(t)})

(* ticketIsAlive: no lease file is a withdrawn ticket if its row is gone   *)
(* too, and otherwise an error that ends the call.                         *)
Gone(c) == pc' = [pc EXCEPT ![c] = IF row[seen[c]] = 0 THEN "reap" ELSE "close"]

Exists(c) ==
  /\ pc[c] = "exists"
  /\ IF file[seen[c]] THEN pc' = [pc EXCEPT ![c] = "probe"] ELSE Gone(c)
  /\ UNCHANGED <<tok, seen, queue, guard, used, index, bounds>>

(* BEGIN EXCLUSIVE on the head's lease: locked by its owner or by another  *)
(* prober is alive; else the prober has it until its ROLLBACK.             *)
probe(c, ifLocked) ==
  /\ pc[c] = "probe"
  /\ IF ~file[seen[c]] THEN Gone(c) /\ UNCHANGED lease
     ELSE IF lease[seen[c]] = Nobody
     THEN pc' = [pc EXCEPT ![c] = "rollback"] /\ lease' = [lease EXCEPT ![seen[c]] = c]
     ELSE pc' = [pc EXCEPT ![c] = ifLocked] /\ UNCHANGED lease
  /\ UNCHANGED <<tok, seen, row, nextId, file, guard, used, index, bounds>>

Probe_LockedIsDead(c) == probe(c, "reap")
Probe(c) == probe(c, "wait")

Rollback(c) ==
  /\ Go(c, "rollback", "reap")
  /\ lease' = [lease EXCEPT ![seen[c]] = Nobody]
  /\ UNCHANGED <<tok, seen, row, nextId, file, guard, used, index, bounds>>

Reap(c) ==
  /\ Go(c, "reap", "unlink")
  /\ row' = [row EXCEPT ![seen[c]] = 0]
  /\ UNCHANGED <<tok, seen, nextId, file, lease, guard, used, index, bounds>>

(* A busy DELETE or SELECT is caught in acquire, which polls again. *)
PollBusy(c) ==
  /\ \/ pc[c] \in {"look", "reap"}
     \/ pc[c] \in {"exists", "probe"} /\ ~file[seen[c]]
  /\ FindsBusy
  /\ pc' = [pc EXCEPT ![c] = "wait"]
  /\ UNCHANGED <<tok, seen, queue, guard, used, index>>

Unlink(c) ==
  /\ Go(c, "unlink", "look")
  /\ MayUnlink(seen[c])
  /\ UNCHANGED <<tok, seen, row, nextId, lease, guard, used, index, bounds>>

(* acquire: the head of the line takes the guard, or finds it taken. *)
TakeGuard(c) ==
  /\ pc[c] = "guard"
  /\ IF guard = Nobody
     THEN guard' = c /\ pc' = [pc EXCEPT ![c] = "index"]
     ELSE pc' = [pc EXCEPT ![c] = "wait"] /\ UNCHANGED guard
  /\ UNCHANGED <<tok, seen, queue, used, index, bounds>>

(* The sleep is over. *)
poll(c, again) ==
  /\ Go(c, "wait", again)
  /\ UNCHANGED <<tok, seen, queue, guard, used, index, bounds>>

Poll_TriesGuard(c) == poll(c, "guard")
Poll(c) == poll(c, "look")

(* The deadline of a waiter passed: the command is not started. *)
TimeOut(c) ==
  /\ Go(c, "wait", "close")
  /\ UNCHANGED <<tok, seen, queue, guard, used, index, bounds>>

-----------------------------------------------------------------------------
(* withCommonDirectory's fn.  The command line waits for the index lock of *)
(* a Git process outside the queue, until its deadline; push, fetch and    *)
(* the server's own callers do not.                                        *)
Begin(c) ==
  /\ Go(c, "index", "run") /\ (index => c \in Direct)
  /\ UNCHANGED <<tok, seen, queue, guard, used, index, bounds>>

IndexTimeOut(c) ==
  /\ index /\ c \notin Direct /\ Go(c, "index", "close") /\ guard' = Nobody
  /\ UNCHANGED <<tok, seen, queue, used, index, bounds>>

(* release: the guard goes first, then the ticket. *)
End(c) ==
  /\ Go(c, "run", "close") /\ guard' = Nobody
  /\ UNCHANGED <<tok, seen, queue, used, index, bounds>>

(* ticket.close: DELETE the row ... *)
CloseRow(c) ==
  /\ Go(c, "close", "closeDone")
  /\ row' = [row EXCEPT ![tok[c]] = 0]
  /\ UNCHANGED <<tok, seen, nextId, file, lease, guard, used, index, bounds>>

(* ... or fail to, and leave the row and an unlocked lease to be reaped. *)
CloseBusy(c) ==
  /\ Go(c, "close", "closeKept") /\ FindsBusy
  /\ UNCHANGED <<tok, seen, queue, guard, used, index>>

closeLease(c, unlinks, unlocks) ==
  /\ pc[c] \in {"closeDone", "closeKept"}
  /\ lease' = IF pc[c] \in unlocks THEN [lease EXCEPT ![tok[c]] = Nobody] ELSE lease
  /\ IF pc[c] \in unlinks
     THEN pc' = [pc EXCEPT ![c] = "closeFile"] /\ UNCHANGED tok
     ELSE pc' = [pc EXCEPT ![c] = "idle"] /\ tok' = [tok EXCEPT ![c] = Nobody]
  /\ UNCHANGED <<seen, row, nextId, file, guard, used, index, bounds>>

CloseLease_UnlinksAnyway(c) == closeLease(c, {"closeDone", "closeKept"}, {"closeDone", "closeKept"})
CloseLease_ForgetsLease(c) == closeLease(c, {"closeDone"}, {"closeDone"})
CloseLease(c) == closeLease(c, {"closeDone"}, {"closeDone", "closeKept"})

CloseFile(c) ==
  /\ Go(c, "closeFile", "idle") /\ tok' = [tok EXCEPT ![c] = Nobody]
  /\ MayUnlink(tok[c])
  /\ UNCHANGED <<seen, row, nextId, lease, guard, used, index, bounds>>

-----------------------------------------------------------------------------
(* The client's process dies: the operating system drops its locks. *)
Crash(c) ==
  /\ pc[c] # "idle"
  /\ pc' = [pc EXCEPT ![c] = "idle"] /\ tok' = [tok EXCEPT ![c] = Nobody]
  /\ lease' = [t \in Token |-> IF lease[t] = c THEN Nobody ELSE lease[t]]
  /\ guard' = IF guard = c THEN Nobody ELSE guard
  /\ UNCHANGED <<seen, row, nextId, file, used, index, bounds>>

OldTakes(o) ==
  /\ guard = Nobody /\ guard' = o
  /\ foreign < MaxForeign /\ foreign' = foreign + 1
  /\ UNCHANGED <<pc, tok, seen, queue, used, index, busy>>

OldEnds(o) ==
  /\ guard = o /\ guard' = Nobody
  /\ UNCHANGED <<pc, tok, seen, queue, used, index, bounds>>

(* A Git process outside the queue takes index.lock, ends or dies. *)
NativeTakes ==
  /\ ~index /\ foreign < MaxForeign
  /\ index' = TRUE /\ foreign' = foreign + 1
  /\ UNCHANGED <<pc, tok, seen, queue, guard, used, busy>>

NativeEnds ==
  /\ index /\ index' = FALSE
  /\ UNCHANGED <<pc, tok, seen, queue, guard, used, bounds>>

Progress(c) ==
  \/ Insert(c) \/ Look(c) \/ Exists(c) \/ Probe(c) \/ Rollback(c) \/ Reap(c)
  \/ Unlink(c) \/ TakeGuard(c) \/ Poll(c) \/ Begin(c) \/ End(c)
  \/ CloseRow(c) \/ CloseLease(c) \/ CloseFile(c)

Next ==
  \/ \E c \in Client :
       \/ Start(c) \/ Progress(c) \/ InsertBusy(c) \/ PollBusy(c)
       \/ TimeOut(c) \/ IndexTimeOut(c) \/ CloseBusy(c) \/ Crash(c)
  \/ \E o \in Old : OldTakes(o) \/ OldEnds(o)
  \/ NativeTakes \/ NativeEnds

Spec == Init /\ [][Next]_vars

(* The event loop runs a caller's next call and timer, a command ends, and *)
(* an older program lets go.  No deadline of a waiter need ever pass; the  *)
(* holder's does when a dead Git process has left its index.lock.          *)
Fairness ==
  /\ \A c \in Client : WF_vars(Progress(c)) /\ WF_vars(IndexTimeOut(c))
  /\ \A o \in Old : WF_vars(OldEnds(o))

FairSpec == Spec /\ Fairness

-----------------------------------------------------------------------------
(* The lease proves a waiting process alive (lines 34-37); a row without   *)
(* its file would make every caller of this store throw for ever (lines    *)
(* 63-64, "Never leave a registered row without its lease file").          *)
RowHasLease == \A t \in Token : row[t] # 0 => file[t]

(* A caller in line keeps its row and its locked lease: whatever the       *)
(* others reap, it never "lost its own ticket" (line 100).                 *)
NeverReaped == \A c \in Client : pc[c] \in InLine => row[tok[c]] # 0 /\ lease[tok[c]] = c

(* Registration alone already admits one: past firstInLine a caller stays  *)
(* the head of the line until its own release, so only older programs ever *)
(* compete for the guard (lines 34-36, 120-144).                           *)
HeadStays == \A c \in Client : pc[c] \in {"guard"} \cup Holding => Head(tok[c])

(* The queue is a fair line of the tickets that live callers hold.         *)
Line == INSTANCE FairLine WITH
  Ticket <- Token, Outsider <- Old,
  place <- [t \in Token |->
              IF \E c \in Client : tok[c] = t /\ pc[c] \in InLine THEN row[t] ELSE 0],
  owner <- IF guard \in Client THEN tok[guard] ELSE guard

QueueIsFair == Line!Spec

(* A caller that waits gets in or gives up, whoever dies in front of it    *)
(* and whatever row a busy cleanup left behind (lines 63-65), as long as   *)
(* commands end.                                                           *)
QueueDrains == \A c \in Client : pc[c] \in Waiting ~> pc[c] \notin Waiting
=============================================================================
