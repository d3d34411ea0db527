------------------------ MODULE GitTransactionsProofs ------------------------
(* Proofs about GitTransactions, for any callers, older programs, tickets  *)
(* and numbers of faults.                                                  *)
EXTENDS GitTransactions, TLAPS

Scanning == {"exists", "probe", "rollback", "reap", "unlink"}

(* A ticket belongs to the one caller that made it. *)
OwnedOK ==
  /\ \A c \in Client : tok[c] = Nobody <=> pc[c] = "idle"
  /\ \A c \in Client : tok[c] # Nobody => tok[c] \in used
  /\ \A c, d \in Client : tok[c] = tok[d] /\ tok[c] # Nobody => c = d

(* Rows are of tickets made, numbered in the order they were inserted. *)
RowsOK ==
  /\ \A t \in Token : row[t] # 0 => t \in used /\ row[t] < nextId
  /\ \A t, u \in Token : row[t] # 0 /\ row[t] = row[u] => t = u

(* A caller holds its lease until it leaves, and has no row before Insert. *)
HoldsOK ==
  /\ \A c \in Client : pc[c] = "insert" => lease[tok[c]] = c /\ row[tok[c]] = 0 /\ file[tok[c]]
  /\ \A c \in Client : pc[c] \in {"closeDone", "closeFile"} => row[tok[c]] = 0

(* Whoever a caller saw at the head had inserted its row by then. *)
SeenOK == \A c \in Client : pc[c] \in Scanning =>
  /\ seen[c] \in used
  /\ \A d \in Client : tok[d] = seen[c] => pc[d] # "insert"

(* What is about to be reaped is out of the line, and what is unlinked has *)
(* no row.                                                                 *)
DeadOK ==
  /\ \A c, d \in Client : pc[c] \in {"rollback", "reap"} /\ tok[d] = seen[c] => pc[d] \notin InLine
  /\ \A c \in Client : pc[c] = "unlink" => row[seen[c]] = 0

GuardOK ==
  /\ \A c \in Client : pc[c] \in Holding <=> guard = c

QueueInv ==
  /\ TypeOK /\ OwnedOK /\ RowsOK /\ HoldsOK /\ SeenOK /\ DeadOK /\ GuardOK
  /\ RowHasLease /\ NeverReaped /\ HeadStays

(* A fresh ticket has no row and nobody has seen it. *)
LEMMA StartKeeps ==
  ASSUME QueueInv, NEW c \in Client, Start(c)
  PROVE  QueueInv'
<1> USE ConstantsOK DEF QueueInv, Start, Go, queue, bounds, Place, InLine, Waiting, Holding, Leaving, Scanning, Head
<1>1. TypeOK'
  BY DEF TypeOK
<1>2. OwnedOK'
  BY DEF OwnedOK, TypeOK
<1>3. RowsOK'
  BY DEF RowsOK
<1>4. HoldsOK'
  BY DEF HoldsOK, TypeOK, OwnedOK, RowsOK
<1>5. SeenOK'
  BY DEF SeenOK, TypeOK
<1>6. DeadOK'
  BY DEF DeadOK
<1>7. GuardOK'
  BY DEF GuardOK
<1>8. RowHasLease'
  BY DEF RowHasLease
<1>9. NeverReaped'
  BY DEF NeverReaped, TypeOK, OwnedOK
<1>10. HeadStays'
  BY DEF HeadStays
<1> QED
  BY <1>1, <1>2, <1>3, <1>4, <1>5, <1>6, <1>7, <1>8, <1>9, <1>10

(* The new row goes behind all others. *)
LEMMA InsertKeeps ==
  ASSUME QueueInv, NEW c \in Client, Insert(c)
  PROVE  QueueInv'
<1> USE ConstantsOK DEF QueueInv, Insert, Go, queue, bounds, Place, InLine, Waiting, Holding, Leaving, Scanning, Head
<1>1. TypeOK'
  BY DEF TypeOK, OwnedOK
<1>2. OwnedOK'
  BY DEF OwnedOK
<1>3. RowsOK'
  BY DEF RowsOK, TypeOK, OwnedOK
<1>4. HoldsOK'
  BY DEF HoldsOK, TypeOK, OwnedOK
<1>5. SeenOK'
  BY DEF SeenOK
<1>6. DeadOK'
  BY DEF DeadOK, TypeOK, OwnedOK, SeenOK
<1>7. GuardOK'
  BY DEF GuardOK
<1>8. RowHasLease'
  BY DEF RowHasLease, TypeOK, OwnedOK, HoldsOK
<1>9. NeverReaped'
  BY DEF NeverReaped, TypeOK, OwnedOK, HoldsOK
<1>10. HeadStays'
  BY DEF HeadStays, TypeOK, OwnedOK, RowsOK
<1> QED
  BY <1>1, <1>2, <1>3, <1>4, <1>5, <1>6, <1>7, <1>8, <1>9, <1>10

LEMMA InsertBusyKeeps ==
  ASSUME QueueInv, NEW c \in Client, InsertBusy(c)
  PROVE  QueueInv'
<1> USE ConstantsOK DEF QueueInv, InsertBusy, FindsBusy, MayUnlink, Go, queue, bounds, Place, InLine, Waiting, Holding, Leaving, Scanning, Head
<1>1. TypeOK'
  <2>1. file' \in [Token -> BOOLEAN]
    BY DEF TypeOK, OwnedOK
  <2>3. lease' \in [Token -> Client \cup {Nobody}]
    BY DEF TypeOK
  <2>2. /\ pc' \in [Client -> Place] /\ tok' \in [Client -> Token \cup {Nobody}]
        /\ busy' \in 0..MaxBusy
    BY DEF TypeOK
  <2> QED
    BY <2>1, <2>2, <2>3 DEF TypeOK
<1>2. OwnedOK'
  BY DEF OwnedOK, TypeOK
<1>3. RowsOK'
  BY DEF RowsOK
<1>4. HoldsOK'
  BY DEF HoldsOK, TypeOK, OwnedOK
<1>5. SeenOK'
  BY DEF SeenOK, TypeOK
<1>6. DeadOK'
  BY DEF DeadOK, TypeOK
<1>7. GuardOK'
  BY DEF GuardOK, TypeOK
<1>8. RowHasLease'
  BY DEF RowHasLease, TypeOK, OwnedOK, HoldsOK
<1>9. NeverReaped'
  BY DEF NeverReaped, TypeOK, OwnedOK
<1>10. HeadStays'
  BY DEF HeadStays, TypeOK
<1> QED
  BY <1>1, <1>2, <1>3, <1>4, <1>5, <1>6, <1>7, <1>8, <1>9, <1>10

LEMMA LookKeeps ==
  ASSUME QueueInv, NEW c \in Client, Look(c)
  PROVE  QueueInv'
<1> USE ConstantsOK DEF QueueInv, Look, look, Go, queue, bounds, Place, InLine, Waiting, Holding, Leaving, Scanning, Head
<1>1. TypeOK'
  BY DEF TypeOK
<1>2. OwnedOK'
  BY DEF OwnedOK, TypeOK
<1>3. RowsOK'
  BY DEF RowsOK
<1>4. HoldsOK'
  BY DEF HoldsOK, TypeOK
<1>5. SeenOK'
  BY DEF SeenOK, TypeOK, OwnedOK, RowsOK, HoldsOK
<1>6. DeadOK'
  BY DEF DeadOK, TypeOK
<1>7. GuardOK'
  BY DEF GuardOK, TypeOK
<1>8. RowHasLease'
  BY DEF RowHasLease
<1>9. NeverReaped'
  BY DEF NeverReaped, TypeOK
<1>10. HeadStays'
  BY DEF HeadStays, TypeOK
<1> QED
  BY <1>1, <1>2, <1>3, <1>4, <1>5, <1>6, <1>7, <1>8, <1>9, <1>10

LEMMA ExistsKeeps ==
  ASSUME QueueInv, NEW c \in Client, Exists(c)
  PROVE  QueueInv'
<1> USE ConstantsOK DEF QueueInv, Exists, Gone, Go, queue, bounds, Place, InLine, Waiting, Holding, Leaving, Scanning, Head
<1>1. TypeOK'
  BY DEF TypeOK
<1>2. OwnedOK'
  BY DEF OwnedOK, TypeOK
<1>3. RowsOK'
  BY DEF RowsOK
<1>4. HoldsOK'
  BY DEF HoldsOK, TypeOK
<1>5. SeenOK'
  BY DEF SeenOK, TypeOK
<1>6. DeadOK'
  BY DEF DeadOK, TypeOK, OwnedOK, NeverReaped
<1>7. GuardOK'
  BY DEF GuardOK, TypeOK
<1>8. RowHasLease'
  BY DEF RowHasLease
<1>9. NeverReaped'
  BY DEF NeverReaped, TypeOK
<1>10. HeadStays'
  BY DEF HeadStays, TypeOK
<1> QED
  BY <1>1, <1>2, <1>3, <1>4, <1>5, <1>6, <1>7, <1>8, <1>9, <1>10

(* Only a lease nobody holds is probed dead. *)
LEMMA ProbeKeeps ==
  ASSUME QueueInv, NEW c \in Client, Probe(c)
  PROVE  QueueInv'
<1> USE ConstantsOK DEF QueueInv, Probe, probe, Gone, Go, queue, bounds, Place, InLine, Waiting, Holding, Leaving, Scanning, Head
<1>1. TypeOK'
  BY DEF TypeOK
<1>2. OwnedOK'
  BY DEF OwnedOK, TypeOK
<1>3. RowsOK'
  BY DEF RowsOK
<1>4. HoldsOK'
  BY DEF HoldsOK, TypeOK, OwnedOK
<1>5. SeenOK'
  BY DEF SeenOK, TypeOK
<1>6. DeadOK'
  BY DEF DeadOK, TypeOK, OwnedOK, NeverReaped
<1>7. GuardOK'
  BY DEF GuardOK, TypeOK
<1>8. RowHasLease'
  BY DEF RowHasLease
<1>9. NeverReaped'
  BY DEF NeverReaped, TypeOK, OwnedOK
<1>10. HeadStays'
  BY DEF HeadStays, TypeOK
<1> QED
  BY <1>1, <1>2, <1>3, <1>4, <1>5, <1>6, <1>7, <1>8, <1>9, <1>10

LEMMA RollbackKeeps ==
  ASSUME QueueInv, NEW c \in Client, Rollback(c)
  PROVE  QueueInv'
<1> USE ConstantsOK DEF QueueInv, Rollback, Go, queue, bounds, Place, InLine, Waiting, Holding, Leaving, Scanning, Head
<1>1. TypeOK'
  BY DEF TypeOK
<1>2. OwnedOK'
  BY DEF OwnedOK
<1>3. RowsOK'
  BY DEF RowsOK
<1>4. HoldsOK'
  BY DEF HoldsOK, TypeOK, OwnedOK, SeenOK
<1>5. SeenOK'
  BY DEF SeenOK
<1>6. DeadOK'
  BY DEF DeadOK
<1>7. GuardOK'
  BY DEF GuardOK
<1>8. RowHasLease'
  BY DEF RowHasLease
<1>9. NeverReaped'
  BY DEF NeverReaped, TypeOK, OwnedOK, DeadOK
<1>10. HeadStays'
  BY DEF HeadStays
<1> QED
  BY <1>1, <1>2, <1>3, <1>4, <1>5, <1>6, <1>7, <1>8, <1>9, <1>10

(* The reaped row is of no caller in line. *)
LEMMA ReapKeeps ==
  ASSUME QueueInv, NEW c \in Client, Reap(c)
  PROVE  QueueInv'
<1> USE ConstantsOK DEF QueueInv, Reap, Go, queue, bounds, Place, InLine, Waiting, Holding, Leaving, Scanning, Head
<1>1. TypeOK'
  BY DEF TypeOK
<1>2. OwnedOK'
  BY DEF OwnedOK
<1>3. RowsOK'
  BY DEF RowsOK
<1>4. HoldsOK'
  BY DEF HoldsOK
<1>5. SeenOK'
  BY DEF SeenOK
<1>6. DeadOK'
  BY DEF DeadOK, TypeOK, OwnedOK, SeenOK
<1>7. GuardOK'
  BY DEF GuardOK
<1>8. RowHasLease'
  BY DEF RowHasLease
<1>9. NeverReaped'
  BY DEF NeverReaped, TypeOK, OwnedOK, DeadOK
<1>10. HeadStays'
  BY DEF HeadStays, TypeOK, OwnedOK, DeadOK
<1> QED
  BY <1>1, <1>2, <1>3, <1>4, <1>5, <1>6, <1>7, <1>8, <1>9, <1>10

LEMMA PollBusyKeeps ==
  ASSUME QueueInv, NEW c \in Client, PollBusy(c)
  PROVE  QueueInv'
<1> USE ConstantsOK DEF QueueInv, PollBusy, FindsBusy, Go, queue, bounds, Place, InLine, Waiting, Holding, Leaving, Scanning, Head
<1>1. TypeOK'
  BY DEF TypeOK
<1>2. OwnedOK'
  BY DEF OwnedOK
<1>3. RowsOK'
  BY DEF RowsOK
<1>4. HoldsOK'
  BY DEF HoldsOK
<1>5. SeenOK'
  BY DEF SeenOK
<1>6. DeadOK'
  BY DEF DeadOK
<1>7. GuardOK'
  BY DEF GuardOK
<1>8. RowHasLease'
  BY DEF RowHasLease
<1>9. NeverReaped'
  BY DEF NeverReaped
<1>10. HeadStays'
  BY DEF HeadStays
<1> QED
  BY <1>1, <1>2, <1>3, <1>4, <1>5, <1>6, <1>7, <1>8, <1>9, <1>10

LEMMA UnlinkKeeps ==
  ASSUME QueueInv, NEW c \in Client, Unlink(c)
  PROVE  QueueInv'
<1> USE ConstantsOK DEF QueueInv, Unlink, MayUnlink, Go, queue, bounds, Place, InLine, Waiting, Holding, Leaving, Scanning, Head
<1>1. TypeOK'
  BY DEF TypeOK
<1>2. OwnedOK'
  BY DEF OwnedOK
<1>3. RowsOK'
  BY DEF RowsOK
<1>4. HoldsOK'
  BY DEF HoldsOK, TypeOK, OwnedOK, SeenOK
<1>5. SeenOK'
  BY DEF SeenOK
<1>6. DeadOK'
  BY DEF DeadOK
<1>7. GuardOK'
  BY DEF GuardOK
<1>8. RowHasLease'
  BY DEF RowHasLease, TypeOK, OwnedOK, DeadOK
<1>9. NeverReaped'
  BY DEF NeverReaped
<1>10. HeadStays'
  BY DEF HeadStays
<1> QED
  BY <1>1, <1>2, <1>3, <1>4, <1>5, <1>6, <1>7, <1>8, <1>9, <1>10

LEMMA TakeGuardKeeps ==
  ASSUME QueueInv, NEW c \in Client, TakeGuard(c)
  PROVE  QueueInv'
<1> USE ConstantsOK DEF QueueInv, TakeGuard, Go, queue, bounds, Place, InLine, Waiting, Holding, Leaving, Scanning, Head
<1>1. TypeOK'
  BY DEF TypeOK
<1>2. OwnedOK'
  BY DEF OwnedOK, TypeOK
<1>3. RowsOK'
  BY DEF RowsOK
<1>4. HoldsOK'
  BY DEF HoldsOK, TypeOK
<1>5. SeenOK'
  BY DEF SeenOK, TypeOK
<1>6. DeadOK'
  BY DEF DeadOK, TypeOK
<1>7. GuardOK'
  BY DEF GuardOK, TypeOK
<1>8. RowHasLease'
  BY DEF RowHasLease
<1>9. NeverReaped'
  BY DEF NeverReaped, TypeOK
<1>10. HeadStays'
  BY DEF HeadStays, TypeOK
<1> QED
  BY <1>1, <1>2, <1>3, <1>4, <1>5, <1>6, <1>7, <1>8, <1>9, <1>10

LEMMA PollKeeps ==
  ASSUME QueueInv, NEW c \in Client, Poll(c)
  PROVE  QueueInv'
<1> USE ConstantsOK DEF QueueInv, Poll, poll, Go, queue, bounds, Place, InLine, Waiting, Holding, Leaving, Scanning, Head
<1>1. TypeOK'
  BY DEF TypeOK
<1>2. OwnedOK'
  BY DEF OwnedOK
<1>3. RowsOK'
  BY DEF RowsOK
<1>4. HoldsOK'
  BY DEF HoldsOK
<1>5. SeenOK'
  BY DEF SeenOK
<1>6. DeadOK'
  BY DEF DeadOK
<1>7. GuardOK'
  BY DEF GuardOK
<1>8. RowHasLease'
  BY DEF RowHasLease
<1>9. NeverReaped'
  BY DEF NeverReaped
<1>10. HeadStays'
  BY DEF HeadStays
<1> QED
  BY <1>1, <1>2, <1>3, <1>4, <1>5, <1>6, <1>7, <1>8, <1>9, <1>10

LEMMA TimeOutKeeps ==
  ASSUME QueueInv, NEW c \in Client, TimeOut(c)
  PROVE  QueueInv'
<1> USE ConstantsOK DEF QueueInv, TimeOut, Go, queue, bounds, Place, InLine, Waiting, Holding, Leaving, Scanning, Head
<1>1. TypeOK'
  BY DEF TypeOK
<1>2. OwnedOK'
  BY DEF OwnedOK
<1>3. RowsOK'
  BY DEF RowsOK
<1>4. HoldsOK'
  BY DEF HoldsOK
<1>5. SeenOK'
  BY DEF SeenOK
<1>6. DeadOK'
  BY DEF DeadOK
<1>7. GuardOK'
  BY DEF GuardOK
<1>8. RowHasLease'
  BY DEF RowHasLease
<1>9. NeverReaped'
  BY DEF NeverReaped
<1>10. HeadStays'
  BY DEF HeadStays
<1> QED
  BY <1>1, <1>2, <1>3, <1>4, <1>5, <1>6, <1>7, <1>8, <1>9, <1>10

LEMMA BeginKeeps ==
  ASSUME QueueInv, NEW c \in Client, Begin(c)
  PROVE  QueueInv'
<1> USE ConstantsOK DEF QueueInv, Begin, Go, queue, bounds, Place, InLine, Waiting, Holding, Leaving, Scanning, Head
<1>1. TypeOK'
  BY DEF TypeOK
<1>2. OwnedOK'
  BY DEF OwnedOK
<1>3. RowsOK'
  BY DEF RowsOK
<1>4. HoldsOK'
  BY DEF HoldsOK
<1>5. SeenOK'
  BY DEF SeenOK
<1>6. DeadOK'
  BY DEF DeadOK
<1>7. GuardOK'
  BY DEF GuardOK
<1>8. RowHasLease'
  BY DEF RowHasLease
<1>9. NeverReaped'
  BY DEF NeverReaped
<1>10. HeadStays'
  BY DEF HeadStays
<1> QED
  BY <1>1, <1>2, <1>3, <1>4, <1>5, <1>6, <1>7, <1>8, <1>9, <1>10

LEMMA IndexTimeOutKeeps ==
  ASSUME QueueInv, NEW c \in Client, IndexTimeOut(c)
  PROVE  QueueInv'
<1> USE ConstantsOK DEF QueueInv, IndexTimeOut, Go, queue, bounds, Place, InLine, Waiting, Holding, Leaving, Scanning, Head
<1>1. TypeOK'
  BY DEF TypeOK
<1>2. OwnedOK'
  BY DEF OwnedOK
<1>3. RowsOK'
  BY DEF RowsOK
<1>4. HoldsOK'
  BY DEF HoldsOK
<1>5. SeenOK'
  BY DEF SeenOK
<1>6. DeadOK'
  BY DEF DeadOK
<1>7. GuardOK'
  BY DEF GuardOK, TypeOK
<1>8. RowHasLease'
  BY DEF RowHasLease
<1>9. NeverReaped'
  BY DEF NeverReaped
<1>10. HeadStays'
  BY DEF HeadStays
<1> QED
  BY <1>1, <1>2, <1>3, <1>4, <1>5, <1>6, <1>7, <1>8, <1>9, <1>10

LEMMA EndKeeps ==
  ASSUME QueueInv, NEW c \in Client, End(c)
  PROVE  QueueInv'
<1> USE ConstantsOK DEF QueueInv, End, Go, queue, bounds, Place, InLine, Waiting, Holding, Leaving, Scanning, Head
<1>1. TypeOK'
  BY DEF TypeOK
<1>2. OwnedOK'
  BY DEF OwnedOK
<1>3. RowsOK'
  BY DEF RowsOK
<1>4. HoldsOK'
  BY DEF HoldsOK
<1>5. SeenOK'
  BY DEF SeenOK
<1>6. DeadOK'
  BY DEF DeadOK
<1>7. GuardOK'
  BY DEF GuardOK, TypeOK
<1>8. RowHasLease'
  BY DEF RowHasLease
<1>9. NeverReaped'
  BY DEF NeverReaped
<1>10. HeadStays'
  BY DEF HeadStays
<1> QED
  BY <1>1, <1>2, <1>3, <1>4, <1>5, <1>6, <1>7, <1>8, <1>9, <1>10

LEMMA CloseRowKeeps ==
  ASSUME QueueInv, NEW c \in Client, CloseRow(c)
  PROVE  QueueInv'
<1> USE ConstantsOK DEF QueueInv, CloseRow, Go, queue, bounds, Place, InLine, Waiting, Holding, Leaving, Scanning, Head
<1>1. TypeOK'
  BY DEF TypeOK
<1>2. OwnedOK'
  BY DEF OwnedOK
<1>3. RowsOK'
  BY DEF RowsOK
<1>4. HoldsOK'
  BY DEF HoldsOK, TypeOK, OwnedOK
<1>5. SeenOK'
  BY DEF SeenOK
<1>6. DeadOK'
  BY DEF DeadOK
<1>7. GuardOK'
  BY DEF GuardOK
<1>8. RowHasLease'
  BY DEF RowHasLease
<1>9. NeverReaped'
  BY DEF NeverReaped, TypeOK, OwnedOK
<1>10. HeadStays'
  BY DEF HeadStays, TypeOK, OwnedOK
<1> QED
  BY <1>1, <1>2, <1>3, <1>4, <1>5, <1>6, <1>7, <1>8, <1>9, <1>10

LEMMA CloseBusyKeeps ==
  ASSUME QueueInv, NEW c \in Client, CloseBusy(c)
  PROVE  QueueInv'
<1> USE ConstantsOK DEF QueueInv, CloseBusy, FindsBusy, Go, queue, bounds, Place, InLine, Waiting, Holding, Leaving, Scanning, Head
<1>1. TypeOK'
  BY DEF TypeOK
<1>2. OwnedOK'
  BY DEF OwnedOK
<1>3. RowsOK'
  BY DEF RowsOK
<1>4. HoldsOK'
  BY DEF HoldsOK
<1>5. SeenOK'
  BY DEF SeenOK
<1>6. DeadOK'
  BY DEF DeadOK
<1>7. GuardOK'
  BY DEF GuardOK
<1>8. RowHasLease'
  BY DEF RowHasLease
<1>9. NeverReaped'
  BY DEF NeverReaped
<1>10. HeadStays'
  BY DEF HeadStays
<1> QED
  BY <1>1, <1>2, <1>3, <1>4, <1>5, <1>6, <1>7, <1>8, <1>9, <1>10

LEMMA CloseLeaseKeeps ==
  ASSUME QueueInv, NEW c \in Client, CloseLease(c)
  PROVE  QueueInv'
<1> USE ConstantsOK DEF QueueInv, CloseLease, closeLease, Go, queue, bounds, Place, InLine, Waiting, Holding, Leaving, Scanning, Head
<1>1. TypeOK'
  BY DEF TypeOK
<1>2. OwnedOK'
  BY DEF OwnedOK, TypeOK
<1>3. RowsOK'
  BY DEF RowsOK
<1>4. HoldsOK'
  BY DEF HoldsOK, TypeOK, OwnedOK
<1>5. SeenOK'
  BY DEF SeenOK, TypeOK
<1>6. DeadOK'
  BY DEF DeadOK, TypeOK
<1>7. GuardOK'
  BY DEF GuardOK, TypeOK
<1>8. RowHasLease'
  BY DEF RowHasLease
<1>9. NeverReaped'
  BY DEF NeverReaped, TypeOK, OwnedOK
<1>10. HeadStays'
  BY DEF HeadStays, TypeOK
<1> QED
  BY <1>1, <1>2, <1>3, <1>4, <1>5, <1>6, <1>7, <1>8, <1>9, <1>10

LEMMA CloseFileKeeps ==
  ASSUME QueueInv, NEW c \in Client, CloseFile(c)
  PROVE  QueueInv'
<1> USE ConstantsOK DEF QueueInv, CloseFile, MayUnlink, Go, queue, bounds, Place, InLine, Waiting, Holding, Leaving, Scanning, Head
<1>1. TypeOK'
  BY DEF TypeOK
<1>2. OwnedOK'
  BY DEF OwnedOK, TypeOK
<1>3. RowsOK'
  BY DEF RowsOK
<1>4. HoldsOK'
  BY DEF HoldsOK, TypeOK, OwnedOK
<1>5. SeenOK'
  BY DEF SeenOK
<1>6. DeadOK'
  BY DEF DeadOK
<1>7. GuardOK'
  BY DEF GuardOK
<1>8. RowHasLease'
  BY DEF RowHasLease, TypeOK, OwnedOK, HoldsOK
<1>9. NeverReaped'
  BY DEF NeverReaped
<1>10. HeadStays'
  BY DEF HeadStays
<1> QED
  BY <1>1, <1>2, <1>3, <1>4, <1>5, <1>6, <1>7, <1>8, <1>9, <1>10

LEMMA CrashKeeps ==
  ASSUME QueueInv, NEW c \in Client, Crash(c)
  PROVE  QueueInv'
<1> USE ConstantsOK DEF QueueInv, Crash, Go, queue, bounds, Place, InLine, Waiting, Holding, Leaving, Scanning, Head
<1>1. TypeOK'
  BY DEF TypeOK
<1>2. OwnedOK'
  BY DEF OwnedOK, TypeOK
<1>3. RowsOK'
  BY DEF RowsOK
<1>4. HoldsOK'
  BY DEF HoldsOK, TypeOK, OwnedOK
<1>5. SeenOK'
  BY DEF SeenOK, TypeOK
<1>6. DeadOK'
  BY DEF DeadOK, TypeOK
<1>7. GuardOK'
  BY DEF GuardOK, TypeOK
<1>8. RowHasLease'
  BY DEF RowHasLease
<1>9. NeverReaped'
  BY DEF NeverReaped, TypeOK, OwnedOK
<1>10. HeadStays'
  BY DEF HeadStays, TypeOK
<1> QED
  BY <1>1, <1>2, <1>3, <1>4, <1>5, <1>6, <1>7, <1>8, <1>9, <1>10

LEMMA OldTakesKeeps ==
  ASSUME QueueInv, NEW o \in Old, OldTakes(o)
  PROVE  QueueInv'
<1> USE ConstantsOK DEF QueueInv, OldTakes, Go, queue, bounds, Place, InLine, Waiting, Holding, Leaving, Scanning, Head
<1>1. TypeOK'
  BY DEF TypeOK
<1>2. OwnedOK'
  BY DEF OwnedOK
<1>3. RowsOK'
  BY DEF RowsOK
<1>4. HoldsOK'
  BY DEF HoldsOK
<1>5. SeenOK'
  BY DEF SeenOK
<1>6. DeadOK'
  BY DEF DeadOK
<1>7. GuardOK'
  BY DEF GuardOK
<1>8. RowHasLease'
  BY DEF RowHasLease
<1>9. NeverReaped'
  BY DEF NeverReaped
<1>10. HeadStays'
  BY DEF HeadStays
<1> QED
  BY <1>1, <1>2, <1>3, <1>4, <1>5, <1>6, <1>7, <1>8, <1>9, <1>10

LEMMA OldEndsKeeps ==
  ASSUME QueueInv, NEW o \in Old, OldEnds(o)
  PROVE  QueueInv'
<1> USE ConstantsOK DEF QueueInv, OldEnds, Go, queue, bounds, Place, InLine, Waiting, Holding, Leaving, Scanning, Head
<1>1. TypeOK'
  BY DEF TypeOK
<1>2. OwnedOK'
  BY DEF OwnedOK
<1>3. RowsOK'
  BY DEF RowsOK
<1>4. HoldsOK'
  BY DEF HoldsOK
<1>5. SeenOK'
  BY DEF SeenOK
<1>6. DeadOK'
  BY DEF DeadOK
<1>7. GuardOK'
  BY DEF GuardOK
<1>8. RowHasLease'
  BY DEF RowHasLease
<1>9. NeverReaped'
  BY DEF NeverReaped
<1>10. HeadStays'
  BY DEF HeadStays
<1> QED
  BY <1>1, <1>2, <1>3, <1>4, <1>5, <1>6, <1>7, <1>8, <1>9, <1>10

LEMMA NativeTakesKeeps ==
  ASSUME QueueInv, NativeTakes
  PROVE  QueueInv'
<1> USE ConstantsOK DEF QueueInv, NativeTakes, Go, queue, bounds, Place, InLine, Waiting, Holding, Leaving, Scanning, Head
<1>1. TypeOK'
  BY DEF TypeOK
<1>2. OwnedOK'
  BY DEF OwnedOK
<1>3. RowsOK'
  BY DEF RowsOK
<1>4. HoldsOK'
  BY DEF HoldsOK
<1>5. SeenOK'
  BY DEF SeenOK
<1>6. DeadOK'
  BY DEF DeadOK
<1>7. GuardOK'
  BY DEF GuardOK
<1>8. RowHasLease'
  BY DEF RowHasLease
<1>9. NeverReaped'
  BY DEF NeverReaped
<1>10. HeadStays'
  BY DEF HeadStays
<1> QED
  BY <1>1, <1>2, <1>3, <1>4, <1>5, <1>6, <1>7, <1>8, <1>9, <1>10

LEMMA NativeEndsKeeps ==
  ASSUME QueueInv, NativeEnds
  PROVE  QueueInv'
<1> USE ConstantsOK DEF QueueInv, NativeEnds, Go, queue, bounds, Place, InLine, Waiting, Holding, Leaving, Scanning, Head
<1>1. TypeOK'
  BY DEF TypeOK
<1>2. OwnedOK'
  BY DEF OwnedOK
<1>3. RowsOK'
  BY DEF RowsOK
<1>4. HoldsOK'
  BY DEF HoldsOK
<1>5. SeenOK'
  BY DEF SeenOK
<1>6. DeadOK'
  BY DEF DeadOK
<1>7. GuardOK'
  BY DEF GuardOK
<1>8. RowHasLease'
  BY DEF RowHasLease
<1>9. NeverReaped'
  BY DEF NeverReaped
<1>10. HeadStays'
  BY DEF HeadStays
<1> QED
  BY <1>1, <1>2, <1>3, <1>4, <1>5, <1>6, <1>7, <1>8, <1>9, <1>10

LEMMA InitHolds == Init => QueueInv
<1> SUFFICES ASSUME Init PROVE QueueInv
  OBVIOUS
<1> USE ConstantsOK DEF Init
<1>6. pc \in [Client -> Place]
  BY DEF Place
<1>7. nextId \in Nat \ {0} /\ row \in [Token -> Nat]
  OBVIOUS
<1>8. busy \in 0..MaxBusy /\ foreign \in 0..MaxForeign
  OBVIOUS
<1>1. TypeOK
  BY <1>6, <1>7, <1>8 DEF TypeOK
<1>2. OwnedOK /\ HoldsOK /\ SeenOK /\ DeadOK
  BY DEF OwnedOK, HoldsOK, SeenOK, DeadOK, Scanning
<1>3. RowsOK /\ RowHasLease
  BY DEF RowsOK, RowHasLease
<1>4. GuardOK
  BY DEF GuardOK, Holding
<1>5. NeverReaped /\ HeadStays
  BY DEF NeverReaped, HeadStays, InLine, Waiting, Holding
<1> QED
  BY <1>1, <1>2, <1>3, <1>4, <1>5 DEF QueueInv

LEMMA StepKeeps == QueueInv /\ [Next]_vars => QueueInv'
<1> SUFFICES ASSUME QueueInv, [Next]_vars PROVE QueueInv'
  OBVIOUS
<1>1. ASSUME NEW c \in Client, Start(c) PROVE QueueInv'
  BY <1>1, StartKeeps
<1>2. ASSUME NEW c \in Client, Insert(c) PROVE QueueInv'
  BY <1>2, InsertKeeps
<1>3. ASSUME NEW c \in Client, InsertBusy(c) PROVE QueueInv'
  BY <1>3, InsertBusyKeeps
<1>4. ASSUME NEW c \in Client, Look(c) PROVE QueueInv'
  BY <1>4, LookKeeps
<1>5. ASSUME NEW c \in Client, Exists(c) PROVE QueueInv'
  BY <1>5, ExistsKeeps
<1>6. ASSUME NEW c \in Client, Probe(c) PROVE QueueInv'
  BY <1>6, ProbeKeeps
<1>7. ASSUME NEW c \in Client, Rollback(c) PROVE QueueInv'
  BY <1>7, RollbackKeeps
<1>8. ASSUME NEW c \in Client, Reap(c) PROVE QueueInv'
  BY <1>8, ReapKeeps
<1>9. ASSUME NEW c \in Client, PollBusy(c) PROVE QueueInv'
  BY <1>9, PollBusyKeeps
<1>10. ASSUME NEW c \in Client, Unlink(c) PROVE QueueInv'
  BY <1>10, UnlinkKeeps
<1>11. ASSUME NEW c \in Client, TakeGuard(c) PROVE QueueInv'
  BY <1>11, TakeGuardKeeps
<1>12. ASSUME NEW c \in Client, Poll(c) PROVE QueueInv'
  BY <1>12, PollKeeps
<1>13. ASSUME NEW c \in Client, TimeOut(c) PROVE QueueInv'
  BY <1>13, TimeOutKeeps
<1>14. ASSUME NEW c \in Client, Begin(c) PROVE QueueInv'
  BY <1>14, BeginKeeps
<1>15. ASSUME NEW c \in Client, IndexTimeOut(c) PROVE QueueInv'
  BY <1>15, IndexTimeOutKeeps
<1>16. ASSUME NEW c \in Client, End(c) PROVE QueueInv'
  BY <1>16, EndKeeps
<1>17. ASSUME NEW c \in Client, CloseRow(c) PROVE QueueInv'
  BY <1>17, CloseRowKeeps
<1>18. ASSUME NEW c \in Client, CloseBusy(c) PROVE QueueInv'
  BY <1>18, CloseBusyKeeps
<1>19. ASSUME NEW c \in Client, CloseLease(c) PROVE QueueInv'
  BY <1>19, CloseLeaseKeeps
<1>20. ASSUME NEW c \in Client, CloseFile(c) PROVE QueueInv'
  BY <1>20, CloseFileKeeps
<1>21. ASSUME NEW c \in Client, Crash(c) PROVE QueueInv'
  BY <1>21, CrashKeeps
<1>22. ASSUME NEW o \in Old, OldTakes(o) PROVE QueueInv'
  BY <1>22, OldTakesKeeps
<1>23. ASSUME NEW o \in Old, OldEnds(o) PROVE QueueInv'
  BY <1>23, OldEndsKeeps
<1>24. CASE NativeTakes
  BY <1>24, NativeTakesKeeps
<1>25. CASE NativeEnds
  BY <1>25, NativeEndsKeeps
<1>26. CASE UNCHANGED vars
  BY <1>26 DEF QueueInv, TypeOK, OwnedOK, RowsOK, HoldsOK, SeenOK, DeadOK, GuardOK, RowHasLease,
       NeverReaped, HeadStays, Head, vars, queue, bounds
<1> QED
  BY <1>1, <1>2, <1>3, <1>4, <1>5, <1>6, <1>7, <1>8, <1>9, <1>10, <1>11, <1>12, <1>13, <1>14, <1>15, <1>16, <1>17, <1>18, <1>19, <1>20, <1>21, <1>22, <1>23, <1>24, <1>25, <1>26 DEF Next, Progress

(* The queue's invariant holds for any number of callers, deaths and busy   *)
(* answers: types, ownership and the three properties of the run.           *)
THEOREM QueueInvariant == Spec => []QueueInv
<1>1. Init => QueueInv
  BY InitHolds
<1>2. QueueInv /\ [Next]_vars => QueueInv'
  BY StepKeeps
<1> QED
  BY <1>1, <1>2, PTL DEF Spec

(* No caller of this store ever meets a row without its lease file, which   *)
(* ticketIsAlive could only answer by throwing.                             *)
THEOREM RowsHaveLeases == Spec => []RowHasLease
<1>1. QueueInv => RowHasLease
  BY DEF QueueInv
<1> QED
  BY <1>1, QueueInvariant, PTL

(* However reapers and closing owners interleave, a caller in line keeps    *)
(* its row and its locked lease.                                            *)
THEOREM LiveTicketsAreKept == Spec => []NeverReaped
<1>1. QueueInv => NeverReaped
  BY DEF QueueInv
<1> QED
  BY <1>1, QueueInvariant, PTL

(* Admission alone keeps all but one caller out of the transaction.         *)
THEOREM AdmittedIsHead == Spec => []HeadStays
<1>1. QueueInv => HeadStays
  BY DEF QueueInv
<1> QED
  BY <1>1, QueueInvariant, PTL

(* Two callers are never in a transaction of the same store together, even  *)
(* if the guard were not there to stop the second.                          *)
THEOREM OneWriter ==
  ASSUME QueueInv, NEW c \in Client, NEW d \in Client,
         pc[c] \in {"guard"} \cup Holding, pc[d] \in {"guard"} \cup Holding
  PROVE  c = d
<1>0. pc[c] # "idle" /\ pc[d] # "idle"
  BY DEF Holding
<1>1. tok[c] \in Token /\ tok[d] \in Token /\ tok[c] # Nobody
  BY <1>0, ConstantsOK DEF QueueInv, TypeOK, OwnedOK
<1>2. row[tok[c]] \in Nat /\ row[tok[d]] \in Nat
  BY <1>1 DEF QueueInv, TypeOK
<1>5. Head(tok[c]) /\ Head(tok[d])
  BY DEF QueueInv, HeadStays
<1>3. row[tok[c]] = row[tok[d]] /\ row[tok[c]] # 0
  BY <1>1, <1>2, <1>5 DEF Head
<1>4. tok[c] = tok[d]
  BY <1>1, <1>3 DEF QueueInv, RowsOK
<1> QED
  BY <1>1, <1>4 DEF QueueInv, OwnedOK

-----------------------------------------------------------------------------
(* The queue implements the fair line of FairLine.                          *)
PlaceOf == [t \in Token |->
              IF \E c \in Client : tok[c] = t /\ pc[c] \in InLine THEN row[t] ELSE 0]
OwnerOf == IF guard \in Client THEN tok[guard] ELSE guard

LEMMA PlaceOfCaller ==
  ASSUME QueueInv, NEW c \in Client, tok[c] \in Token
  PROVE  PlaceOf[tok[c]] = IF pc[c] \in InLine THEN row[tok[c]] ELSE 0
  BY ConstantsOK DEF QueueInv, OwnedOK, PlaceOf

(* Steps that move no ticket in or out of line and leave the guard. *)
LEMMA Stutters ==
  ASSUME QueueInv, QueueInv', NEW c \in Client,
         pc[c] \in InLine <=> pc'[c] \in InLine,
         pc[c] \in InLine => tok'[c] = tok[c],
         \A d \in Client : d # c => pc'[d] = pc[d] /\ tok'[d] = tok[d],
         \A d \in Client : pc[d] \in InLine => row'[tok[d]] = row[tok[d]],
         guard' = guard, pc[c] \notin Holding
  PROVE  PlaceOf' = PlaceOf /\ OwnerOf' = OwnerOf
<1>1. \A d \in Client : (pc[d] \in InLine <=> pc'[d] \in InLine) /\ (pc[d] \in InLine => tok'[d] = tok[d])
  OBVIOUS
<1>2. PlaceOf' = PlaceOf
  BY <1>1 DEF PlaceOf
<1>3. OwnerOf' = OwnerOf
  BY DEF OwnerOf, QueueInv, GuardOK
<1> QED
  BY <1>2, <1>3

(* A caller that goes out of line takes its place, and the guard if it had  *)
(* it, with it.                                                             *)
LEMMA GoesOut ==
  ASSUME QueueInv, QueueInv', NEW c \in Client,
         pc[c] \in InLine, pc'[c] \notin InLine,
         \A d \in Client : d # c => pc'[d] = pc[d] /\ tok'[d] = tok[d],
         row' = row,
         guard' = IF guard = c THEN Nobody ELSE guard
  PROVE  Line!Leave(tok[c])
<1>1. tok[c] \in Token /\ tok[c] # Nobody
  BY ConstantsOK DEF QueueInv, TypeOK, OwnedOK, InLine, Waiting, Holding
<1>2. \A t \in Token : PlaceOf'[t] = IF t = tok[c] THEN 0 ELSE PlaceOf[t]
  BY <1>1 DEF PlaceOf, QueueInv, OwnedOK
<1>3. PlaceOf' = [PlaceOf EXCEPT ![tok[c]] = 0]
  BY <1>2 DEF PlaceOf
<1>4. OwnerOf' = IF OwnerOf = tok[c] THEN Nobody ELSE OwnerOf
  BY <1>1, ConstantsOK DEF OwnerOf, QueueInv, OwnedOK, TypeOK
<1> QED
  BY <1>3, <1>4 DEF Line!Leave, PlaceOf, OwnerOf

LEMMA Joins ==
  ASSUME QueueInv, QueueInv', NEW c \in Client, Insert(c)
  PROVE  Line!Join(tok[c])
<1> USE DEF Insert, Go
<1>1. tok[c] \in Token /\ tok[c] # Nobody
  BY ConstantsOK DEF QueueInv, TypeOK, OwnedOK
<1>2. /\ pc'[c] = "look" /\ row'[tok[c]] = nextId /\ \A t \in Token : t # tok[c] => row'[t] = row[t]
      /\ \A d \in Client : d # c => pc'[d] = pc[d]
      /\ tok' = tok
  BY <1>1 DEF QueueInv, TypeOK
<1>3. pc[c] \notin InLine /\ pc'[c] \in InLine
  BY <1>2 DEF InLine, Waiting, Holding
<1>4. PlaceOf[tok[c]] = 0
  BY <1>1, <1>3, PlaceOfCaller
<1>5. \A t \in Token : PlaceOf'[t] = IF t = tok[c] THEN nextId ELSE PlaceOf[t]
  BY <1>1, <1>2, <1>3 DEF PlaceOf, QueueInv, OwnedOK
<1>6. \A t \in Token : PlaceOf[t] < nextId
  BY DEF PlaceOf, QueueInv, RowsOK, TypeOK
<1>7. OwnerOf' = OwnerOf
  BY <1>2 DEF OwnerOf
<1>10. PlaceOf = [t \in Token |-> PlaceOf[t]] /\ PlaceOf' = [t \in Token |-> PlaceOf'[t]]
  BY DEF PlaceOf
<1>9. PlaceOf' = [PlaceOf EXCEPT ![tok[c]] = nextId]
  BY <1>1, <1>5, <1>10
<1>8. PlaceOf' = [PlaceOf EXCEPT ![tok[c]] = PlaceOf'[tok[c]]]
  BY <1>1, <1>5, <1>9
<1> QED
  BY <1>1, <1>4, <1>5, <1>6, <1>7, <1>8 DEF Line!Join, PlaceOf, OwnerOf

LEMMA Enters ==
  ASSUME QueueInv, QueueInv', NEW c \in Client, TakeGuard(c), guard = Nobody
  PROVE  Line!Enter(tok[c])
<1> USE DEF TakeGuard, queue
<1>1. tok[c] \in Token /\ pc[c] \in InLine /\ Head(tok[c])
  BY ConstantsOK DEF QueueInv, TypeOK, OwnedOK, InLine, Waiting, HeadStays
<1>2. PlaceOf[tok[c]] = row[tok[c]]
  BY <1>1, PlaceOfCaller
<1>3. \A u \in Token : PlaceOf[u] = 0 \/ PlaceOf[tok[c]] <= PlaceOf[u]
  BY <1>1, <1>2 DEF Head, PlaceOf
<1>4. PlaceOf[tok[c]] # 0
  BY <1>1, <1>2 DEF Head
<1>5. \A d \in Client : pc'[d] \in InLine <=> pc[d] \in InLine
  BY <1>1 DEF QueueInv, TypeOK, InLine, Holding
<1>6. PlaceOf' = PlaceOf
  BY <1>5 DEF PlaceOf
<1>7. OwnerOf = Nobody /\ OwnerOf' = tok[c]
  BY ConstantsOK DEF OwnerOf
<1> QED
  BY <1>3, <1>4, <1>6, <1>7 DEF Line!Enter, Line!First, PlaceOf, OwnerOf

(* Waiting steps of one caller leave the line as it is ... *)
LEMMA WaitingStutters ==
  ASSUME QueueInv, QueueInv', NEW c \in Client,
         Look(c) \/ Exists(c) \/ Probe(c) \/ Rollback(c) \/ Reap(c) \/ PollBusy(c)
           \/ Unlink(c) \/ Poll(c) \/ (TakeGuard(c) /\ guard # Nobody),
         pc'[c] \in InLine
  PROVE  PlaceOf' = PlaceOf /\ OwnerOf' = OwnerOf
<1> USE DEF Look, look, Exists, Gone, Probe, probe, Rollback, Reap, PollBusy, Unlink, Poll, poll, TakeGuard, Go
<1>1. pc[c] \in Waiting
  BY DEF Waiting
<1>2. /\ \A d \in Client : d # c => pc'[d] = pc[d]
      /\ tok' = tok /\ guard' = guard
  BY DEF QueueInv, TypeOK
<1>3. \A d \in Client : pc[d] \in InLine => row'[tok[d]] = row[tok[d]]
  <2>1. CASE Reap(c)
    BY <2>1 DEF QueueInv, TypeOK, DeadOK
  <2>2. CASE ~Reap(c)
    BY <2>2 DEF queue
  <2> QED
    BY <2>1, <2>2
<1> QED
  BY <1>1, <1>2, <1>3, Stutters DEF InLine, Waiting, Holding

(* ... and so do the steps of one that has left, or has not registered. *)
LEMMA OutsideStutters ==
  ASSUME QueueInv, QueueInv', NEW c \in Client, pc[c] \notin InLine, pc'[c] \notin InLine,
         \A d \in Client : d # c => pc'[d] = pc[d] /\ tok'[d] = tok[d],
         \A t \in Token : row'[t] = row[t] \/ t = tok[c], guard' = guard
  PROVE  PlaceOf' = PlaceOf /\ OwnerOf' = OwnerOf
<1>1. \A d \in Client : pc[d] \in InLine => row'[tok[d]] = row[tok[d]]
  BY ConstantsOK DEF QueueInv, TypeOK, OwnedOK, InLine, Waiting, Holding
<1>2. pc[c] \notin Holding
  BY DEF InLine
<1> QED
  BY <1>1, <1>2, Stutters

LEMMA BeginStutters ==
  ASSUME QueueInv, QueueInv', NEW c \in Client, Begin(c)
  PROVE  PlaceOf' = PlaceOf /\ OwnerOf' = OwnerOf
<1>1. \A d \in Client : pc'[d] \in InLine <=> pc[d] \in InLine
  BY DEF Begin, Go, QueueInv, TypeOK, InLine, Holding
<1>2. row' = row /\ tok' = tok /\ guard' = guard
  BY DEF Begin, queue
<1> QED
  BY <1>1, <1>2 DEF PlaceOf, OwnerOf

(* What a caller out of the line does leaves the line as it is. *)
LEMMA Unlined ==
  ASSUME QueueInv, QueueInv', NEW c \in Client,
         Start(c) \/ InsertBusy(c) \/ CloseRow(c) \/ CloseBusy(c) \/ CloseLease(c) \/ CloseFile(c)
  PROVE  PlaceOf' = PlaceOf /\ OwnerOf' = OwnerOf
<1> USE DEF Start, InsertBusy, CloseRow, CloseBusy, CloseLease, closeLease, CloseFile, Go
<1>1. pc[c] \notin InLine /\ pc'[c] \notin InLine
  BY DEF QueueInv, TypeOK, InLine, Waiting, Holding
<1>2. \A d \in Client : d # c => pc'[d] = pc[d] /\ tok'[d] = tok[d]
  BY DEF QueueInv, TypeOK
<1>3. (\A t \in Token : row'[t] = row[t] \/ t = tok[c]) /\ guard' = guard
  BY DEF QueueInv, TypeOK, queue
<1> QED
  BY <1>1, <1>2, <1>3, OutsideStutters

(* A caller that gives up, ends its command or throws leaves the line. *)
LEMMA GivesUp ==
  ASSUME QueueInv, QueueInv', NEW c \in Client, pc'[c] \notin InLine,
         Look(c) \/ Exists(c) \/ Probe(c) \/ TimeOut(c) \/ IndexTimeOut(c) \/ End(c)
  PROVE  Line!Leave(tok[c])
<1> USE DEF Look, look, Exists, Gone, Probe, probe, TimeOut, IndexTimeOut, End, Go
<1>1. pc[c] \in InLine
  BY DEF InLine, Waiting, Holding
<1>2. (\A d \in Client : d # c => pc'[d] = pc[d]) /\ tok' = tok /\ row' = row
  BY DEF QueueInv, TypeOK, queue
<1>3. guard' = IF guard = c THEN Nobody ELSE guard
  BY DEF QueueInv, GuardOK, Holding
<1> QED
  BY <1>1, <1>2, <1>3, GoesOut

LEMMA CrashLeaves ==
  ASSUME QueueInv, QueueInv', NEW c \in Client, Crash(c)
  PROVE  Line!Leave(tok[c]) \/ (PlaceOf' = PlaceOf /\ OwnerOf' = OwnerOf)
<1>1. /\ pc'[c] \notin InLine /\ row' = row
      /\ \A d \in Client : d # c => pc'[d] = pc[d] /\ tok'[d] = tok[d]
      /\ guard' = IF guard = c THEN Nobody ELSE guard
  BY DEF Crash, QueueInv, TypeOK, InLine, Waiting, Holding
<1>2. CASE pc[c] \in InLine
  BY <1>1, <1>2, GoesOut
<1>3. CASE pc[c] \notin InLine
  <2>1. guard' = guard
    BY <1>1, <1>3 DEF QueueInv, GuardOK, InLine
  <2> QED
    BY <1>1, <1>3, <2>1, OutsideStutters
<1> QED
  BY <1>2, <1>3

LEMMA LineStep ==
  ASSUME QueueInv, QueueInv', [Next]_vars
  PROVE  [Line!Next]_(Line!vars)
<1>1. ASSUME PlaceOf' = PlaceOf, OwnerOf' = OwnerOf PROVE UNCHANGED Line!vars
  BY <1>1 DEF Line!vars, PlaceOf, OwnerOf
<1>2. ASSUME NEW c \in Client, tok[c] \in Token, Line!Join(tok[c]) \/ Line!Enter(tok[c]) \/ Line!Leave(tok[c])
      PROVE  Line!Next
  <2>1. PICK t \in Token : t = tok[c]
    BY <1>2
  <2>2. Line!Join(t) \/ Line!Enter(t) \/ Line!Leave(t)
    BY <1>2, <2>1 DEF Line!Join, Line!Enter, Line!First, Line!Leave
  <2> QED
    BY <2>2 DEF Line!Next
<1>3. ASSUME NEW c \in Client, pc[c] # "idle" PROVE tok[c] \in Token
  BY <1>3, ConstantsOK DEF QueueInv, TypeOK, OwnedOK
<1>4. ASSUME NEW c \in Client,
             Start(c) \/ InsertBusy(c) \/ CloseRow(c) \/ CloseBusy(c) \/ CloseLease(c) \/ CloseFile(c)
      PROVE  UNCHANGED Line!vars
  BY <1>1, <1>4, Unlined
<1>5. ASSUME NEW c \in Client, Insert(c) PROVE Line!Next
  BY <1>2, <1>3, <1>5, Joins DEF Insert, Go
<1>6. ASSUME NEW c \in Client,
             Look(c) \/ Exists(c) \/ Probe(c) \/ Rollback(c) \/ Reap(c) \/ PollBusy(c)
               \/ Unlink(c) \/ Poll(c) \/ (TakeGuard(c) /\ guard # Nobody)
      PROVE  Line!Next \/ UNCHANGED Line!vars
  <2>1. CASE pc'[c] \in InLine
    BY <1>1, <1>6, <2>1, WaitingStutters
  <2>2. CASE pc'[c] \notin InLine
    <3>1. Look(c) \/ Exists(c) \/ Probe(c)
      BY <1>6, <2>2 DEF Rollback, Reap, PollBusy, Unlink, Poll, poll, TakeGuard, Go, QueueInv, TypeOK, InLine, Waiting
    <3>2. pc[c] # "idle"
      BY <3>1 DEF Look, look, Exists, Probe, probe
    <3> QED
      BY <1>2, <1>3, <2>2, <3>1, <3>2, GivesUp
  <2> QED
    BY <2>1, <2>2
<1>7. ASSUME NEW c \in Client, TakeGuard(c), guard = Nobody PROVE Line!Next
  BY <1>2, <1>3, <1>7, Enters DEF TakeGuard
<1>8. ASSUME NEW c \in Client, TimeOut(c) \/ IndexTimeOut(c) \/ End(c) PROVE Line!Next
  <2>1. pc'[c] \notin InLine /\ pc[c] # "idle"
    BY <1>8 DEF TimeOut, IndexTimeOut, End, Go, QueueInv, TypeOK, InLine, Waiting, Holding
  <2> QED
    BY <1>2, <1>3, <1>8, <2>1, GivesUp
<1>9. ASSUME NEW c \in Client, Begin(c) PROVE UNCHANGED Line!vars
  BY <1>1, <1>9, BeginStutters
<1>10. ASSUME NEW c \in Client, Crash(c) PROVE Line!Next \/ UNCHANGED Line!vars
  BY <1>1, <1>2, <1>3, <1>10, CrashLeaves DEF Crash
<1>11. ASSUME NEW o \in Old, OldTakes(o) \/ OldEnds(o) PROVE Line!Next
  <2>1. PlaceOf' = PlaceOf
    BY <1>11 DEF OldTakes, OldEnds, queue, PlaceOf
  <2>2. \/ OwnerOf = Nobody /\ OwnerOf' = o
        \/ OwnerOf = o /\ OwnerOf' = Nobody
    BY <1>11, ConstantsOK DEF OldTakes, OldEnds, OwnerOf
  <2> QED
    BY <2>1, <2>2 DEF Line!Next, Line!Outside, Line!OutsideEnds, PlaceOf, OwnerOf
<1>12. ASSUME NativeTakes \/ NativeEnds \/ UNCHANGED vars PROVE UNCHANGED Line!vars
  BY <1>12 DEF NativeTakes, NativeEnds, vars, queue, Line!vars
<1> QED
  BY <1>4, <1>5, <1>6, <1>7, <1>8, <1>9, <1>10, <1>11, <1>12 DEF Next, Progress

(* The lease files, rows, probes and reaps together are a first-come first- *)
(* served line with one writer, whoever dies or gives up on the way.        *)
THEOREM QueueImplementsLine == Spec => QueueIsFair
<1>1. Init => Line!Init
  BY ConstantsOK DEF Init, Line!Init
<1>2. QueueInv /\ QueueInv' /\ [Next]_vars => [Line!Next]_(Line!vars)
  BY LineStep
<1> QED
  BY <1>1, <1>2, QueueInvariant, PTL DEF Spec, QueueIsFair, Line!Spec

=============================================================================
