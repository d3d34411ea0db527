---------------------------- MODULE MCTaskSlots ----------------------------
(* Small instances of TaskSlots: two tasks of one repository, or a task in *)
(* each of two repositories.                                               *)
EXTENDS TaskSlots, TLC

CONSTANTS t1, t2, r1, r2

TwoTasks == {t1, t2}
OneRepo  == {r1}
SameRepo == [t \in TwoTasks |-> r1]
TwoRepos == {r1, r2}
OwnRepos == [t \in TwoTasks |-> IF t = t1 THEN r1 ELSE r2]
Anyone   == Permutations(TwoTasks)
OneTask  == {t1}
JustR1   == [t \in OneTask |-> r1]
=============================================================================
