-------------------------- MODULE MCGitTransactions --------------------------
(* Two callers, one that waits for the index and one that does not, an     *)
(* older program, and a ticket more than callers, so one of them comes     *)
(* back after it died or left a row behind.                                *)
EXTENDS GitTransactions, TLC

CONSTANTS c1, c2, o1, t1, t2, t3

Callers == {c1, c2}
Server  == {c1}
Older   == {o1}
Tickets == {t1, t2, t3}
=============================================================================
