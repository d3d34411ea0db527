-------------------------- MODULE MCReviewInjections --------------------------
(* The instances TLC checks. *)
EXTENDS ReviewInjections

CONSTANTS a, i, j

OneAppend == {a}
OneInterrupt == {i}
TwoInterrupts == {i, j}
Runs == 1..6
Resumers == 1..2
=============================================================================
