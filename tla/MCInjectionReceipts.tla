------------------------- MODULE MCInjectionReceipts -------------------------
(* The same words injected twice, and two implementor runs, so a resend can *)
(* reach another run and one text can be taken for the other.              *)
EXTENDS InjectionReceipts, TLC

CONSTANTS a, b, o1, o2, g1, g2, w

Repeated == {a, b}
Injects  == {o1, o2}
Runs     == {g1, g2}
Text     == {w}
Sent     == a :> o1 @@ b :> o2
ToOne    == [r \in Repeated |-> "implementor"]
Roles    == [g \in Runs |-> "implementor"]
SameText == [o \in Injects |-> w]
SameRuns == Permutations(Runs)
=============================================================================
