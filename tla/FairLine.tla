------------------------------ MODULE FairLine ------------------------------
(***************************************************************************)
(* What the Git writer queue promises (git-transaction.cjs:1-2, 34-37):    *)
(* one writer at a time per object store, older clients included, and the  *)
(* waiting processes get in by the order they registered.  Whoever is in   *)
(* line may give up or die at any moment and never holds the others back.  *)
(***************************************************************************)
EXTENDS Naturals

CONSTANTS Ticket, Outsider, Nobody

VARIABLES place,  \* 0 for a ticket that is not in line
          owner   \* the ticket or outsider that writes, or Nobody

vars == <<place, owner>>

Init == place = [t \in Ticket |-> 0] /\ owner = Nobody

Join(t) ==
  /\ place[t] = 0
  /\ place' = [place EXCEPT ![t] = place'[t]]
  /\ \A u \in Ticket : place[u] < place'[t]
  /\ UNCHANGED owner

First(t) == place[t] # 0 /\ \A u \in Ticket : place[u] = 0 \/ place[t] <= place[u]

Enter(t) == owner = Nobody /\ First(t) /\ owner' = t /\ UNCHANGED place

Leave(t) ==
  /\ place' = [place EXCEPT ![t] = 0]
  /\ owner' = IF owner = t THEN Nobody ELSE owner

Outside(o) == owner = Nobody /\ owner' = o /\ UNCHANGED place

OutsideEnds(o) == owner = o /\ owner' = Nobody /\ UNCHANGED place

Next ==
  \/ \E t \in Ticket : Join(t) \/ Enter(t) \/ Leave(t)
  \/ \E o \in Outsider : Outside(o) \/ OutsideEnds(o)

Spec == Init /\ [][Next]_vars
=============================================================================
