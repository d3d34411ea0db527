----------------------------- MODULE ReceiptLife -----------------------------
(***************************************************************************)
(* What a read receipt promises its owner (injectionReceipts.ts:8-21): it  *)
(* climbs one earned step at a time, it claims delivery only of words a    *)
(* model has provably taken, and it never falls below what it has proved.  *)
(***************************************************************************)
CONSTANT Receipt

VARIABLES status,  \* what the owner sees
          taken    \* receipts whose instruction a model has taken

Status == {"none", "pending", "sent", "delivered", "read", "failed"}

Rises == {<<"none", "pending">>, <<"none", "sent">>, <<"none", "delivered">>,
          <<"none", "failed">>, <<"pending", "sent">>, <<"sent", "delivered">>,
          <<"delivered", "read">>, <<"pending", "failed">>, <<"sent", "failed">>}

Retreat == <<"sent", "pending">>

Init == status = [r \in Receipt |-> "none"] /\ taken = {}

Next ==
  /\ taken \subseteq taken'
  /\ status' \in [Receipt -> Status]
  /\ \A r \in Receipt :
       /\ status'[r] = status[r] \/ <<status[r], status'[r]>> \in Rises \cup {Retreat}
       /\ status[r] # "delivered" /\ status'[r] = "delivered" => r \in taken'

Spec == Init /\ [][Next]_<<status, taken>>
=============================================================================
