---------------------------- MODULE ExactlyOnce ----------------------------
(***************************************************************************)
(* What a caller of the order manager is promised, with no manager, no     *)
(* retry, no lost reply and no restart in sight: an order identified by a  *)
(* client_order_id is executed at most once, and whoever is told of a fill *)
(* is told of that one execution (order_manager.py, "Key Guarantees").     *)
(***************************************************************************)
CONSTANT Ids    \* client order ids

VARIABLES
    ledger,     \* ledger[i]: the executions of i
    told        \* told[i]: the executions callers were told i is filled by

vars == <<ledger, told>>

Init == /\ ledger = [i \in Ids |-> {}]
        /\ told = [i \in Ids |-> {}]

(* Any one execution: what identifies it is the implementation's business. *)
Execute(i) == /\ ledger[i] = {}
              /\ \E f \in ledger'[i] : ledger' = [ledger EXCEPT ![i] = {f}]
              /\ UNCHANGED told

Tell(i) == /\ ledger[i] # {}
           /\ told' = [told EXCEPT ![i] = ledger[i]]
           /\ UNCHANGED ledger

Next == \E i \in Ids : Execute(i) \/ Tell(i)

Spec == Init /\ [][Next]_vars
=============================================================================
