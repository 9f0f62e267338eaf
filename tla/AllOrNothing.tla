---------------------------- MODULE AllOrNothing ----------------------------
(***************************************************************************)
(* What an all-or-nothing campaign promises its backers, without servers,  *)
(* rows or sweeps.  A backer's money is free, held on the card, charged or *)
(* released.  The campaign is judged once; holds are charged only after it *)
(* succeeded and are released only while it has not succeeded.             *)
(* Settlement.tla is shown to implement this specification.                *)
(***************************************************************************)
CONSTANT Pledges

VARIABLES verdict, money

Verdicts == {"open", "success", "failure"}

Init == /\ verdict = "open"
        /\ money = [p \in Pledges |-> "free"]

(* A card is authorized: nothing is charged. *)
Hold(p) == /\ money[p] = "free"
           /\ money' = [money EXCEPT ![p] = "held"]
           /\ UNCHANGED verdict

(* The campaign is judged, once and for all. *)
Judge == /\ verdict = "open"
         /\ verdict' \in Verdicts \ {"open"}
         /\ UNCHANGED money

Charge(p) == /\ verdict = "success"
             /\ money[p] = "held"
             /\ money' = [money EXCEPT ![p] = "charged"]
             /\ UNCHANGED verdict

Release(p) == /\ verdict # "success"
              /\ money[p] = "held"
              /\ money' = [money EXCEPT ![p] = "released"]
              /\ UNCHANGED verdict

Next == Judge \/ \E p \in Pledges : Hold(p) \/ Charge(p) \/ Release(p)

Spec == Init /\ [][Next]_<<verdict, money>>
=============================================================================
