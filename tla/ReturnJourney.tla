------------------------------ MODULE ReturnJourney ------------------------------
(* What the store promises about a return, whatever the services do to keep    *)
(* the promise: the status of a return moves along the table of                *)
(* order-service/internal/returns/transition.go, its goods go back on the      *)
(* shelf at most once and only after they were inspected, and its refund is    *)
(* entered in the ledger at most once and only after it was decided.           *)
CONSTANT Returns

VARIABLES stage,   \* status of each return; "none" before it is opened
          shelved, \* returns whose goods were put back for sale
          booked   \* returns whose refund is in the ledger

journeyVars == <<stage, shelved, booked>>

ReturnStatuses == {"requested", "approved", "rejected", "in_transit",
                   "received", "refunded", "cancelled"}

(* The edges of the map `allowed`. *)
AllowedMoves ==
    {<<"requested", "approved">>, <<"requested", "rejected">>,
     <<"requested", "cancelled">>, <<"approved", "in_transit">>,
     <<"approved", "received">>, <<"approved", "cancelled">>,
     <<"in_transit", "received">>, <<"received", "refunded">>}

CanMove(from, to) == <<from, to>> \in AllowedMoves

Inspected == {r \in Returns : stage[r] \in {"received", "refunded"}}
Refunded == {r \in Returns : stage[r] = "refunded"}

JourneyInit == /\ stage = [r \in Returns |-> "none"]
               /\ shelved = {}
               /\ booked = {}

(* A return is born requested, or approved when the law leaves no choice. *)
Open(r) == /\ stage[r] = "none"
           /\ \E s \in {"requested", "approved"} : stage' = [stage EXCEPT ![r] = s]
           /\ UNCHANGED <<shelved, booked>>

Move(r) == /\ \E s \in ReturnStatuses : /\ CanMove(stage[r], s)
                                        /\ stage' = [stage EXCEPT ![r] = s]
           /\ UNCHANGED <<shelved, booked>>

Shelve(r) == /\ r \in Inspected \ shelved
             /\ shelved' = shelved \union {r}
             /\ UNCHANGED <<stage, booked>>

Book(r) == /\ r \in Refunded \ booked
           /\ booked' = booked \union {r}
           /\ UNCHANGED <<stage, shelved>>

JourneyNext == \E r \in Returns : Open(r) \/ Move(r) \/ Shelve(r) \/ Book(r)

JourneySpec == JourneyInit /\ [][JourneyNext]_journeyVars
=============================================================================
