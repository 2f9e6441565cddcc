----------------------------- MODULE MCCheckoutSaga -----------------------------
(* Two orders that compete for the last unit; one of them is paid for. *)
EXTENDS CheckoutSaga, TLC
CONSTANTS o1, o2, p1, y1

MCDemand == [o \in Orders |-> p1 :> 1]
MCStock == p1 :> 1
MCReturnItems == <<>>
MCOneOrder == [y \in Payments |-> o1]
=============================================================================
