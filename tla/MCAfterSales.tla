----------------------------- MODULE MCAfterSales -----------------------------
(* One delivered order of two lines, paid through a PSP. *)
EXTENDS AfterSales
MCBought == [i \in Items |-> 1]
MCOrders == {[channel |-> "web", status |-> "delivered", paidDay |-> {0},
              deliveredDay |-> {0}, split |-> FALSE, psp |-> TRUE]}
=============================================================================
