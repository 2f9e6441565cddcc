--------------------------- MODULE MCStockTransactions ---------------------------
(* Two carts that share two products in different amounts, and a sweeper. *)
EXTENDS StockTransactions, TLC
CONSTANTS o1, o2, p1, p2, s1, r1

MCDemand == (o1 :> (p1 :> 1 @@ p2 :> 1)) @@ (o2 :> (p1 :> 1 @@ p2 :> 2))
MCInitialStock == p1 :> 1 @@ p2 :> 2
MCReturnItems == [ret \in Returns |-> p1 :> 1 @@ p2 :> 0]
MCRank == p1 :> 1 @@ p2 :> 2
MCDeltas == {-1}
=============================================================================
