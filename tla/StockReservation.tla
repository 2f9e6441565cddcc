---------------------------- MODULE StockReservation ----------------------------
(***************************************************************************)
(* catalog-service: the sellable balance of every product and the          *)
(* reservations that hold part of it, one action per database transaction. *)
(* StockTransactions splits each transaction into its SQL statements and   *)
(* implements this module; CheckoutSaga composes it with the orders.       *)
(*                                                                         *)
(* `products.stock` means "available for sale": a reservation takes its    *)
(* units off the balance at once, and settling it either keeps them off    *)
(* for good (committed) or gives them back (released).                     *)
(***************************************************************************)
EXTENDS Integers, FiniteSets

CONSTANTS
    Products,
    Orders,
    Attempts,       \* the Reserve requests an order may send (MaxAttempts of the retry policy)
    Demand,         \* units of a product in an order's cart, as dedupeItems sums them
    MaxQuantity,    \* the largest quantity of a cart
    InitialStock,
    Returns,        \* customer returns that may be restocked
    ReturnItems,    \* units of a product in a return
    BatchSize,      \* LIMIT of one sweep
    Deltas,         \* adjustments a stock keeper may post
    MaxReceived     \* bound: units of a product that ever enter the books

ASSUME CatalogAssumption ==
    /\ IsFiniteSet(Products) /\ IsFiniteSet(Orders) /\ IsFiniteSet(Attempts)
    /\ MaxQuantity \in Nat
    /\ Demand \in [Orders -> [Products -> 0..MaxQuantity]]
    /\ InitialStock \in [Products -> Nat]
    /\ ReturnItems \in [Returns -> [Products -> Nat]]
    /\ BatchSize \in Nat
    /\ Deltas \subseteq Int
    /\ MaxReceived \in Nat

VARIABLES
    stock,        \* products.stock
    reservation,  \* stock_reservations.status of every row, "absent" before its INSERT
    served,       \* the <<order, attempt>> whose Reserve committed
    lapsed,       \* those among them whose expires_at has passed
    restocked,    \* stock_restocks: the returns already put back
    received      \* history: units of a product that ever entered the books

vars == <<stock, reservation, served, lapsed, restocked, received>>

-----------------------------------------------------------------------------
\* A row of stock_reservations: the order, the product and the request that inserted it.
Rows == Orders \X Products \X Attempts
Statuses == {"absent", "active", "committed", "released"}

Needed(o) == {p \in Products : Demand[o][p] > 0}
Quantity(r) == Demand[r[1]][r[2]]
ActiveRows(o) == {r \in Rows : r[1] = o /\ reservation[r] = "active"}
HasActiveRow(o, p) == \E a \in Attempts : reservation[<<o, p, a>>] = "active"

\* The units of product p that the rows of S hold, one element per unit.
UnitsOf(S, p) ==
    {u \in S \X (1..MaxQuantity) : u[1][2] = p /\ u[2] <= Quantity(u[1])}
UnitCount(S, p) == Cardinality(UnitsOf(S, p))

\* Rows whose units are off the balance: held for a customer or sold for good.
Outstanding == {r \in Rows : reservation[r] \in {"active", "committed"}}
LapsedRows == {r \in Rows : reservation[r] = "active" /\ <<r[1], r[3]>> \in lapsed}

-----------------------------------------------------------------------------
Init ==
    /\ stock = InitialStock
    /\ reservation = [r \in Rows |-> "absent"]
    /\ served = {}
    /\ lapsed = {}
    /\ restocked = {}
    /\ received = InitialStock

\* Mutant: the UPDATE of reserveOne without stock >= $2.
ReserveUnchecked(o, a, kept) ==
    LET fresh == Needed(o) \ kept IN
    /\ <<o, a>> \notin served
    /\ \A p \in fresh : ~HasActiveRow(o, p)
    /\ reservation' = [r \in Rows |->
           IF r[1] = o /\ r[3] = a /\ r[2] \in fresh THEN "active" ELSE reservation[r]]
    /\ stock' = [p \in Products |->
           IF p \in fresh THEN stock[p] - Demand[o][p] ELSE stock[p]]
    /\ served' = served \cup {<<o, a>>}
    /\ UNCHANGED <<lapsed, restocked, received>>

\* All or nothing. `kept` are the products whose row the request found already active:
\* reserveOne skips them. The row was active when it was read, not necessarily at the
\* commit, since nothing locks it in between.
Reserve(o, a, kept) ==
    LET fresh == Needed(o) \ kept IN
    /\ <<o, a>> \notin served
    /\ \A p \in kept : \E b \in Attempts : reservation[<<o, p, b>>] # "absent"
    /\ \A p \in fresh : stock[p] >= Demand[o][p] /\ ~HasActiveRow(o, p)
    /\ reservation' = [r \in Rows |->
           IF r[1] = o /\ r[3] = a /\ r[2] \in fresh THEN "active" ELSE reservation[r]]
    /\ stock' = [p \in Products |->
           IF p \in fresh THEN stock[p] - Demand[o][p] ELSE stock[p]]
    /\ served' = served \cup {<<o, a>>}
    /\ UNCHANGED <<lapsed, restocked, received>>

\* Mutant: settle gives the units back whatever the new status.
SettleGivesBackAlways(S, newStatus) ==
    /\ reservation' = [r \in Rows |-> IF r \in S THEN newStatus ELSE reservation[r]]
    /\ stock' = [p \in Products |-> stock[p] + UnitCount(S, p)]
    /\ UNCHANGED <<served, lapsed, restocked, received>>

\* The rows of S leave "active"; their units go back to the balance when released.
SettleRows(S, newStatus) ==
    /\ reservation' = [r \in Rows |-> IF r \in S THEN newStatus ELSE reservation[r]]
    /\ stock' = IF newStatus = "released"
                THEN [p \in Products |-> stock[p] + UnitCount(S, p)]
                ELSE stock
    /\ UNCHANGED <<served, lapsed, restocked, received>>

\* POST /reservations/:orderId/commit and /release settle the rows that the UPDATE found
\* active; a row that a late Reserve of the order commits meanwhile is not among them.
\* An order without active rows answers 200 and changes nothing.
Commit(o, found) == found \subseteq ActiveRows(o) /\ SettleRows(found, "committed")
Release(o, found) == found \subseteq ActiveRows(o) /\ SettleRows(found, "released")

\* Mutant: a sweeper that waits until its batch is full.
SweepFullBatch(S) ==
    /\ S \subseteq LapsedRows /\ Cardinality(S) = BatchSize
    /\ SettleRows(S, "released")

Sweep(S) ==
    /\ S # {} /\ S \subseteq LapsedRows /\ Cardinality(S) <= BatchSize
    /\ SettleRows(S, "released")

\* The clock passes the expires_at of one Reserve.
Lapse(o, a) ==
    /\ <<o, a>> \in served \ lapsed
    /\ lapsed' = lapsed \cup {<<o, a>>}
    /\ UNCHANGED <<stock, reservation, served, restocked, received>>

\* The goods of a customer return, put back once per returnId.
Restock(ret) ==
    /\ ret \notin restocked
    /\ restocked' = restocked \cup {ret}
    /\ stock' = [p \in Products |-> stock[p] + ReturnItems[ret][p]]
    /\ received' = [p \in Products |-> received[p] + ReturnItems[ret][p]]
    /\ UNCHANGED <<reservation, served, lapsed>>

\* A relative adjustment by the stock keeper: never below zero.
Adjust(p, delta) ==
    /\ delta # 0
    /\ stock[p] + delta >= 0
    /\ received[p] + delta <= MaxReceived
    /\ stock' = [stock EXCEPT ![p] = @ + delta]
    /\ received' = [received EXCEPT ![p] = @ + delta]
    /\ UNCHANGED <<reservation, served, lapsed, restocked>>

Next ==
    \/ \E o \in Orders, a \in Attempts : \E kept \in SUBSET Needed(o) : Reserve(o, a, kept)
    \/ \E o \in Orders : \E found \in SUBSET ActiveRows(o) : Commit(o, found) \/ Release(o, found)
    \/ \E S \in SUBSET LapsedRows : Sweep(S)
    \/ \E o \in Orders, a \in Attempts : Lapse(o, a)
    \/ \E ret \in Returns : Restock(ret)
    \/ \E p \in Products, delta \in Deltas : Adjust(p, delta)

Spec == Init /\ [][Next]_vars

-----------------------------------------------------------------------------
TypeOK ==
    /\ stock \in [Products -> Nat]
    /\ reservation \in [Rows -> Statuses]
    /\ served \subseteq Orders \X Attempts
    /\ lapsed \subseteq served
    /\ restocked \subseteq Returns
    /\ received \in [Products -> Int]

\* No unit is created or lost: what is for sale plus what reservations hold or sold is
\* exactly what entered the books, whatever Reserve, Commit, Release, Sweep, Restock and
\* Adjust did (reservation.go, sweeper.go, restock.go, stock.go).
Conservation ==
    \A p \in Products : stock[p] + UnitCount(Outstanding, p) = received[p]

\* The store never holds or sells more units of a product than it has received: what
\* TestReserve_ConcurrentNeverOversells samples with goroutines.
NeverOversold ==
    \A p \in Products : UnitCount(Outstanding, p) <= received[p]

\* An order holds a product at most once however often Reserve is retried
\* (idx_stock_reservations_active).
OneActiveRow ==
    \A o \in Orders, p \in Products, a, b \in Attempts :
        (reservation[<<o, p, a>>] = "active" /\ reservation[<<o, p, b>>] = "active") => a = b

\* A settled row is final: neither a repeated settle nor the sweeper moves it again, which
\* is what keeps units from being given back twice.
SettledIsFinal ==
    [][\A r \in Rows : reservation[r] \in {"committed", "released"}
                         => reservation'[r] = reservation[r]]_vars
=============================================================================
