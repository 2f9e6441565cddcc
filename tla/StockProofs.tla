------------------------------ MODULE StockProofs ------------------------------
(***************************************************************************)
(* The stock of catalog-service, for every set of products, orders and     *)
(* quantities.  Its books balance: type correctness, conservation of units *)
(* and the unique active row are inductive together.  And its SQL          *)
(* transactions, statement by statement, amount to the atomic steps of     *)
(* StockReservation for any carts and any number of transactions running   *)
(* at once; two Reserves never wait for one another in a cycle.            *)
(***************************************************************************)
EXTENDS StockTransactions, FiniteSetTheorems, WellFoundedInduction, TLAPS

-----------------------------------------------------------------------------
(* Counting units *)

\* A row is its order, its product and its request.
LEMMA RowParts ==
    ASSUME NEW r \in Rows
    PROVE  /\ r[1] \in Orders /\ r[2] \in Products /\ r[3] \in Attempts
           /\ r = <<r[1], r[2], r[3]>>
    BY DEF Rows

\* The quantity of a row is that of the cart it was inserted for.
LEMMA QuantityType ==
    ASSUME NEW r \in Rows
    PROVE  Quantity(r) \in 0..MaxQuantity
    BY RowParts, CatalogAssumption DEF Quantity

\* The table holds finitely many rows.
LEMMA RowsFinite == IsFiniteSet(Rows)
<1> DEFINE Pairs == (Orders \X Products) \X Attempts
           pair == [r \in Rows |-> <<<<r[1], r[2]>>, r[3]>>]
<1>1. IsFiniteSet(Orders \X Products)
    BY FS_Product, CatalogAssumption
<1>2. IsFiniteSet(Pairs)
    BY <1>1, FS_Product, CatalogAssumption
<1>3. pair \in [Rows -> Pairs]
    BY RowParts
<1>4. \A r, s \in Rows : pair[r] = pair[s] => r = s
    BY RowParts
<1>5. pair \in Injection(Rows, Pairs)
    BY <1>3, <1>4 DEF Injection, IsInjective
<1> QED
    BY <1>2, <1>5, FS_Injection

\* A product has finitely many units in any set of rows, so counting them makes sense.
LEMMA UnitsFinite ==
    ASSUME NEW S \in SUBSET Rows, NEW p
    PROVE  /\ IsFiniteSet(UnitsOf(S, p))
           /\ UnitCount(S, p) \in Nat
<1>1. IsFiniteSet(S)
    BY RowsFinite, FS_Subset
<1>2. IsFiniteSet(1..MaxQuantity)
    BY FS_Interval, CatalogAssumption
<1>3. IsFiniteSet(S \X (1..MaxQuantity))
    BY <1>1, <1>2, FS_Product
<1>4. UnitsOf(S, p) \in SUBSET (S \X (1..MaxQuantity))
    BY DEF UnitsOf
<1> QED
    BY <1>3, <1>4, FS_Subset, FS_CardinalityType DEF UnitCount

\* Sets of rows without a common row hold different units.
LEMMA UnitsAdd ==
    ASSUME NEW S \in SUBSET Rows, NEW T \in SUBSET Rows, S \cap T = {}, NEW p
    PROVE  UnitCount(S \cup T, p) = UnitCount(S, p) + UnitCount(T, p)
<1>1. UnitsOf(S \cup T, p) = UnitsOf(S, p) \cup UnitsOf(T, p)
    BY DEF UnitsOf
<1>2. UnitsOf(S, p) \cap UnitsOf(T, p) = {}
    BY DEF UnitsOf
<1>3. Cardinality(UnitsOf(S, p) \cap UnitsOf(T, p)) = 0
    BY <1>2, FS_EmptySet
<1>4. IsFiniteSet(UnitsOf(S, p)) /\ IsFiniteSet(UnitsOf(T, p))
    BY UnitsFinite
<1>5. UnitCount(S, p) \in Nat /\ UnitCount(T, p) \in Nat
    BY UnitsFinite
<1>6. Cardinality(UnitsOf(S, p) \cup UnitsOf(T, p))
        = Cardinality(UnitsOf(S, p)) + Cardinality(UnitsOf(T, p))
            - Cardinality(UnitsOf(S, p) \cap UnitsOf(T, p))
    BY <1>4, FS_Union
<1>7. UnitCount(S \cup T, p) = Cardinality(UnitsOf(S, p) \cup UnitsOf(T, p))
    BY <1>1, Zenon DEF UnitCount
<1>8. UnitCount(S \cup T, p) = UnitCount(S, p) + UnitCount(T, p) - 0
    BY <1>3, <1>6, <1>7, Zenon DEF UnitCount
<1> QED
    BY <1>5, <1>8

\* A row holds as many units as its quantity, all of its own product.
LEMMA UnitsOfOneRow ==
    ASSUME NEW r \in Rows
    PROVE  UnitCount({r}, r[2]) = Quantity(r)
<1> DEFINE q == Quantity(r)
           unit == [i \in 1..q |-> <<r, i>>]
<1>1. q \in Nat /\ q <= MaxQuantity
    BY QuantityType, CatalogAssumption
<1>2. UnitsOf({r}, r[2]) = {<<r, i>> : i \in 1..q}
    BY <1>1, CatalogAssumption DEF UnitsOf
<1>3. unit \in [1..q -> UnitsOf({r}, r[2])]
    BY <1>2
<1>4. unit \in Bijection(1..q, UnitsOf({r}, r[2]))
    BY <1>2, <1>3 DEF Bijection, Injection, Surjection, IsInjective
<1>5. IsFiniteSet(1..q) /\ Cardinality(1..q) = q
    BY <1>1, FS_Interval
<1> QED
    BY <1>4, <1>5, FS_Bijection DEF ExistsBijection, UnitCount

-----------------------------------------------------------------------------
(* The inductive invariant *)

\* A row exists only for a request that was served.
RowsWereServed ==
    \A r \in Rows : reservation[r] # "absent" => <<r[1], r[3]>> \in served

Inv == TypeOK /\ RowsWereServed /\ OneActiveRow /\ Conservation

\* An empty table of reservations: all that entered the books is for sale.
LEMMA InitInv == Init => Inv
<1> SUFFICES ASSUME Init PROVE Inv
    OBVIOUS
<1> USE DEF Init
<1>1. TypeOK
    BY CatalogAssumption DEF TypeOK, Statuses
<1>2. RowsWereServed
    BY DEF RowsWereServed
<1>3. OneActiveRow
    BY DEF OneActiveRow, Rows
<1>4. Conservation
  <2> SUFFICES ASSUME NEW p \in Products
               PROVE  stock[p] + UnitCount(Outstanding, p) = received[p]
      BY DEF Conservation
  <2>1. Outstanding = {}
      BY DEF Outstanding
  <2>2. UnitCount(Outstanding, p) = 0
      BY <2>1, FS_EmptySet DEF UnitCount, UnitsOf
  <2> QED
      BY <2>2, CatalogAssumption
<1> QED
    BY <1>1, <1>2, <1>3, <1>4 DEF Inv

-----------------------------------------------------------------------------
(* One lemma per action *)

\* Reserve turns absent rows of its own request active and takes their units off the balance.
LEMMA ReserveInv ==
    ASSUME Inv, NEW o \in Orders, NEW a \in Attempts, NEW kept \in SUBSET Needed(o),
           Reserve(o, a, kept)
    PROVE  Inv'
<1> DEFINE fresh == Needed(o) \ kept
           inserted == {r \in Rows : r[1] = o /\ r[3] = a /\ r[2] \in fresh}
<1>1. /\ TypeOK /\ RowsWereServed /\ OneActiveRow /\ Conservation
      /\ fresh \subseteq Products
    BY DEF Inv, Needed
<1>2. /\ <<o, a>> \notin served
      /\ \A p \in fresh : stock[p] >= Demand[o][p] /\ ~HasActiveRow(o, p)
      /\ reservation' = [r \in Rows |-> IF r \in inserted THEN "active" ELSE reservation[r]]
      /\ stock' = [p \in Products |->
             IF p \in fresh THEN stock[p] - Demand[o][p] ELSE stock[p]]
      /\ served' = served \cup {<<o, a>>}
      /\ lapsed' = lapsed /\ restocked' = restocked /\ received' = received
    BY DEF Reserve
<1>3. \A r \in inserted : reservation[r] = "absent"
    BY <1>1, <1>2 DEF RowsWereServed, TypeOK
<1>4. \A p \in Products : Demand[o][p] \in Nat
    BY CatalogAssumption
<1>5. TypeOK'
    BY <1>1, <1>2, <1>4 DEF TypeOK, Statuses
<1>6. RowsWereServed'
    BY <1>1, <1>2 DEF RowsWereServed
<1>7. OneActiveRow'
  <2> SUFFICES ASSUME NEW q \in Orders, NEW p \in Products, NEW b \in Attempts, NEW c \in Attempts,
                      reservation'[<<q, p, b>>] = "active", reservation'[<<q, p, c>>] = "active"
               PROVE  b = c
      BY DEF OneActiveRow
  <2>1. <<q, p, b>> \in Rows /\ <<q, p, c>> \in Rows
      BY DEF Rows
  <2>2. CASE <<q, p, b>> \in inserted \/ <<q, p, c>> \in inserted
    <3>1. q = o /\ p \in fresh
        BY <2>2
    <3>2. \A d \in Attempts : reservation[<<q, p, d>>] # "active"
        BY <1>2, <3>1 DEF HasActiveRow
    <3> QED
        BY <1>2, <2>1, <3>2
  <2>3. CASE <<q, p, b>> \notin inserted /\ <<q, p, c>> \notin inserted
      BY <1>1, <1>2, <2>1, <2>3 DEF OneActiveRow
  <2> QED
      BY <2>2, <2>3
<1>8. Conservation'
  <2> SUFFICES ASSUME NEW p \in Products
               PROVE  stock'[p] + UnitCount(Outstanding', p) = received'[p]
      BY DEF Conservation, UnitCount, UnitsOf, Quantity
  <2>1. Outstanding' = Outstanding \cup inserted /\ Outstanding \cap inserted = {}
      BY <1>2, <1>3 DEF Outstanding
  <2>2. UnitCount(Outstanding', p) = UnitCount(Outstanding, p) + UnitCount(inserted, p)
      BY <2>1, UnitsAdd DEF Outstanding
  <2>3. UnitCount(Outstanding, p) \in Nat
      BY UnitsFinite DEF Outstanding
  <2>4. CASE p \in fresh
    <3> DEFINE row == <<o, p, a>>
    <3>1. row \in Rows /\ row[2] = p /\ Quantity(row) = Demand[o][p]
        BY DEF Rows, Quantity
    <3>2. UnitsOf(inserted, p) = UnitsOf({row}, p)
        BY <2>4, <3>1, RowParts DEF UnitsOf
    <3>3. UnitCount(inserted, p) = Demand[o][p]
        BY <3>1, <3>2, UnitsOfOneRow DEF UnitCount
    <3> QED
        BY <1>1, <1>2, <1>4, <2>2, <2>3, <2>4, <3>3 DEF Conservation, TypeOK
  <2>5. CASE p \notin fresh
    <3>1. UnitsOf(inserted, p) = {}
        BY <2>5 DEF UnitsOf
    <3>2. UnitCount(inserted, p) = 0
        BY <3>1, FS_EmptySet DEF UnitCount
    <3> QED
        BY <1>1, <1>2, <2>2, <2>3, <2>5, <3>2 DEF Conservation, TypeOK
  <2> QED
      BY <2>4, <2>5
<1> QED
    BY <1>5, <1>6, <1>7, <1>8 DEF Inv

\* settle and SweepOnce give back the units of the rows they move, or none when these are sold.
LEMMA SettleInv ==
    ASSUME Inv, NEW S \in SUBSET Rows, \A r \in S : reservation[r] = "active",
           NEW newStatus \in {"committed", "released"}, SettleRows(S, newStatus)
    PROVE  Inv'
<1>1. TypeOK /\ RowsWereServed /\ OneActiveRow /\ Conservation
    BY DEF Inv
<1>2. /\ reservation' = [r \in Rows |-> IF r \in S THEN newStatus ELSE reservation[r]]
      /\ served' = served /\ lapsed' = lapsed /\ restocked' = restocked
      /\ received' = received
    BY DEF SettleRows
<1>3. stock' = IF newStatus = "released"
               THEN [p \in Products |-> stock[p] + UnitCount(S, p)]
               ELSE stock
    BY DEF SettleRows
<1>4. \A p : UnitCount(S, p) \in Nat
    BY UnitsFinite
<1>5. TypeOK'
  <2>1. stock' \in [Products -> Nat]
      BY <1>1, <1>3, <1>4 DEF TypeOK
  <2>2. reservation' \in [Rows -> Statuses]
      BY <1>1, <1>2 DEF TypeOK, Statuses
  <2> QED
      BY <1>1, <1>2, <2>1, <2>2 DEF TypeOK
<1>6. RowsWereServed'
    BY <1>1, <1>2 DEF RowsWereServed
<1>7. OneActiveRow'
  <2>1. \A r \in Rows : reservation'[r] = "active" => reservation[r] = "active"
      BY <1>2
  <2> QED
      BY <1>1, <2>1 DEF OneActiveRow, Rows
<1>8. Conservation'
  <2> SUFFICES ASSUME NEW p \in Products
               PROVE  stock'[p] + UnitCount(Outstanding', p) = received'[p]
      BY DEF Conservation, UnitCount, UnitsOf, Quantity
  <2>1. stock[p] \in Nat /\ stock[p] + UnitCount(Outstanding, p) = received[p]
      BY <1>1 DEF TypeOK, Conservation
  <2>2. CASE newStatus = "committed"
    <3>1. Outstanding' = Outstanding
        BY <1>2, <2>2 DEF Outstanding
    <3> QED
        BY <1>2, <1>3, <2>1, <2>2, <3>1
  <2>3. CASE newStatus = "released"
    <3>1. Outstanding = Outstanding' \cup S /\ Outstanding' \cap S = {}
        BY <1>2, <2>3 DEF Outstanding
    <3>2. Outstanding' \in SUBSET Rows
        BY DEF Outstanding
    <3>3. UnitCount(Outstanding, p) = UnitCount(Outstanding', p) + UnitCount(S, p)
        BY <3>1, <3>2, UnitsAdd
    <3>4. UnitCount(Outstanding', p) \in Nat
        BY <3>2, UnitsFinite
    <3>5. stock'[p] = stock[p] + UnitCount(S, p)
        BY <1>3, <2>3
    <3> QED
        BY <1>2, <1>4, <2>1, <3>3, <3>4, <3>5
  <2> QED
      BY <2>2, <2>3
<1> QED
    BY <1>5, <1>6, <1>7, <1>8 DEF Inv

\* Commit settles active rows of its order.
LEMMA CommitInv ==
    ASSUME Inv, NEW o \in Orders, NEW found, Commit(o, found)
    PROVE  Inv'
<1>1. found \in SUBSET Rows /\ \A r \in found : reservation[r] = "active"
    BY DEF Commit, ActiveRows
<1> QED
    BY <1>1, SettleInv DEF Commit

\* Release settles active rows of its order.
LEMMA ReleaseInv ==
    ASSUME Inv, NEW o \in Orders, NEW found, Release(o, found)
    PROVE  Inv'
<1>1. found \in SUBSET Rows /\ \A r \in found : reservation[r] = "active"
    BY DEF Release, ActiveRows
<1> QED
    BY <1>1, SettleInv DEF Release

\* A sweep settles rows that are active and lapsed.
LEMMA SweepInv ==
    ASSUME Inv, NEW S \in SUBSET LapsedRows, Sweep(S)
    PROVE  Inv'
<1>1. S \in SUBSET Rows /\ \A r \in S : reservation[r] = "active"
    BY DEF LapsedRows
<1> QED
    BY <1>1, SettleInv DEF Sweep

\* The clock touches neither the rows nor the balance.
LEMMA LapseInv ==
    ASSUME Inv, NEW o \in Orders, NEW a \in Attempts, Lapse(o, a)
    PROVE  Inv'
    BY DEF Inv, Lapse, TypeOK, RowsWereServed, OneActiveRow, Conservation, Outstanding,
           UnitCount, UnitsOf, Quantity

\* Goods enter the balance and the books by the same amount.
LEMMA RestockInv ==
    ASSUME Inv, NEW ret \in Returns, Restock(ret)
    PROVE  Inv'
<1>1. TypeOK /\ RowsWereServed /\ OneActiveRow /\ Conservation
    BY DEF Inv
<1>2. /\ stock' = [p \in Products |-> stock[p] + ReturnItems[ret][p]]
      /\ received' = [p \in Products |-> received[p] + ReturnItems[ret][p]]
      /\ restocked' = restocked \cup {ret}
      /\ reservation' = reservation /\ served' = served /\ lapsed' = lapsed
    BY DEF Restock
<1>3. \A p \in Products : ReturnItems[ret][p] \in Nat
    BY CatalogAssumption
<1>4. TypeOK'
    BY <1>1, <1>2, <1>3 DEF TypeOK
<1>5. RowsWereServed' /\ OneActiveRow'
    BY <1>1, <1>2 DEF RowsWereServed, OneActiveRow
<1>6. Conservation'
  <2> SUFFICES ASSUME NEW p \in Products
               PROVE  stock'[p] + UnitCount(Outstanding', p) = received'[p]
      BY DEF Conservation, UnitCount, UnitsOf, Quantity
  <2>1. Outstanding' = Outstanding /\ UnitCount(Outstanding, p) \in Nat
      BY <1>2, UnitsFinite DEF Outstanding
  <2>2. stock[p] \in Nat /\ stock[p] + UnitCount(Outstanding, p) = received[p]
      BY <1>1 DEF TypeOK, Conservation
  <2> QED
      BY <1>2, <1>3, <2>1, <2>2
<1> QED
    BY <1>4, <1>5, <1>6 DEF Inv

\* An adjustment changes the balance and the books by the same amount.
LEMMA AdjustInv ==
    ASSUME Inv, NEW p \in Products, NEW delta \in Deltas, Adjust(p, delta)
    PROVE  Inv'
<1>1. TypeOK /\ RowsWereServed /\ OneActiveRow /\ Conservation
    BY DEF Inv
<1>2. /\ stock[p] + delta >= 0
      /\ stock' = [stock EXCEPT ![p] = @ + delta]
      /\ received' = [received EXCEPT ![p] = @ + delta]
      /\ reservation' = reservation /\ served' = served /\ lapsed' = lapsed
      /\ restocked' = restocked
    BY DEF Adjust
<1>3. delta \in Int
    BY CatalogAssumption
<1>4. TypeOK'
    BY <1>1, <1>2, <1>3 DEF TypeOK
<1>5. RowsWereServed' /\ OneActiveRow'
    BY <1>1, <1>2 DEF RowsWereServed, OneActiveRow
<1>6. Conservation'
  <2> SUFFICES ASSUME NEW q \in Products
               PROVE  stock'[q] + UnitCount(Outstanding', q) = received'[q]
      BY DEF Conservation, UnitCount, UnitsOf, Quantity
  <2>1. Outstanding' = Outstanding /\ UnitCount(Outstanding, q) \in Nat
      BY <1>2, UnitsFinite DEF Outstanding
  <2>2. stock[q] \in Nat /\ stock[q] + UnitCount(Outstanding, q) = received[q]
      BY <1>1 DEF TypeOK, Conservation
  <2>3. stock'[q] = (IF q = p THEN stock[q] + delta ELSE stock[q])
        /\ received'[q] = (IF q = p THEN received[q] + delta ELSE received[q])
      BY <1>1, <1>2 DEF TypeOK
  <2> QED
      BY <1>3, <2>1, <2>2, <2>3
<1> QED
    BY <1>4, <1>5, <1>6 DEF Inv

\* Nothing changes when nothing happens.
LEMMA StutterInv ==
    ASSUME Inv, UNCHANGED vars
    PROVE  Inv'
    BY DEF vars, Inv, TypeOK, RowsWereServed, OneActiveRow, Conservation, Outstanding,
           UnitCount, UnitsOf, Quantity

\* Every transaction of the stock keeps the books balanced.
LEMMA NextInv == Inv /\ [Next]_vars => Inv'
<1> SUFFICES ASSUME Inv, [Next]_vars
             PROVE  Inv'
    OBVIOUS
<1>1. CASE \E o \in Orders, a \in Attempts : \E kept \in SUBSET Needed(o) : Reserve(o, a, kept)
    BY <1>1, ReserveInv
<1>2. CASE \E o \in Orders : \E found \in SUBSET ActiveRows(o) :
                Commit(o, found) \/ Release(o, found)
    BY <1>2, CommitInv, ReleaseInv
<1>3. CASE \E S \in SUBSET LapsedRows : Sweep(S)
    BY <1>3, SweepInv
<1>4. CASE \E o \in Orders, a \in Attempts : Lapse(o, a)
    BY <1>4, LapseInv
<1>5. CASE \E ret \in Returns : Restock(ret)
    BY <1>5, RestockInv
<1>6. CASE \E p \in Products, delta \in Deltas : Adjust(p, delta)
    BY <1>6, AdjustInv
<1>7. CASE UNCHANGED vars
    BY <1>7, StutterInv
<1> QED
    BY <1>1, <1>2, <1>3, <1>4, <1>5, <1>6, <1>7 DEF Next

-----------------------------------------------------------------------------
(* The theorems *)

\* The inductive invariant holds in every reachable state.
LEMMA InvAlways == Spec => []Inv
    BY InitInv, NextInv, PTL DEF Spec

\* The balance of a product is a natural number and every row has a status of its type
\* (CHECK stock >= 0 and the status CHECK of stock_reservations are never the last line of
\* defence).
THEOREM TypeCorrect == Spec => []TypeOK
<1>1. Inv => TypeOK
    BY DEF Inv
<1> QED
    BY <1>1, InvAlways, PTL

\* No unit is created or lost by any sequence of reservations, settlements, sweeps,
\* restocks and adjustments.
THEOREM UnitsConserved == Spec => []Conservation
<1>1. Inv => Conservation
    BY DEF Inv
<1> QED
    BY <1>1, InvAlways, PTL

\* An order never holds a product twice, however often its Reserve is sent.
THEOREM NoDoubleHold == Spec => []OneActiveRow
<1>1. Inv => OneActiveRow
    BY DEF Inv
<1> QED
    BY <1>1, InvAlways, PTL

\* What is held and sold never exceeds what was received.
THEOREM NoOverselling == Spec => []NeverOversold
<1>1. Inv => NeverOversold
  <2> SUFFICES ASSUME Inv, NEW p \in Products
               PROVE  UnitCount(Outstanding, p) <= received[p]
      BY DEF NeverOversold
  <2>1. stock[p] \in Nat /\ stock[p] + UnitCount(Outstanding, p) = received[p]
      BY DEF Inv, TypeOK, Conservation
  <2>2. UnitCount(Outstanding, p) \in Nat
      BY UnitsFinite DEF Outstanding
  <2> QED
      BY <2>1, <2>2
<1> QED
    BY <1>1, InvAlways, PTL

\* A committed or released row never changes again: units are given back at most once.
THEOREM SettledForGood == Spec => SettledIsFinal
<1>1. ASSUME Inv, [Next]_vars, NEW r \in Rows, reservation[r] \in {"committed", "released"}
      PROVE  reservation'[r] = reservation[r]
  <2>1. ASSUME NEW o \in Orders, NEW a \in Attempts, NEW kept, Reserve(o, a, kept)
        PROVE  reservation'[r] = reservation[r]
    <3>1. <<r[1], r[3]>> \in served /\ <<o, a>> \notin served
        BY <1>1, <2>1 DEF Inv, RowsWereServed, Reserve
    <3>2. r[1] # o \/ r[3] # a
        BY <3>1
    <3> QED
        BY <2>1, <3>2 DEF Reserve
  <2>2. ASSUME NEW S, NEW newStatus, SettleRows(S, newStatus),
               \A s \in S : reservation[s] = "active"
        PROVE  reservation'[r] = reservation[r]
    <3>1. r \notin S
        BY <1>1, <2>2
    <3> QED
        BY <2>2, <3>1 DEF SettleRows
  <2>3. CASE \E o \in Orders, a \in Attempts : \E kept \in SUBSET Needed(o) : Reserve(o, a, kept)
      BY <2>1, <2>3
  <2>4. CASE \E o \in Orders : \E found \in SUBSET ActiveRows(o) :
                Commit(o, found) \/ Release(o, found)
      BY <2>2, <2>4 DEF Commit, Release, ActiveRows
  <2>5. CASE \E S \in SUBSET LapsedRows : Sweep(S)
      BY <2>2, <2>5 DEF Sweep, LapsedRows
  <2>6. CASE UNCHANGED reservation
      BY <2>6
  <2> QED
      BY <1>1, <2>3, <2>4, <2>5, <2>6 DEF Next, Lapse, Restock, Adjust, vars
<1>2. Inv /\ [Next]_vars
        => [\A r \in Rows : reservation[r] \in {"committed", "released"}
                             => reservation'[r] = reservation[r]]_vars
    BY <1>1
<1> QED
    BY <1>2, InvAlways, PTL DEF Spec, SettledIsFinal
-----------------------------------------------------------------------------
(* The inductive invariant: what a transaction holds and has written, against the tables *)

TxTypes ==
    /\ step \in [Txs -> {"idle", "lookup", "take", "insert", "freeing", "ended"}]
    /\ todo \in [Txs -> SUBSET Rows]
    /\ marked \in [Txs -> SUBSET Rows]
    /\ holds \in [Txs -> SUBSET Products]

\* The row a Reserve inserts for a product.
Line(t, p) == <<t[2], p, t[3]>>
Resting(t) == step[t] \in {"idle", "ended"}

\* What a Reserve has between its statements.  It was not served before it ends.  Each
\* product of the cart is still to do, inserted, or was found reserved.  A row inserted has
\* its product locked, and no other active row; a product locked has units enough, and its
\* row is inserted or about to be.  Products are locked in the order of Rank.
ReserveOK(t) ==
    /\ step[t] \in {"idle", "lookup", "take", "insert", "ended"}
    /\ Resting(t) => todo[t] = {} /\ marked[t] = {} /\ holds[t] = {}
    /\ \A r \in todo[t] \cup marked[t] : r[2] \in Needed(t[2]) /\ r = Line(t, r[2])
    /\ step[t] # "ended" => <<t[2], t[3]>> \notin served
    /\ ~Resting(t) => \A p \in Needed(t[2]) :
          \/ Line(t, p) \in todo[t] \cup marked[t]
          \/ \E b \in Attempts : reservation[<<t[2], p, b>>] # "absent"
    /\ \A r \in marked[t] : r[2] \in holds[t] /\ ~HasActiveRow(r[1], r[2])
    /\ \A p \in holds[t] :
          /\ stock[p] >= Demand[t[2]][p]
          /\ Line(t, p) \in marked[t] \/ (step[t] = "insert" /\ Line(t, p) \in todo[t])
    /\ \A p \in holds[t], r \in todo[t] :
          Rank[p] < Rank[r[2]] \/ (step[t] = "insert" /\ r = Line(t, p))
    /\ step[t] = "insert" => \E p \in holds[t] : Line(t, p) \in todo[t]

\* The rows a settle or a sweep has written are still active for everybody else.
SettleOK(t) ==
    /\ step[t] \in {"idle", "freeing"}
    /\ Resting(t) => marked[t] = {} /\ holds[t] = {}
    /\ \A r \in marked[t] : reservation[r] = "active"
    /\ t \in SettleTx => \A r \in marked[t] : r[1] = t[2]
    /\ t \in SweepTx => marked[t] \subseteq LapsedRows /\ Cardinality(marked[t]) <= BatchSize

\* Two transactions lock different products, write different rows, and insert no row of the
\* same order and product.
Apart(t, u) ==
    /\ holds[t] \cap holds[u] = {}
    /\ marked[t] \cap marked[u] = {}
    /\ t \in ReserveTx /\ u \in ReserveTx =>
          \A r \in marked[t], s \in marked[u] : <<r[1], r[2]>> # <<s[1], s[2]>>

TxInv ==
    /\ Inv /\ TxTypes
    /\ \A t \in ReserveTx : ReserveOK(t)
    /\ \A t \in SettleTx \cup SweepTx : SettleOK(t)
    /\ \A t, u \in Txs : t # u => Apart(t, u)

-----------------------------------------------------------------------------
(* Transactions and their moves *)

\* What a transaction is named by.
LEMMA TxParts ==
    /\ \A t \in ReserveTx : /\ t \in Txs /\ t[1] = "reserve" /\ t[2] \in Orders /\ t[3] \in Attempts
                            /\ t = <<"reserve", t[2], t[3]>>
    /\ \A t \in SettleTx : t \in Txs /\ t[1] \in {"commit", "release"} /\ t[2] \in Orders
    /\ \A t \in SweepTx : t \in Txs /\ t[1] = "sweep"
    /\ ReserveTx \cap SettleTx = {} /\ ReserveTx \cap SweepTx = {} /\ SettleTx \cap SweepTx = {}
<1>1. \A t \in ReserveTx : t[1] = "reserve" /\ t[2] \in Orders /\ t[3] \in Attempts
                           /\ t = <<"reserve", t[2], t[3]>>
    BY DEF ReserveTx
<1>2. \A t \in SettleTx : t[1] \in {"commit", "release"} /\ t[2] \in Orders
    BY DEF SettleTx
<1>3. \A t \in SweepTx : t[1] = "sweep"
    BY DEF SweepTx
<1> QED
    BY <1>1, <1>2, <1>3 DEF Txs

\* A Reserve's rows are rows, told apart by their products.
LEMMA LineParts ==
    ASSUME NEW t \in ReserveTx, NEW p \in Products
    PROVE  /\ Line(t, p) \in Rows
           /\ Line(t, p)[1] = t[2] /\ Line(t, p)[2] = p /\ Line(t, p)[3] = t[3]
           /\ Quantity(Line(t, p)) = Demand[t[2]][p]
           /\ \A q : Line(t, p) = Line(t, q) => p = q
    BY TxParts DEF Line, Rows, Quantity

\* A transaction that moves leaves what the others hold alone.
LEMMA Moves ==
    ASSUME TxTypes, NEW t \in Txs, NEW newStep, NEW newTodo, NEW newMarked, NEW newHolds,
           Move(t, newStep, newTodo, newMarked, newHolds)
    PROVE  /\ step'[t] = newStep /\ todo'[t] = newTodo /\ marked'[t] = newMarked
           /\ holds'[t] = newHolds
           /\ \A u \in Txs \ {t} : /\ step'[u] = step[u] /\ todo'[u] = todo[u]
                                   /\ marked'[u] = marked[u] /\ holds'[u] = holds[u]
           /\ (/\ newStep \in {"idle", "lookup", "take", "insert", "freeing", "ended"}
               /\ newTodo \subseteq Rows /\ newMarked \subseteq Rows /\ newHolds \subseteq Products)
                 => TxTypes'
    BY DEF TxTypes, Move

\* The others' invariants speak of the tables and of what they hold.
LEMMA OthersKeep ==
    ASSUME TxInv, UNCHANGED vars, NEW t \in Txs,
           \A u \in Txs \ {t} : /\ step'[u] = step[u] /\ todo'[u] = todo[u]
                                /\ marked'[u] = marked[u] /\ holds'[u] = holds[u]
    PROVE  /\ \A u \in ReserveTx \ {t} : ReserveOK(u)'
           /\ \A u \in (SettleTx \cup SweepTx) \ {t} : SettleOK(u)'
<1>1. stock' = stock /\ reservation' = reservation /\ served' = served /\ lapsed' = lapsed
    BY DEF vars
<1>2. ASSUME NEW u \in ReserveTx \ {t} PROVE ReserveOK(u)'
  <2>1. ReserveOK(u) /\ u \in Txs \ {t}
    BY TxParts DEF TxInv
  <2> QED
    BY <1>1, <2>1 DEF ReserveOK, Resting, HasActiveRow
<1>3. ASSUME NEW u \in (SettleTx \cup SweepTx) \ {t} PROVE SettleOK(u)'
  <2>1. SettleOK(u) /\ u \in Txs \ {t}
    BY TxParts DEF TxInv
  <2> QED
    BY <1>1, <2>1 DEF SettleOK, Resting, LapsedRows
<1> QED
    BY <1>2, <1>3

\* Whoever lets go of locks stays apart from the others.
LEMMA FewerLocksKeepApart ==
    ASSUME TxInv, NEW t \in Txs, marked'[t] \subseteq marked[t], holds'[t] \subseteq holds[t],
           \A u \in Txs \ {t} : marked'[u] = marked[u] /\ holds'[u] = holds[u]
    PROVE  \A u, v \in Txs : u # v => Apart(u, v)'
<1> SUFFICES ASSUME NEW u \in Txs, NEW v \in Txs, u # v PROVE Apart(u, v)'
    OBVIOUS
<1>1. Apart(u, v)
    BY DEF TxInv
<1>2. marked'[u] \subseteq marked[u] /\ holds'[u] \subseteq holds[u]
      /\ marked'[v] \subseteq marked[v] /\ holds'[v] \subseteq holds[v]
    OBVIOUS
<1> QED
    BY <1>1, <1>2 DEF Apart

\* A step of one transaction that leaves the tables alone.
LEMMA PrivateStep ==
    ASSUME TxInv, UNCHANGED vars, NEW t \in Txs, TxTypes',
           \A u \in Txs \ {t} : /\ step'[u] = step[u] /\ todo'[u] = todo[u]
                                /\ marked'[u] = marked[u] /\ holds'[u] = holds[u],
           t \in ReserveTx => ReserveOK(t)',
           t \in SettleTx \cup SweepTx => SettleOK(t)',
           \A u, v \in Txs : u # v => Apart(u, v)'
    PROVE  TxInv'
<1>1. Inv'
    BY StutterInv DEF TxInv
<1> QED
    BY <1>1, OthersKeep DEF TxInv

\* Commit, abort and crash: everything is let go of.
LEMMA FinishKeeps ==
    ASSUME TxInv, UNCHANGED vars, NEW t \in Txs, Finish(t)
    PROVE  TxInv'
<1>1. /\ step'[t] = EndStep(t) /\ todo'[t] = {} /\ marked'[t] = {} /\ holds'[t] = {}
      /\ \A u \in Txs \ {t} : /\ step'[u] = step[u] /\ todo'[u] = todo[u]
                              /\ marked'[u] = marked[u] /\ holds'[u] = holds[u]
      /\ TxTypes'
    BY Moves DEF Finish, TxInv, EndStep
<1>2. t \in ReserveTx => ReserveOK(t)'
    BY <1>1 DEF ReserveOK, Resting, EndStep
<1>3. t \in SettleTx \cup SweepTx => SettleOK(t)'
  <2> SUFFICES ASSUME t \in SettleTx \cup SweepTx PROVE SettleOK(t)'
    OBVIOUS
  <2>1. t \notin ReserveTx
    BY TxParts
  <2>2. Cardinality({}) = 0 /\ 0 <= BatchSize
    BY FS_EmptySet, CatalogAssumption
  <2> QED
    BY <1>1, <2>1, <2>2 DEF SettleOK, Resting, EndStep
<1>4. \A u, v \in Txs : u # v => Apart(u, v)'
    BY <1>1, FewerLocksKeepApart
<1> QED
    BY <1>1, <1>2, <1>3, <1>4, PrivateStep

-----------------------------------------------------------------------------
(* The statements of Reserve *)

\* The row a Reserve turns to is one of its lines, and there is one only.
LEMMA NextIsOne ==
    ASSUME TxInv, NEW t \in ReserveTx, NEW r \in todo[t], IsNext(t, r)
    PROVE  /\ r \in Rows /\ r[1] = t[2] /\ r[2] \in Needed(t[2]) /\ r[2] \in Products
           /\ r = Line(t, r[2]) /\ Quantity(r) = Demand[t[2]][r[2]]
           /\ \A s \in todo[t] \ {r} : Rank[r[2]] < Rank[s[2]] /\ s[2] \in Products
<1>1. t \in Txs /\ ReserveOK(t) /\ TxTypes
    BY TxParts DEF TxInv
<1>2. \A s \in todo[t] : s \in Rows /\ s[2] \in Needed(t[2]) /\ s = Line(t, s[2]) /\ s[2] \in Products
    BY <1>1, RowParts DEF ReserveOK, TxTypes
<1>3. r[1] = t[2] /\ Quantity(r) = Demand[t[2]][r[2]]
    BY <1>2, LineParts
<1>4. ASSUME NEW s \in todo[t] \ {r} PROVE Rank[r[2]] < Rank[s[2]]
  <2>1. r[2] # s[2]
    BY <1>2
  <2>2. Rank[r[2]] \in Nat /\ Rank[s[2]] \in Nat /\ Rank[r[2]] # Rank[s[2]]
    BY <1>2, <2>1, TransactionAssumption
  <2> QED
    BY <2>2 DEF IsNext
<1> QED
    BY <1>2, <1>3, <1>4

\* While it inserts, the product it has just locked is the one it turns to.
LEMMA NextIsLocked ==
    ASSUME TxInv, NEW t \in ReserveTx, step[t] = "insert", NEW r \in todo[t], IsNext(t, r)
    PROVE  /\ r[2] \in holds[t]
           /\ \A p \in holds[t] : Line(t, p) \in todo[t] => p = r[2]
           /\ \A p \in holds[t] : p # r[2] => Line(t, p) \in marked[t]
<1>1. t \in Txs /\ ReserveOK(t) /\ TxTypes
    BY TxParts DEF TxInv
<1>2. /\ r = Line(t, r[2]) /\ r[2] \in Products
      /\ \A s \in todo[t] \ {r} : Rank[r[2]] < Rank[s[2]] /\ s[2] \in Products
    BY NextIsOne
<1>3. \A p \in holds[t] : p \in Products /\ Rank[p] \in Nat /\ Rank[r[2]] \in Nat
    BY <1>1, <1>2, TransactionAssumption DEF TxTypes
<1>4. ASSUME NEW p \in holds[t], Line(t, p) \in todo[t] PROVE p = r[2]
  <2>1. Rank[p] < Rank[r[2]] \/ r = Line(t, p)
    BY <1>1 DEF ReserveOK
  <2>2. Line(t, p)[2] = p
    BY <1>3, LineParts
  <2>3. CASE Line(t, p) # r
    <3>1. Rank[r[2]] < Rank[p]
        BY <1>2, <1>4, <2>2, <2>3
    <3> QED
        BY <1>3, <2>1, <2>3, <3>1
  <2> QED
    BY <2>2, <2>3
<1>5. PICK p \in holds[t] : Line(t, p) \in todo[t]
    BY <1>1 DEF ReserveOK
<1> QED
    BY <1>1, <1>4, <1>5 DEF ReserveOK

\* BEGIN, with the products of the cart to do.
LEMMA BeginReserveKeeps ==
    ASSUME TxInv, NEW t \in ReserveTx, BeginReserve(t)
    PROVE  TxInv'
<1> DEFINE lines == {<<t[2], p, t[3]>> : p \in Needed(t[2])}
<1>1. t \in Txs /\ step[t] = "idle" /\ Move(t, "lookup", lines, {}, {}) /\ UNCHANGED vars
      /\ ReserveOK(t) /\ TxTypes
    BY TxParts DEF BeginReserve, MayBegin, TxInv
<1>2. \A p \in Needed(t[2]) : p \in Products /\ Line(t, p) \in lines
    BY DEF Needed, Line
<1>3. \A r \in lines : r \in Rows /\ r[2] \in Needed(t[2]) /\ r = Line(t, r[2])
    BY <1>2, LineParts DEF Line
<1>4. /\ step'[t] = "lookup" /\ todo'[t] = lines /\ marked'[t] = {} /\ holds'[t] = {}
      /\ \A u \in Txs \ {t} : /\ step'[u] = step[u] /\ todo'[u] = todo[u]
                              /\ marked'[u] = marked[u] /\ holds'[u] = holds[u]
      /\ TxTypes'
  <2> HIDE DEF lines
  <2> QED
    BY <1>1, <1>3, Moves
<1> HIDE DEF lines
<1>5. served' = served /\ <<t[2], t[3]>> \notin served
    BY <1>1 DEF ReserveOK, vars
<1>6. ReserveOK(t)'
    BY <1>2, <1>3, <1>4, <1>5 DEF ReserveOK, Resting, Needed
<1>7. \A u, v \in Txs : u # v => Apart(u, v)'
    BY <1>1, <1>4, FewerLocksKeepApart
<1> QED
    BY <1>1, <1>4, <1>6, <1>7, PrivateStep, TxParts

\* A product found reserved needs nothing more; another one is taken next.
LEMMA LookUpKeeps ==
    ASSUME TxInv, NEW t \in ReserveTx, LookUp(t)
    PROVE  TxInv'
<1>1. t \in Txs /\ step[t] = "lookup" /\ UNCHANGED vars /\ ReserveOK(t) /\ TxTypes
    BY TxParts DEF LookUp, TxInv
<1>2. PICK r \in todo[t] :
         /\ IsNext(t, r)
         /\ IF HasActiveRow(r[1], r[2])
            THEN Move(t, "lookup", todo[t] \ {r}, marked[t], holds[t])
            ELSE Move(t, "take", todo[t], marked[t], holds[t])
    BY DEF LookUp
<1>3. todo[t] \subseteq Rows /\ marked[t] \subseteq Rows /\ holds[t] \subseteq Products
    BY <1>1 DEF TxTypes
<1>4. /\ marked'[t] = marked[t] /\ holds'[t] = holds[t]
      /\ \/ step'[t] = "take" /\ todo'[t] = todo[t]
         \/ step'[t] = "lookup" /\ todo'[t] = todo[t] \ {r} /\ HasActiveRow(r[1], r[2])
      /\ \A u \in Txs \ {t} : /\ step'[u] = step[u] /\ todo'[u] = todo[u]
                              /\ marked'[u] = marked[u] /\ holds'[u] = holds[u]
      /\ TxTypes'
    BY <1>1, <1>2, <1>3, Moves
<1>5. stock' = stock /\ reservation' = reservation /\ served' = served
    BY <1>1 DEF vars
<1>6. ReserveOK(t)'
  <2>1. r[1] = t[2] /\ r = Line(t, r[2])
    BY <1>2, NextIsOne
  <2>2. \A p \in Needed(t[2]) : \/ Line(t, p) \in todo'[t] \cup marked'[t]
                                \/ \E b \in Attempts : reservation'[<<t[2], p, b>>] # "absent"
    <3> SUFFICES ASSUME NEW p \in Needed(t[2])
                 PROVE  \/ Line(t, p) \in todo'[t] \cup marked'[t]
                        \/ \E b \in Attempts : reservation'[<<t[2], p, b>>] # "absent"
        OBVIOUS
    <3>1. \/ Line(t, p) \in todo[t] \cup marked[t]
          \/ \E b \in Attempts : reservation[<<t[2], p, b>>] # "absent"
        BY <1>1 DEF ReserveOK, Resting
    <3>2. CASE Line(t, p) = r /\ HasActiveRow(r[1], r[2])
      <4>1. p = r[2]
        BY <3>2, LineParts DEF Needed
      <4> QED
        BY <1>5, <2>1, <3>2, <4>1 DEF HasActiveRow
    <3> QED
        BY <1>4, <1>5, <3>1, <3>2
  <2>3. \A s \in todo'[t] \cup marked'[t] : s[2] \in Needed(t[2])' /\ s = Line(t, s[2])
    BY <1>1, <1>4 DEF ReserveOK, Needed
  <2>4. /\ step'[t] \in {"idle", "lookup", "take", "insert", "ended"} /\ ~Resting(t)'
        /\ <<t[2], t[3]>> \notin served' /\ step'[t] # "insert"
    BY <1>1, <1>4, <1>5 DEF ReserveOK, Resting
  <2>5. \A s \in marked'[t] : s[2] \in holds'[t] /\ ~HasActiveRow(s[1], s[2])'
    BY <1>1, <1>4, <1>5 DEF ReserveOK, HasActiveRow
  <2>6. \A p \in holds'[t] : stock'[p] >= Demand[t[2]][p] /\ Line(t, p) \in marked'[t]
    BY <1>1, <1>4, <1>5 DEF ReserveOK
  <2>7. \A p \in holds'[t], s \in todo'[t] : Rank[p] < Rank[s[2]]
    BY <1>1, <1>4 DEF ReserveOK
  <2> QED
    BY <2>2, <2>3, <2>4, <2>5, <2>6, <2>7 DEF ReserveOK, Needed
<1>7. \A u, v \in Txs : u # v => Apart(u, v)'
    BY <1>1, <1>4, FewerLocksKeepApart
<1> QED
    BY <1>1, <1>4, <1>6, <1>7, PrivateStep, TxParts

\* The UPDATE locks a product nobody else holds, and that has units enough.
LEMMA TakeKeeps ==
    ASSUME TxInv, NEW t \in ReserveTx, Take(t)
    PROVE  TxInv'
<1>1. t \in Txs /\ step[t] = "take" /\ UNCHANGED vars /\ ReserveOK(t) /\ TxTypes
    BY TxParts DEF Take, TxInv
<1>2. PICK r \in todo[t] :
         /\ IsNext(t, r) /\ ProductFree(t, r[2]) /\ stock[r[2]] >= Quantity(r)
         /\ Move(t, "insert", todo[t], marked[t], holds[t] \cup {r[2]})
    BY DEF Take
<1>3. /\ r[2] \in Products /\ r = Line(t, r[2]) /\ Quantity(r) = Demand[t[2]][r[2]]
      /\ \A s \in todo[t] \ {r} : Rank[r[2]] < Rank[s[2]]
    BY <1>2, NextIsOne
<1>4. /\ step'[t] = "insert" /\ todo'[t] = todo[t] /\ marked'[t] = marked[t]
      /\ holds'[t] = holds[t] \cup {r[2]}
      /\ \A u \in Txs \ {t} : /\ step'[u] = step[u] /\ todo'[u] = todo[u]
                              /\ marked'[u] = marked[u] /\ holds'[u] = holds[u]
      /\ TxTypes'
  <2>1. todo[t] \subseteq Rows /\ marked[t] \subseteq Rows /\ holds[t] \cup {r[2]} \subseteq Products
    BY <1>1, <1>3 DEF TxTypes
  <2> QED
    BY <1>1, <1>2, <2>1, Moves
<1>5. stock' = stock /\ reservation' = reservation /\ served' = served
    BY <1>1 DEF vars
<1>6. ReserveOK(t)'
  <2>1. \A s \in todo'[t] \cup marked'[t] : s[2] \in Needed(t[2])' /\ s = Line(t, s[2])
    BY <1>1, <1>4 DEF ReserveOK, Needed
  <2>2. /\ step'[t] \in {"idle", "lookup", "take", "insert", "ended"} /\ ~Resting(t)'
        /\ <<t[2], t[3]>> \notin served'
    BY <1>1, <1>4, <1>5 DEF ReserveOK, Resting
  <2>3. \A p \in Needed(t[2]) : \/ Line(t, p) \in todo'[t] \cup marked'[t]
                                \/ \E b \in Attempts : reservation'[<<t[2], p, b>>] # "absent"
    BY <1>1, <1>4, <1>5 DEF ReserveOK, Resting
  <2>4. \A s \in marked'[t] : s[2] \in holds'[t] /\ ~HasActiveRow(s[1], s[2])'
    BY <1>1, <1>4, <1>5 DEF ReserveOK, HasActiveRow
  <2>5. \A p \in holds'[t] : /\ stock'[p] >= Demand[t[2]][p]
                             /\ Line(t, p) \in marked'[t] \/ Line(t, p) \in todo'[t]
    BY <1>1, <1>2, <1>3, <1>4, <1>5 DEF ReserveOK
  <2>6. \A p \in holds'[t], s \in todo'[t] : Rank[p] < Rank[s[2]] \/ s = Line(t, p)
    BY <1>1, <1>3, <1>4 DEF ReserveOK
  <2>7. r[2] \in holds'[t] /\ Line(t, r[2]) \in todo'[t]
    BY <1>3, <1>4
  <2> QED
    BY <1>4, <2>1, <2>2, <2>3, <2>4, <2>5, <2>6, <2>7 DEF ReserveOK, Needed
<1>7. \A u, v \in Txs : u # v => Apart(u, v)'
  <2> SUFFICES ASSUME NEW u \in Txs, NEW v \in Txs, u # v PROVE Apart(u, v)'
    OBVIOUS
  <2>1. Apart(u, v)
    BY DEF TxInv
  <2>2. \A w \in Txs \ {t} : r[2] \notin holds[w]
    BY <1>2 DEF ProductFree
  <2> QED
    BY <1>4, <2>1, <2>2 DEF Apart
<1> QED
    BY <1>1, <1>4, <1>6, <1>7, PrivateStep, TxParts

\* The INSERT writes the line of the product locked last, unless an active row is there.
LEMMA InsertKeeps ==
    ASSUME TxInv, NEW t \in ReserveTx, Insert(t)
    PROVE  TxInv'
<1>1. t \in Txs /\ step[t] = "insert" /\ UNCHANGED vars /\ ReserveOK(t) /\ TxTypes
    BY TxParts DEF Insert, TxInv
<1>2. PICK r \in todo[t] :
         /\ IsNext(t, r) /\ \A b \in Attempts : RowFree(t, <<r[1], r[2], b>>)
         /\ IF HasActiveRow(r[1], r[2]) THEN Finish(t)
            ELSE Move(t, "lookup", todo[t] \ {r}, marked[t] \cup {r}, holds[t])
    BY DEF Insert
<1>3. CASE HasActiveRow(r[1], r[2])
    BY <1>1, <1>2, <1>3, FinishKeeps
<1>4. CASE ~HasActiveRow(r[1], r[2])
  <2>1. /\ r \in Rows /\ r[1] = t[2] /\ r[2] \in Products /\ r = Line(t, r[2])
        /\ \A s \in todo[t] \ {r} : Rank[r[2]] < Rank[s[2]]
    BY <1>2, NextIsOne
  <2>2. /\ r[2] \in holds[t]
        /\ \A p \in holds[t] : Line(t, p) \in todo[t] => p = r[2]
        /\ \A p \in holds[t] : p # r[2] => Line(t, p) \in marked[t]
    BY <1>1, <1>2, NextIsLocked
  <2>3. /\ step'[t] = "lookup" /\ todo'[t] = todo[t] \ {r} /\ marked'[t] = marked[t] \cup {r}
        /\ holds'[t] = holds[t]
        /\ \A u \in Txs \ {t} : /\ step'[u] = step[u] /\ todo'[u] = todo[u]
                                /\ marked'[u] = marked[u] /\ holds'[u] = holds[u]
        /\ TxTypes'
    <3>1. todo[t] \ {r} \subseteq Rows /\ marked[t] \cup {r} \subseteq Rows /\ holds[t] \subseteq Products
        BY <1>1, <2>1 DEF TxTypes
    <3> QED
        BY <1>1, <1>2, <1>4, <3>1, Moves
  <2>4. stock' = stock /\ reservation' = reservation /\ served' = served
    BY <1>1 DEF vars
  <2>5. ReserveOK(t)'
    <3>1. \A s \in todo'[t] \cup marked'[t] : s[2] \in Needed(t[2])' /\ s = Line(t, s[2])
        BY <1>1, <2>3 DEF ReserveOK, Needed
    <3>2. /\ step'[t] \in {"idle", "lookup", "take", "insert", "ended"} /\ ~Resting(t)'
          /\ <<t[2], t[3]>> \notin served' /\ step'[t] # "insert"
        BY <1>1, <2>3, <2>4 DEF ReserveOK, Resting
    <3>3. \A p \in Needed(t[2]) : \/ Line(t, p) \in todo'[t] \cup marked'[t]
                                  \/ \E b \in Attempts : reservation'[<<t[2], p, b>>] # "absent"
        BY <1>1, <2>3, <2>4 DEF ReserveOK, Resting
    <3>4. \A s \in marked'[t] : s[2] \in holds'[t] /\ ~HasActiveRow(s[1], s[2])'
        BY <1>1, <1>4, <2>2, <2>3, <2>4 DEF ReserveOK, HasActiveRow
    <3>5. \A p \in holds'[t] : stock'[p] >= Demand[t[2]][p] /\ Line(t, p) \in marked'[t]
        BY <1>1, <2>1, <2>2, <2>3, <2>4 DEF ReserveOK
    <3>6. ASSUME NEW p \in holds'[t], NEW s \in todo'[t] PROVE Rank[p] < Rank[s[2]]
      <4>1. p \in holds[t] /\ s \in todo[t] /\ s # r
        BY <2>3
      <4>2. s # Line(t, p)
        BY <2>1, <2>2, <4>1
      <4> QED
        BY <1>1, <4>1, <4>2 DEF ReserveOK
    <3> QED
        BY <3>1, <3>2, <3>3, <3>4, <3>5, <3>6 DEF ReserveOK, Needed
  <2>6. \A u, v \in Txs : u # v => Apart(u, v)'
    <3>1. ASSUME NEW u \in Txs \ {t}, NEW s \in marked[u], u \in ReserveTx \/ s = r
          PROVE  <<s[1], s[2]>> # <<r[1], r[2]>>
      <4>1. s \in Rows
        BY DEF TxInv, TxTypes
      <4>2. s[3] \in Attempts /\ s = <<s[1], s[2], s[3]>>
        BY <4>1, RowParts
      <4>3. <<r[1], r[2], s[3]>> \notin marked[u]
        BY <1>2, <4>2 DEF RowFree
      <4> QED
        BY <4>2, <4>3
    <3> SUFFICES ASSUME NEW u \in Txs, NEW v \in Txs, u # v PROVE Apart(u, v)'
        OBVIOUS
    <3>2. Apart(u, v)
        BY DEF TxInv
    <3>3. holds'[u] \cap holds'[v] = {}
        BY <2>3, <3>2 DEF Apart
    <3>4. marked'[u] \cap marked'[v] = {}
        BY <2>3, <3>1, <3>2 DEF Apart
    <3>5. ASSUME u \in ReserveTx, v \in ReserveTx, NEW x \in marked'[u], NEW y \in marked'[v]
          PROVE  <<x[1], x[2]>> # <<y[1], y[2]>>
        BY <2>3, <3>1, <3>2, <3>5 DEF Apart
    <3> QED
        BY <3>3, <3>4, <3>5 DEF Apart
  <2> QED
    BY <1>1, <2>3, <2>5, <2>6, PrivateStep, TxParts
<1> QED
    BY <1>3, <1>4

-----------------------------------------------------------------------------
(* The statements of settle and SweepOnce *)

\* A settle or a sweep writes rows that are active and that nobody else is writing.
LEMMA WritesActiveRows ==
    ASSUME TxInv, NEW t \in SettleTx \cup SweepTx, UNCHANGED vars,
           NEW newTodo \in SUBSET Rows, NEW found \in SUBSET Rows,
           Move(t, "freeing", newTodo, found, {}),
           \A r \in found : reservation[r] = "active" /\ RowFree(t, r),
           t \in SettleTx => \A r \in found : r[1] = t[2],
           t \in SweepTx => found \subseteq LapsedRows /\ Cardinality(found) <= BatchSize
    PROVE  TxInv'
<1>1. t \in Txs /\ t \notin ReserveTx /\ TxTypes
    BY TxParts DEF TxInv
<1>2. /\ step'[t] = "freeing" /\ marked'[t] = found /\ holds'[t] = {}
      /\ \A u \in Txs \ {t} : /\ step'[u] = step[u] /\ todo'[u] = todo[u]
                              /\ marked'[u] = marked[u] /\ holds'[u] = holds[u]
      /\ TxTypes'
    BY <1>1, Moves
<1>3. reservation' = reservation /\ lapsed' = lapsed
    BY DEF vars
<1>4. SettleOK(t)'
    BY <1>2, <1>3 DEF SettleOK, Resting, LapsedRows
<1>5. \A u, v \in Txs : u # v => Apart(u, v)'
  <2> SUFFICES ASSUME NEW u \in Txs, NEW v \in Txs, u # v PROVE Apart(u, v)'
    OBVIOUS
  <2>1. Apart(u, v)
    BY DEF TxInv
  <2>2. \A w \in Txs \ {t} : found \cap marked[w] = {}
    BY DEF RowFree
  <2>3. holds'[u] \cap holds'[v] = {} /\ marked'[u] \cap marked'[v] = {}
    BY <1>2, <2>1, <2>2 DEF Apart
  <2>4. u \in ReserveTx /\ v \in ReserveTx => marked'[u] = marked[u] /\ marked'[v] = marked[v]
    BY <1>1, <1>2
  <2> QED
    BY <2>1, <2>3, <2>4 DEF Apart
<1> QED
    BY <1>1, <1>2, <1>4, <1>5, PrivateStep

\* The UPDATE of settle finds the active rows of its order.
LEMMA BeginSettleKeeps ==
    ASSUME TxInv, NEW t \in SettleTx, BeginSettle(t)
    PROVE  TxInv'
<1> DEFINE found == ActiveRows(t[2])
           giveBack == IF t[1] = "release" THEN found ELSE {}
<1>1. /\ Move(t, "freeing", giveBack, found, {}) /\ UNCHANGED vars
      /\ \A r \in found : RowFree(t, r)
    BY DEF BeginSettle
<1>2. found \in SUBSET Rows /\ \A r \in found : reservation[r] = "active" /\ r[1] = t[2]
    BY DEF ActiveRows
<1>3. giveBack \in SUBSET Rows
    BY <1>2
<1> HIDE DEF found, giveBack
<1>4. t \notin SweepTx
    BY TxParts
<1> QED
    BY <1>1, <1>2, <1>3, <1>4, WritesActiveRows

\* The sweep takes a batch of lapsed rows nobody is writing.
LEMMA BeginSweepKeeps ==
    ASSUME TxInv, NEW t \in SweepTx, BeginSweep(t)
    PROVE  TxInv'
<1> DEFINE free == {r \in LapsedRows : RowFree(t, r)}
<1>1. PICK S \in SUBSET free :
         /\ Cardinality(S) = IF Cardinality(free) < BatchSize THEN Cardinality(free) ELSE BatchSize
         /\ Move(t, "freeing", S, S, {}) /\ UNCHANGED vars
    BY DEF BeginSweep
<1>2. free \in SUBSET Rows /\ \A r \in free : r \in LapsedRows /\ RowFree(t, r)
                                             /\ reservation[r] = "active"
    BY DEF LapsedRows
<1>3. Cardinality(free) \in Nat
    BY <1>2, RowsFinite, FS_Subset, FS_CardinalityType
<1> HIDE DEF free
<1>4. Cardinality(S) <= BatchSize
    BY <1>1, <1>3, CatalogAssumption
<1>5. S \in SUBSET Rows /\ S \subseteq LapsedRows
      /\ \A r \in S : RowFree(t, r) /\ reservation[r] = "active"
    BY <1>1, <1>2
<1>6. t \notin SettleTx
    BY TxParts
<1> QED
    BY <1>1, <1>4, <1>5, <1>6, WritesActiveRows

\* Units are given back under the lock of their product.
LEMMA FreeKeeps ==
    ASSUME TxInv, NEW t \in SettleTx \cup SweepTx, Free(t)
    PROVE  TxInv'
<1>1. t \in Txs /\ t \notin ReserveTx /\ TxTypes /\ SettleOK(t) /\ step[t] = "freeing" /\ UNCHANGED vars
    BY TxParts DEF TxInv, Free
<1>2. PICK r \in todo[t] :
         ProductFree(t, r[2]) /\ Move(t, "freeing", todo[t] \ {r}, marked[t], holds[t] \cup {r[2]})
    BY DEF Free
<1>3. /\ step'[t] = "freeing" /\ marked'[t] = marked[t] /\ holds'[t] = holds[t] \cup {r[2]}
      /\ \A u \in Txs \ {t} : /\ step'[u] = step[u] /\ todo'[u] = todo[u]
                              /\ marked'[u] = marked[u] /\ holds'[u] = holds[u]
      /\ TxTypes'
  <2>1. /\ todo[t] \ {r} \subseteq Rows /\ marked[t] \subseteq Rows
        /\ holds[t] \cup {r[2]} \subseteq Products
    BY <1>1, RowParts DEF TxTypes
  <2> QED
    BY <1>1, <1>2, <2>1, Moves
<1>4. reservation' = reservation /\ lapsed' = lapsed
    BY <1>1 DEF vars
<1>5. SettleOK(t)'
    BY <1>1, <1>3, <1>4 DEF SettleOK, Resting, LapsedRows
<1>6. \A u, v \in Txs : u # v => Apart(u, v)'
  <2> SUFFICES ASSUME NEW u \in Txs, NEW v \in Txs, u # v PROVE Apart(u, v)'
    OBVIOUS
  <2>1. Apart(u, v)
    BY DEF TxInv
  <2>2. \A w \in Txs \ {t} : r[2] \notin holds[w]
    BY <1>2 DEF ProductFree
  <2>3. holds'[u] \cap holds'[v] = {}
    BY <1>3, <2>1, <2>2 DEF Apart
  <2>4. marked'[u] = marked[u] /\ marked'[v] = marked[v]
    BY <1>3
  <2> QED
    BY <2>1, <2>3, <2>4 DEF Apart
<1> QED
    BY <1>1, <1>3, <1>5, <1>6, PrivateStep

-----------------------------------------------------------------------------
(* The commits: where a transaction becomes one step of StockReservation *)

\* What Reserve commits is Reserve: the products that were found reserved are the kept ones.
LEMMA CommitReserveIsReserve ==
    ASSUME TxInv, NEW t \in ReserveTx, CommitReserve(t)
    PROVE  \E kept \in SUBSET Needed(t[2]) : Reserve(t[2], t[3], kept)
<1> DEFINE o == t[2]
           a == t[3]
           kept == {p \in Needed(o) : Line(t, p) \notin marked[t]}
           fresh == Needed(o) \ kept
<1>1. /\ t \in Txs /\ ReserveOK(t) /\ TxTypes /\ step[t] = "lookup" /\ todo[t] = {}
      /\ o \in Orders /\ a \in Attempts
    BY TxParts DEF CommitReserve, TxInv
<1>2. /\ <<o, a>> \notin served
      /\ \A p \in Needed(o) : \/ Line(t, p) \in marked[t]
                              \/ \E b \in Attempts : reservation[<<o, p, b>>] # "absent"
      /\ \A r \in marked[t] : r[2] \in Needed(o) /\ r = Line(t, r[2])
      /\ \A r \in marked[t] : r[2] \in holds[t] /\ ~HasActiveRow(r[1], r[2])
      /\ \A p \in holds[t] : stock[p] >= Demand[o][p] /\ Line(t, p) \in marked[t]
    BY <1>1 DEF ReserveOK, Resting
<1>3. \A p \in Products : Line(t, p) \in Rows /\ Line(t, p)[1] = o /\ Line(t, p)[2] = p
    BY LineParts
<1>4. \A p \in Products : p \in fresh <=> p \in holds[t]
    BY <1>2, <1>3 DEF Needed
<1>5. \A r \in Rows : r \in marked[t] <=> r[1] = o /\ r[3] = a /\ r[2] \in fresh
  <2> SUFFICES ASSUME NEW r \in Rows
               PROVE  r \in marked[t] <=> r[1] = o /\ r[3] = a /\ r[2] \in fresh
    OBVIOUS
  <2>1. r[2] \in Products /\ r = <<r[1], r[2], r[3]>>
    BY RowParts
  <2>2. ASSUME r \in marked[t] PROVE r[1] = o /\ r[3] = a /\ r[2] \in fresh
    BY <1>2, <2>2 DEF Line
  <2>3. ASSUME r[1] = o, r[3] = a, r[2] \in fresh PROVE r \in marked[t]
    <3>1. r = Line(t, r[2])
        BY <2>1, <2>3 DEF Line
    <3> QED
        BY <2>3, <3>1
  <2> QED
    BY <2>2, <2>3
<1>6. \A p \in kept : \E b \in Attempts : reservation[<<o, p, b>>] # "absent"
    BY <1>2
<1>7. \A p \in fresh : stock[p] >= Demand[o][p] /\ ~HasActiveRow(o, p)
    BY <1>2, <1>3 DEF Needed
<1>8. /\ reservation' = [r \in Rows |-> IF r \in marked[t] THEN "active" ELSE reservation[r]]
      /\ stock' = [p \in Products |-> IF p \in holds[t] THEN stock[p] - Demand[o][p] ELSE stock[p]]
      /\ served' = served \cup {<<o, a>>}
      /\ UNCHANGED <<lapsed, restocked, received>>
    BY DEF CommitReserve
<1>9. /\ reservation' = [r \in Rows |->
            IF r[1] = o /\ r[3] = a /\ r[2] \in fresh THEN "active" ELSE reservation[r]]
      /\ stock' = [p \in Products |-> IF p \in fresh THEN stock[p] - Demand[o][p] ELSE stock[p]]
    BY <1>4, <1>5, <1>8
<1> HIDE DEF kept
<1>10. Reserve(o, a, kept)
    BY <1>2, <1>6, <1>7, <1>8, <1>9 DEF Reserve
<1>11. kept \in SUBSET Needed(o)
    BY DEF kept
<1> QED
    BY <1>10, <1>11

\* Giving back nothing changes nothing.
LEMMA SettleNothing ==
    ASSUME TypeOK, NEW newStatus, SettleRows({}, newStatus)
    PROVE  UNCHANGED vars
<1>1. \A p : UnitCount({}, p) = 0
  <2>1. \A p : UnitsOf({}, p) = {}
    BY DEF UnitsOf
  <2> QED
    BY <2>1, FS_EmptySet DEF UnitCount
<1>2. reservation' = reservation
    BY DEF SettleRows, TypeOK
<1>3. \A p \in Products : stock[p] + UnitCount({}, p) = stock[p]
    BY <1>1 DEF TypeOK
<1>4. stock' = stock
    BY <1>3 DEF SettleRows, TypeOK
<1> QED
    BY <1>2, <1>4 DEF SettleRows, vars

\* What a settle or a sweep commits is Commit, Release or Sweep of the rows it had found.
LEMMA CommitSettleIsSettle ==
    ASSUME TxInv, NEW t \in SettleTx \cup SweepTx, CommitSettle(t)
    PROVE  [Next]_vars
<1>1. t \in Txs /\ SettleOK(t) /\ marked[t] \subseteq Rows /\ TypeOK
    BY TxParts DEF TxInv, TxTypes, Inv
<1>2. SettleRows(marked[t], IF t[1] = "commit" THEN "committed" ELSE "released")
    BY DEF CommitSettle
<1>3. CASE t \in SettleTx
  <2>1. t[1] \in {"commit", "release"} /\ t[2] \in Orders
    BY <1>3, TxParts
  <2>2. marked[t] \in SUBSET ActiveRows(t[2])
    BY <1>1, <1>3 DEF SettleOK, ActiveRows
  <2>3. Commit(t[2], marked[t]) \/ Release(t[2], marked[t])
    BY <1>2, <2>1, <2>2 DEF Commit, Release
  <2> QED
    BY <2>1, <2>2, <2>3 DEF Next
<1>4. CASE t \in SweepTx
  <2>1. SettleRows(marked[t], "released")
    BY <1>2, <1>4, TxParts
  <2>2. CASE marked[t] = {}
    BY <1>1, <2>1, <2>2, SettleNothing
  <2>3. CASE marked[t] # {}
    <3>1. marked[t] \in SUBSET LapsedRows /\ Cardinality(marked[t]) <= BatchSize
        BY <1>1, <1>4 DEF SettleOK
    <3>2. Sweep(marked[t])
        BY <2>1, <2>3, <3>1 DEF Sweep
    <3> QED
        BY <3>1, <3>2 DEF Next
  <2> QED
    BY <2>2, <2>3
<1> QED
    BY <1>3, <1>4

\* The tables after somebody else's commit, as far as the running Reserves rely on them.
LEMMA ReservesBearCommits ==
    ASSUME NEW u \in ReserveTx, ReserveOK(u),
           step'[u] = step[u], todo'[u] = todo[u], marked'[u] = marked[u], holds'[u] = holds[u],
           step[u] # "ended" => <<u[2], u[3]>> \notin served',
           \A r \in Rows : reservation[r] # "absent" => reservation'[r] # "absent",
           \A r \in marked[u], b \in Attempts :
              reservation[<<r[1], r[2], b>>] # "active" => reservation'[<<r[1], r[2], b>>] # "active",
           \A p \in holds[u] : stock[p] >= Demand[u[2]][p] => stock'[p] >= Demand[u[2]][p]
    PROVE  ReserveOK(u)'
<1>1. \A r \in todo'[u] \cup marked'[u] : r[2] \in Needed(u[2])' /\ r = Line(u, r[2])
    BY DEF ReserveOK, Needed
<1>2. /\ step'[u] \in {"idle", "lookup", "take", "insert", "ended"}
      /\ Resting(u)' => todo'[u] = {} /\ marked'[u] = {} /\ holds'[u] = {}
      /\ step'[u] # "ended" => <<u[2], u[3]>> \notin served'
    BY DEF ReserveOK, Resting
<1>3. ASSUME ~Resting(u)', NEW p \in Needed(u[2])
      PROVE  \/ Line(u, p) \in todo'[u] \cup marked'[u]
             \/ \E b \in Attempts : reservation'[<<u[2], p, b>>] # "absent"
  <2>1. \/ Line(u, p) \in todo[u] \cup marked[u]
        \/ \E b \in Attempts : reservation[<<u[2], p, b>>] # "absent"
    BY <1>3 DEF ReserveOK, Resting
  <2>2. \A b \in Attempts : <<u[2], p, b>> \in Rows
    BY TxParts DEF Rows, Needed
  <2> QED
    BY <2>1, <2>2
<1>4. \A r \in marked'[u] : r[2] \in holds'[u] /\ ~HasActiveRow(r[1], r[2])'
    BY DEF ReserveOK, HasActiveRow
<1>5. \A p \in holds'[u] :
         /\ stock'[p] >= Demand[u[2]][p]
         /\ Line(u, p) \in marked'[u] \/ (step'[u] = "insert" /\ Line(u, p) \in todo'[u])
    BY DEF ReserveOK
<1>6. \A p \in holds'[u], r \in todo'[u] :
         Rank[p] < Rank[r[2]] \/ (step'[u] = "insert" /\ r = Line(u, p))
    BY DEF ReserveOK
<1>7. step'[u] = "insert" => \E p \in holds'[u] : Line(u, p) \in todo'[u]
    BY DEF ReserveOK
<1> QED
    BY <1>1, <1>2, <1>3, <1>4, <1>5, <1>6, <1>7 DEF ReserveOK, Needed

\* A Reserve that commits takes nothing the others hold.
LEMMA CommitReserveKeeps ==
    ASSUME TxInv, NEW t \in ReserveTx, CommitReserve(t)
    PROVE  TxInv'
<1>1. /\ t \in Txs /\ TxTypes /\ ReserveOK(t) /\ Inv /\ TypeOK /\ Finish(t) /\ step[t] = "lookup"
      /\ t[2] \in Orders /\ t[3] \in Attempts
    BY TxParts DEF TxInv, Inv, CommitReserve
<1>2. Inv'
    BY <1>1, CommitReserveIsReserve, ReserveInv
<1>3. /\ step'[t] = "ended" /\ todo'[t] = {} /\ marked'[t] = {} /\ holds'[t] = {}
      /\ \A u \in Txs \ {t} : /\ step'[u] = step[u] /\ todo'[u] = todo[u]
                              /\ marked'[u] = marked[u] /\ holds'[u] = holds[u]
      /\ TxTypes'
    BY <1>1, Moves DEF Finish, EndStep
<1>4. /\ reservation' = [r \in Rows |-> IF r \in marked[t] THEN "active" ELSE reservation[r]]
      /\ stock' = [p \in Products |->
             IF p \in holds[t] THEN stock[p] - Demand[t[2]][p] ELSE stock[p]]
      /\ served' = served \cup {<<t[2], t[3]>>} /\ lapsed' = lapsed
    BY DEF CommitReserve
<1>5. ReserveOK(t)'
    BY <1>3 DEF ReserveOK, Resting
<1>6. ASSUME NEW u \in ReserveTx \ {t} PROVE ReserveOK(u)'
  <2>1. u \in Txs \ {t} /\ ReserveOK(u) /\ Apart(t, u)
    BY <1>1, TxParts DEF TxInv
  <2>2. <<u[2], u[3]>> # <<t[2], t[3]>>
    BY TxParts
  <2>3. step[u] # "ended" => <<u[2], u[3]>> \notin served'
    BY <1>4, <2>1, <2>2 DEF ReserveOK
  <2>4. \A r \in Rows : reservation[r] # "absent" => reservation'[r] # "absent"
    BY <1>4
  <2>5. ASSUME NEW r \in marked[u], NEW b \in Attempts, reservation[<<r[1], r[2], b>>] # "active"
        PROVE  reservation'[<<r[1], r[2], b>>] # "active"
    <3>1. r \in Rows
        BY <1>1, <2>1 DEF TxTypes
    <3>2. <<r[1], r[2], b>> \in Rows
        BY <3>1, RowParts DEF Rows
    <3>3. <<r[1], r[2], b>> \notin marked[t]
        BY <2>1 DEF Apart
    <3> QED
        BY <1>4, <2>5, <3>2, <3>3
  <2>6. \A p \in holds[u] : stock'[p] = stock[p]
    BY <1>1, <1>4, <2>1 DEF Apart, TxTypes
  <2> QED
    BY <1>3, <2>1, <2>3, <2>4, <2>5, <2>6, ReservesBearCommits
<1>7. ASSUME NEW u \in SettleTx \cup SweepTx PROVE SettleOK(u)'
  <2>1. u \in Txs \ {t} /\ SettleOK(u) /\ marked[u] \subseteq Rows
    BY <1>1, TxParts DEF TxInv, TxTypes
  <2>2. \A r \in Rows : reservation[r] = "active" => reservation'[r] = "active"
    BY <1>4
  <2> QED
    BY <1>3, <1>4, <2>1, <2>2 DEF SettleOK, Resting, LapsedRows
<1>8. \A u, v \in Txs : u # v => Apart(u, v)'
    BY <1>1, <1>3, FewerLocksKeepApart
<1> QED
    BY <1>2, <1>3, <1>5, <1>6, <1>7, <1>8 DEF TxInv

\* A settle or a sweep that commits moves only rows of its own, and gives units back.
LEMMA CommitSettleKeeps ==
    ASSUME TxInv, NEW t \in SettleTx \cup SweepTx, CommitSettle(t)
    PROVE  TxInv'
<1>1. /\ t \in Txs /\ t \notin ReserveTx /\ TxTypes /\ SettleOK(t) /\ Inv /\ TypeOK /\ Finish(t)
      /\ marked[t] \subseteq Rows
    BY TxParts DEF TxInv, Inv, CommitSettle, TxTypes
<1>2. Inv'
    BY <1>1, CommitSettleIsSettle, NextInv
<1>3. /\ step'[t] = "idle" /\ todo'[t] = {} /\ marked'[t] = {} /\ holds'[t] = {}
      /\ \A u \in Txs \ {t} : /\ step'[u] = step[u] /\ todo'[u] = todo[u]
                              /\ marked'[u] = marked[u] /\ holds'[u] = holds[u]
      /\ TxTypes'
    BY <1>1, Moves DEF Finish, EndStep
<1>4. PICK newStatus \in {"committed", "released"} : SettleRows(marked[t], newStatus)
    BY DEF CommitSettle
<1>5. /\ reservation' = [r \in Rows |-> IF r \in marked[t] THEN newStatus ELSE reservation[r]]
      /\ served' = served /\ lapsed' = lapsed
    BY <1>4 DEF SettleRows
<1>6. \A p \in Products : stock'[p] >= stock[p] /\ stock[p] \in Nat /\ stock'[p] \in Nat
  <2>1. \A p \in Products : UnitCount(marked[t], p) \in Nat /\ stock[p] \in Nat
    BY <1>1, UnitsFinite DEF TypeOK
  <2> QED
    BY <1>4, <2>1 DEF SettleRows
<1>7. SettleOK(t)'
  <2>1. Cardinality({}) = 0 /\ 0 <= BatchSize
    BY FS_EmptySet, CatalogAssumption
  <2> QED
    BY <1>3, <2>1 DEF SettleOK, Resting
<1>8. ASSUME NEW u \in ReserveTx PROVE ReserveOK(u)'
  <2>1. u \in Txs \ {t} /\ ReserveOK(u) /\ marked[u] \subseteq Rows /\ holds[u] \subseteq Products
        /\ u[2] \in Orders
    BY <1>1, TxParts DEF TxInv, TxTypes
  <2>2. \A r \in Rows : reservation[r] # "absent" => reservation'[r] # "absent"
    BY <1>5
  <2>3. \A r \in Rows : reservation[r] # "active" => reservation'[r] # "active"
    BY <1>5
  <2>4. \A r \in marked[u], b \in Attempts : <<r[1], r[2], b>> \in Rows
    BY <2>1, RowParts DEF Rows
  <2>5. \A p \in holds[u] : stock[p] >= Demand[u[2]][p] => stock'[p] >= Demand[u[2]][p]
    <3> SUFFICES ASSUME NEW p \in holds[u] PROVE stock[p] >= Demand[u[2]][p] => stock'[p] >= Demand[u[2]][p]
        OBVIOUS
    <3>1. Demand[u[2]][p] \in Int
        BY <2>1, CatalogAssumption
    <3> QED
        BY <1>6, <2>1, <3>1
  <2>6. step[u] # "ended" => <<u[2], u[3]>> \notin served'
    BY <1>5, <2>1 DEF ReserveOK
  <2> QED
    BY <1>3, <2>1, <2>2, <2>3, <2>4, <2>5, <2>6, ReservesBearCommits
<1>9. ASSUME NEW u \in (SettleTx \cup SweepTx) \ {t} PROVE SettleOK(u)'
  <2>1. u \in Txs \ {t} /\ SettleOK(u) /\ marked[u] \subseteq Rows /\ Apart(t, u)
    BY <1>1, TxParts DEF TxInv, TxTypes
  <2>2. \A r \in marked[u] : reservation'[r] = reservation[r]
    BY <1>5, <2>1 DEF Apart
  <2> QED
    BY <1>3, <1>5, <2>1, <2>2 DEF SettleOK, Resting, LapsedRows
<1>10. \A u, v \in Txs : u # v => Apart(u, v)'
    BY <1>1, <1>3, FewerLocksKeepApart
<1> QED
    BY <1>2, <1>3, <1>7, <1>8, <1>9, <1>10 DEF TxInv

\* The clock, the returns and the stock keeper touch no product that is locked, but to add.
LEMMA ElsewhereKeeps ==
    ASSUME TxInv, Elsewhere
    PROVE  TxInv' /\ Next
<1>1. Next
    BY DEF Elsewhere, Next
<1>2. Inv /\ TypeOK /\ Inv'
    BY <1>1, NextInv DEF TxInv, Inv
<1>3. step' = step /\ todo' = todo /\ marked' = marked /\ holds' = holds
    BY DEF Elsewhere, txVars
<1>4. reservation' = reservation /\ served' = served /\ lapsed \subseteq lapsed'
    BY DEF Elsewhere, Lapse, Restock, Adjust
<1>5. ASSUME NEW u \in ReserveTx PROVE ReserveOK(u)'
  <2>1. u \in Txs /\ ReserveOK(u) /\ holds[u] \subseteq Products /\ u[2] \in Orders
    BY TxParts DEF TxInv, TxTypes
  <2>2. \A p \in holds[u] : stock[p] >= Demand[u[2]][p] => stock'[p] >= Demand[u[2]][p]
    <3> SUFFICES ASSUME NEW p \in holds[u]
                 PROVE  stock[p] >= Demand[u[2]][p] => stock'[p] >= Demand[u[2]][p]
        OBVIOUS
    <3>1. p \in Products /\ Demand[u[2]][p] \in Int /\ stock[p] \in Nat
        BY <1>2, <2>1, CatalogAssumption DEF TypeOK
    <3>2. CASE \E o \in Orders, a \in Attempts : Lapse(o, a)
        BY <3>2 DEF Lapse
    <3>3. CASE \E ret \in Returns : Restock(ret)
      <4>1. PICK ret \in Returns : Restock(ret)
        BY <3>3
      <4>2. stock'[p] = stock[p] + ReturnItems[ret][p] /\ ReturnItems[ret][p] \in Nat
        BY <3>1, <4>1, CatalogAssumption DEF Restock
      <4> QED
        BY <3>1, <4>2
    <3>4. CASE \E q \in Products, delta \in Deltas : Unlocked(q) /\ Adjust(q, delta)
      <4>1. PICK q \in Products, delta \in Deltas : Unlocked(q) /\ Adjust(q, delta)
        BY <3>4
      <4>2. q # p
        BY <2>1, <4>1 DEF Unlocked
      <4> QED
        BY <1>2, <4>1, <4>2 DEF Adjust, TypeOK
    <3> QED
        BY <3>2, <3>3, <3>4 DEF Elsewhere
  <2>3. step[u] # "ended" => <<u[2], u[3]>> \notin served'
    BY <1>4, <2>1 DEF ReserveOK
  <2> QED
    BY <1>3, <1>4, <2>1, <2>2, <2>3, ReservesBearCommits
<1>6. ASSUME NEW u \in SettleTx \cup SweepTx PROVE SettleOK(u)'
  <2>1. SettleOK(u)
    BY DEF TxInv
  <2> QED
    BY <1>3, <1>4, <2>1 DEF SettleOK, Resting, LapsedRows
<1>7. TxTypes' /\ \A u, v \in Txs : u # v => Apart(u, v)'
    BY <1>3 DEF TxInv, TxTypes, Apart
<1> QED
    BY <1>1, <1>2, <1>5, <1>6, <1>7 DEF TxInv

-----------------------------------------------------------------------------
(* The theorems *)

\* No transaction is open and nothing is reserved.
LEMMA InitTx == TxInit => TxInv
<1> SUFFICES ASSUME TxInit PROVE TxInv
    OBVIOUS
<1>1. Inv
    BY InitInv DEF TxInit
<1>2. \A t \in Txs : step[t] = "idle" /\ todo[t] = {} /\ marked[t] = {} /\ holds[t] = {}
    BY DEF TxInit
<1>3. TxTypes
    BY DEF TxInit, TxTypes
<1>4. ASSUME NEW t \in ReserveTx PROVE ReserveOK(t)
  <2>1. served = {}
    BY DEF TxInit, Init
  <2> QED
    BY <1>2, <2>1, TxParts DEF ReserveOK, Resting
<1>5. ASSUME NEW t \in SettleTx \cup SweepTx PROVE SettleOK(t)
  <2>1. Cardinality({}) = 0 /\ 0 <= BatchSize /\ t \in Txs
    BY FS_EmptySet, CatalogAssumption, TxParts
  <2> QED
    BY <1>2, <2>1 DEF SettleOK, Resting
<1>6. \A t, u \in Txs : Apart(t, u)
    BY <1>2 DEF Apart
<1> QED
    BY <1>1, <1>3, <1>4, <1>5, <1>6 DEF TxInv

\* Every statement leaves the tables alone or is a step of StockReservation, and keeps the
\* invariant.
LEMMA TxStep ==
    ASSUME TxInv, [TxNext]_allVars
    PROVE  TxInv' /\ [Next]_vars
<1>1. CASE \E t \in ReserveTx : BeginReserve(t) \/ LookUp(t) \/ Take(t) \/ Insert(t)
    BY <1>1, BeginReserveKeeps, LookUpKeeps, TakeKeeps, InsertKeeps
       DEF BeginReserve, LookUp, Take, Insert
<1>2. CASE \E t \in Txs : Short(t) \/ Victim(t) \/ Crash(t)
    BY <1>2, FinishKeeps DEF Short, Victim, Crash
<1>3. CASE \E t \in ReserveTx : CommitReserve(t)
    BY <1>3, CommitReserveKeeps, CommitReserveIsReserve, TxParts DEF Next
<1>4. CASE \E t \in SettleTx : BeginSettle(t)
    BY <1>4, BeginSettleKeeps DEF BeginSettle
<1>5. CASE \E t \in SweepTx : BeginSweep(t)
    BY <1>5, BeginSweepKeeps DEF BeginSweep
<1>6. CASE \E t \in SettleTx \cup SweepTx : Free(t)
    BY <1>6, FreeKeeps DEF Free
<1>7. CASE \E t \in SettleTx \cup SweepTx : CommitSettle(t)
    BY <1>7, CommitSettleKeeps, CommitSettleIsSettle
<1>8. CASE Elsewhere
    BY <1>8, ElsewhereKeeps
<1>9. CASE UNCHANGED allVars
  <2>1. UNCHANGED vars /\ step' = step /\ todo' = todo /\ marked' = marked /\ holds' = holds
    BY <1>9 DEF allVars, txVars
  <2>2. Inv' /\ TxTypes'
    BY <2>1, StutterInv DEF TxInv, TxTypes
  <2>3. \A u, v \in Txs : u # v => Apart(u, v)'
    BY <2>1 DEF TxInv, Apart
  <2>4. \A u \in ReserveTx : ReserveOK(u)'
    <3> SUFFICES ASSUME NEW u \in ReserveTx PROVE ReserveOK(u)'
        OBVIOUS
    <3>1. ReserveOK(u)
        BY DEF TxInv
    <3> QED
        BY <2>1, <3>1 DEF vars, ReserveOK, Resting, HasActiveRow
  <2>5. \A u \in SettleTx \cup SweepTx : SettleOK(u)'
    BY <2>1 DEF TxInv, vars, SettleOK, Resting, LapsedRows
  <2> QED
    BY <2>1, <2>2, <2>3, <2>4, <2>5 DEF TxInv
<1> QED
    BY <1>1, <1>2, <1>3, <1>4, <1>5, <1>6, <1>7, <1>8, <1>9, TxParts DEF TxNext

\* The invariant of the transactions holds in every reachable state.
LEMMA TxInvAlways == TxSpec => []TxInv
<1>1. TxInv /\ [TxNext]_allVars => TxInv'
    BY TxStep
<1> QED
    BY InitTx, <1>1, PTL DEF TxSpec

\* The transactions of catalog-service at READ COMMITTED, with their row locks, skipped
\* rows, rollbacks and crashes, do what the atomic operations of StockReservation do
\* (reservation.go, sweeper.go).
THEOREM TransactionsImplementStock == TxSpec => ImplementsStockReservation
<1>1. TxInit => Init
    BY DEF TxInit
<1>2. TxInv /\ [TxNext]_allVars => [Next]_vars
    BY TxStep
<1> QED
    BY <1>1, <1>2, TxInvAlways, PTL DEF TxSpec, ImplementsStockReservation, Spec

\* The books balance at every statement of every interleaving.
THEOREM TransactionsConserveUnits == TxSpec => []Conservation
    BY TransactionsImplementStock, UnitsConserved, PTL DEF ImplementsStockReservation

\* Reserves lock their products in one order, and what one of them waits for is never a row
\* another is inserting under a lock it wants: of Reserves alone no cycle is ever made.
THEOREM ReservesWaitInOrder == TxSpec => []ReservesNeverDeadlock
<1>1. ASSUME TxInv, NEW t \in ReserveTx, NEW u \in ReserveTx, t # u, WaitsFor(t, u)
      PROVE  \E r \in todo[t] : IsNext(t, r) /\ r[2] \in holds[u] /\ step[t] = "take"
  <2>1. t \in Txs /\ u \in Txs /\ ReserveOK(t) /\ ReserveOK(u) /\ Apart(t, u) /\ TxTypes
    BY <1>1, TxParts DEF TxInv
  <2>2. step[t] # "freeing"
    BY <2>1 DEF ReserveOK
  <2>3. ASSUME step[t] = "insert", NEW r \in todo[t], NEW b \in Attempts, IsNext(t, r),
               <<r[1], r[2], b>> \in marked[u]
        PROVE  FALSE
    <3>1. r[2] \in holds[t]
        BY <1>1, <2>3, NextIsLocked
    <3>2. r[2] \in holds[u]
        BY <2>1, <2>3 DEF ReserveOK
    <3> QED
        BY <2>1, <3>1, <3>2 DEF Apart
  <2> QED
    BY <1>1, <2>2, <2>3 DEF WaitsFor
<1>2. ASSUME TxInv, NEW C \in SUBSET (Running \cap ReserveTx), LockCycle(C)
      PROVE  FALSE
  <2> DEFINE ranks == {n \in Nat : \E t \in C : \E r \in todo[t] :
                          IsNext(t, r) /\ step[t] = "take" /\ n = Rank[r[2]]}
  <2>1. C # {} /\ \A t \in C : /\ \E u \in C \ {t} : WaitsFor(t, u)
                               /\ \E u \in C \ {t} : WaitsFor(u, t)
    BY <1>2 DEF LockCycle
  <2>2. \A t \in C : t \in ReserveTx
    OBVIOUS
  <2>3. \A t \in C : \A r \in todo[t] : IsNext(t, r) => Rank[r[2]] \in Nat
    BY <1>2, <2>2, NextIsOne, TransactionAssumption
  <2>4. \A t \in C : \E r \in todo[t] : IsNext(t, r) /\ step[t] = "take"
    BY <1>1, <1>2, <2>1, <2>2
  <2>5. ranks # {}
    BY <2>1, <2>3, <2>4
  <2>6. PICK n \in ranks : \A m \in ranks : ~(<<m, n>> \in {p \in Nat \X Nat : p[1] < p[2]})
    <3>1. IsWellFoundedOn({p \in Nat \X Nat : p[1] < p[2]}, Nat)
      BY NatLessThanWellFounded DEF OpToRel
    <3>2. ranks \subseteq Nat
      OBVIOUS
    <3> HIDE DEF ranks
    <3> QED
      BY <2>5, <3>1, <3>2, WFMin
  <2>7t. PICK t \in C : \E r \in todo[t] :
             IsNext(t, r) /\ step[t] = "take" /\ n = Rank[r[2]]
    OBVIOUS
  <2>7. PICK r \in todo[t] : IsNext(t, r) /\ step[t] = "take" /\ n = Rank[r[2]]
    BY <2>7t
  <2>8. PICK u \in C \ {t} : WaitsFor(u, t)
    BY <2>1
  <2>9. PICK s \in todo[u] : IsNext(u, s) /\ s[2] \in holds[t] /\ step[u] = "take"
    BY <1>1, <1>2, <2>2, <2>8
  <2>10. ReserveOK(t)
    BY <1>2, <2>2 DEF TxInv
  <2>11. Rank[s[2]] < n /\ Rank[s[2]] \in Nat
    BY <2>3, <2>7, <2>9, <2>10 DEF ReserveOK
  <2>12. Rank[s[2]] \in ranks
    BY <2>9, <2>11
  <2>13. <<Rank[s[2]], n>> \in {p \in Nat \X Nat : p[1] < p[2]}
    BY <2>11
  <2> QED
    BY <2>6, <2>12, <2>13
<1>3. TxInv => ReservesNeverDeadlock
    BY <1>2 DEF ReservesNeverDeadlock
<1> QED
    BY <1>3, TxInvAlways, PTL
=============================================================================
