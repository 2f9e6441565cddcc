--------------------------- MODULE StockTransactions ---------------------------
(***************************************************************************)
(* The transactions of catalog-service statement by statement, as Postgres *)
(* runs them at READ COMMITTED: a SELECT sees committed rows and takes no  *)
(* lock, an UPDATE waits for the row lock and evaluates its WHERE clause   *)
(* again on the newest version, and locks are held to the end of the       *)
(* transaction.  `stock` and `reservation` are the committed tables; what  *)
(* a running transaction wrote is in `marked` and `holds`.                 *)
(*                                                                         *)
(* The order in which Reserve takes its product locks (sort.Slice) is the  *)
(* order of Rank.  settle and SweepOnce take theirs in the order in which  *)
(* the rows came back, which is any order.                                 *)
(***************************************************************************)
EXTENDS StockReservation

CONSTANTS
    Rank,           \* the order of product ids
    Sweepers,       \* replicas of catalog-service, each with its sweeper
    MaxRunning,     \* bound: transactions open at once
    MaxFailures     \* bound: transactions lost to a crash or a database error

ASSUME TransactionAssumption ==
    /\ Rank \in [Products -> Nat]
    /\ \A p, q \in Products : Rank[p] = Rank[q] => p = q
    /\ MaxRunning \in Nat \ {0} /\ MaxFailures \in Nat

VARIABLES
    step,      \* where each transaction is
    todo,      \* the rows it still has to insert, or to give units back for
    marked,    \* the rows it has written and not committed
    holds,     \* the products whose row lock it holds
    failures

txVars == <<step, todo, marked, holds, failures>>
allVars == <<vars, txVars>>

-----------------------------------------------------------------------------
ReserveTx == {"reserve"} \X Orders \X Attempts
SettleTx == {"commit", "release"} \X Orders
SweepTx == {"sweep"} \X Sweepers
Txs == ReserveTx \cup SettleTx \cup SweepTx

Running == {t \in Txs : step[t] \notin {"idle", "ended"}}
ProductFree(t, p) == \A u \in Txs \ {t} : p \notin holds[u]
RowFree(t, r) == \A u \in Txs \ {t} : r \notin marked[u]
MayBegin(t) == step[t] = "idle" /\ Cardinality(Running) < MaxRunning

\* Mutant: Reserve without sort.Slice takes the rows in the order of the cart, any order.
IsNextInCart(t, r) == r \in todo[t]

\* The row Reserve turns to next: the product with the smallest id.
IsNext(t, r) == r \in todo[t] /\ \A s \in todo[t] : Rank[r[2]] <= Rank[s[2]]

Move(t, newStep, newTodo, newMarked, newHolds) ==
    /\ step' = [step EXCEPT ![t] = newStep]
    /\ todo' = [todo EXCEPT ![t] = newTodo]
    /\ marked' = [marked EXCEPT ![t] = newMarked]
    /\ holds' = [holds EXCEPT ![t] = newHolds]

\* Mutant: the sweeper's loop returns after its first transaction.
EndStepForGood(t) == "ended"

\* A reservation request is answered once; settles and sweeps come again.
EndStep(t) == IF t \in ReserveTx THEN "ended" ELSE "idle"
Finish(t) == Move(t, EndStep(t), {}, {}, {})

-----------------------------------------------------------------------------
(* Reserve *)

BeginReserve(t) ==
    /\ MayBegin(t)
    /\ Move(t, "lookup", {<<t[2], p, t[3]>> : p \in Needed(t[2])}, {}, {})
    /\ UNCHANGED <<vars, failures>>

\* SELECT quantity ... status = 'active': found means already reserved, skip.
LookUp(t) ==
    /\ step[t] = "lookup"
    /\ \E r \in todo[t] :
        /\ IsNext(t, r)
        /\ IF HasActiveRow(r[1], r[2])
           THEN Move(t, "lookup", todo[t] \ {r}, marked[t], holds[t])
           ELSE Move(t, "take", todo[t], marked[t], holds[t])
    /\ UNCHANGED <<vars, failures>>

\* Mutant: the balance is read before the lock and not again once it is granted.
TakeOnOldBalance(t) ==
    /\ step[t] = "take"
    /\ \E r \in todo[t] :
        /\ IsNext(t, r) /\ stock[r[2]] >= Quantity(r)
        /\ Move(t, "insert", todo[t], marked[t], holds[t] \cup {r[2]})
    /\ UNCHANGED <<vars, failures>>

\* UPDATE products SET stock = stock - $2 WHERE stock >= $2, once the row lock is free.
Take(t) ==
    /\ step[t] = "take"
    /\ \E r \in todo[t] :
        /\ IsNext(t, r)
        /\ ProductFree(t, r[2]) /\ stock[r[2]] >= Quantity(r)
        /\ Move(t, "insert", todo[t], marked[t], holds[t] \cup {r[2]})
    /\ UNCHANGED <<vars, failures>>

\* No row satisfied the WHERE clause: 409, or 404 for an unpublished product.
Short(t) ==
    /\ step[t] = "take"
    /\ \E r \in todo[t] : IsNext(t, r) /\ stock[r[2]] < Quantity(r)
    /\ Finish(t)
    /\ UNCHANGED <<vars, failures>>

\* INSERT: it waits for whoever is writing a row of the same order and product, and
\* fails with the transaction when an active one is there (the unique index).
Insert(t) ==
    /\ step[t] = "insert"
    /\ \E r \in todo[t] :
        /\ IsNext(t, r)
        /\ \A b \in Attempts : RowFree(t, <<r[1], r[2], b>>)
        /\ IF HasActiveRow(r[1], r[2])
           THEN Finish(t)
           ELSE Move(t, "lookup", todo[t] \ {r}, marked[t] \cup {r}, holds[t])
    /\ UNCHANGED <<vars, failures>>

CommitReserve(t) ==
    /\ step[t] = "lookup" /\ todo[t] = {}
    /\ reservation' = [r \in Rows |-> IF r \in marked[t] THEN "active" ELSE reservation[r]]
    /\ stock' = [p \in Products |->
           IF p \in holds[t] THEN stock[p] - Demand[t[2]][p] ELSE stock[p]]
    /\ served' = served \cup {<<t[2], t[3]>>}
    /\ Finish(t)
    /\ UNCHANGED <<lapsed, restocked, received, failures>>

-----------------------------------------------------------------------------
(* settle and SweepOnce *)

\* UPDATE stock_reservations ... WHERE order_id = $1 AND status = 'active' RETURNING,
\* after waiting for the locks on those rows.
BeginSettle(t) ==
    LET found == ActiveRows(t[2]) IN
    /\ MayBegin(t)
    /\ found # {} /\ \A r \in found : RowFree(t, r)
    /\ Move(t, "freeing", IF t[1] = "release" THEN found ELSE {}, found, {})
    /\ UNCHANGED <<vars, failures>>

\* SELECT ... WHERE expires_at <= now() LIMIT n FOR UPDATE SKIP LOCKED, then the UPDATE.
BeginSweep(t) ==
    LET free == {r \in LapsedRows : RowFree(t, r)} IN
    /\ MayBegin(t)
    /\ free # {}
    /\ \E S \in SUBSET free :
        /\ Cardinality(S) = IF Cardinality(free) < BatchSize
                            THEN Cardinality(free) ELSE BatchSize
        /\ Move(t, "freeing", S, S, {})
    /\ UNCHANGED <<vars, failures>>

\* UPDATE products SET stock = stock + $2, one row after another.
Free(t) ==
    /\ step[t] = "freeing"
    /\ \E r \in todo[t] :
        /\ ProductFree(t, r[2])
        /\ Move(t, "freeing", todo[t] \ {r}, marked[t], holds[t] \cup {r[2]})
    /\ UNCHANGED <<vars, failures>>

CommitSettle(t) ==
    /\ step[t] = "freeing" /\ todo[t] = {}
    /\ SettleRows(marked[t], IF t[1] = "commit" THEN "committed" ELSE "released")
    /\ Finish(t)
    /\ UNCHANGED failures

-----------------------------------------------------------------------------
(* Locks, failures and the rest of the service *)

\* t cannot go on before u ends. (An UPDATE whose WHERE the committed row fails locks
\* nothing.)
WaitsFor(t, u) ==
    \/ /\ step[t] = "take"
       /\ \E r \in todo[t] : IsNext(t, r) /\ r[2] \in holds[u] /\ stock[r[2]] >= Quantity(r)
    \/ /\ step[t] = "insert"
       /\ \E r \in todo[t], b \in Attempts : IsNext(t, r) /\ <<r[1], r[2], b>> \in marked[u]
    \/ /\ step[t] = "freeing"
       /\ \A r \in todo[t] : ~ProductFree(t, r[2])
       /\ \E r \in todo[t] : r[2] \in holds[u]

LockCycle(C) ==
    /\ C # {}
    /\ \A t \in C : (\E u \in C \ {t} : WaitsFor(t, u)) /\ (\E u \in C \ {t} : WaitsFor(u, t))

\* Postgres aborts one transaction of a cycle.
Victim(t) ==
    /\ \E C \in SUBSET Running : t \in C /\ LockCycle(C)
    /\ Finish(t)
    /\ UNCHANGED <<vars, failures>>

\* A database error, a crash of the replica or a caller that went away.
Crash(t) ==
    /\ failures < MaxFailures /\ t \in Running
    /\ failures' = failures + 1
    /\ Finish(t)
    /\ UNCHANGED vars

\* The row locks these transactions need are free, since they run as one step.
Unlocked(p) == \A t \in Txs : p \notin holds[t]
Elsewhere ==
    /\ \/ \E o \in Orders, a \in Attempts : Lapse(o, a)
       \/ \E ret \in Returns : (\A p \in Products : Unlocked(p)) /\ Restock(ret)
       \/ \E p \in Products, delta \in Deltas : Unlocked(p) /\ Adjust(p, delta)
    /\ UNCHANGED txVars

TxInit ==
    /\ Init
    /\ step = [t \in Txs |-> "idle"]
    /\ todo = [t \in Txs |-> {}]
    /\ marked = [t \in Txs |-> {}]
    /\ holds = [t \in Txs |-> {}]
    /\ failures = 0

TxNext ==
    \/ \E t \in ReserveTx : BeginReserve(t) \/ LookUp(t) \/ Take(t) \/ Short(t) \/ Insert(t)
                              \/ CommitReserve(t)
    \/ \E t \in SettleTx : BeginSettle(t)
    \/ \E t \in SweepTx : BeginSweep(t)
    \/ \E t \in SettleTx \cup SweepTx : Free(t) \/ CommitSettle(t)
    \/ \E t \in Txs : Victim(t) \/ Crash(t)
    \/ Elsewhere

\* The sweeper's ticker fires for ever; an open transaction runs on; Postgres grants row
\* locks in the order they were asked for and looks for deadlocks.  Nothing obliges a
\* caller to reserve or settle, and nothing fails by fairness.
TxFairness ==
    /\ \A t \in ReserveTx :
        WF_allVars(LookUp(t) \/ Short(t) \/ CommitReserve(t))
          /\ SF_allVars(Take(t)) /\ SF_allVars(Insert(t))
    /\ \A t \in SettleTx \cup SweepTx : SF_allVars(Free(t)) /\ WF_allVars(CommitSettle(t))
    /\ \A t \in SweepTx : SF_allVars(BeginSweep(t))
    /\ \A t \in Txs : WF_allVars(Victim(t))

TxSpec == TxInit /\ [][TxNext]_allVars /\ TxFairness

-----------------------------------------------------------------------------
TxTypeOK ==
    /\ TypeOK
    /\ step \in [Txs -> {"idle", "lookup", "take", "insert", "freeing", "ended"}]
    /\ todo \in [Txs -> SUBSET Rows]
    /\ marked \in [Txs -> SUBSET Rows]
    /\ holds \in [Txs -> SUBSET Products]
    /\ failures \in 0..MaxFailures

\* Two Reserves of overlapping carts never wait for one another: the lock order that
\* sort.Slice gives them (reservation.go, Reserve).
ReservesNeverDeadlock ==
    \A C \in SUBSET (Running \cap ReserveTx) : ~LockCycle(C)

\* No transaction of the service ever waits in a cycle: "a global order of lock
\* acquisition", which settle and SweepOnce do not follow.
NoLockCycle == \A C \in SUBSET Running : ~LockCycle(C)

\* The statements of each transaction amount to one atomic step of StockReservation.
ImplementsStockReservation == Spec

\* Every transaction that begins ends, by commit or by rollback.
TransactionsEnd == \A t \in Txs : (t \in Running) ~> (t \notin Running)

\* The units of an abandoned cart do not stay off the shelf: a reservation whose TTL has
\* passed is committed or swept in the end (the reason sweeper.go gives for its existence).
LapsedUnitsComeBack == \A r \in Rows : (r \in LapsedRows) ~> (r \notin LapsedRows)
=============================================================================
