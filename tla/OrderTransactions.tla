----------------------------- MODULE OrderTransactions -----------------------------
(***************************************************************************)
(* order-service: the transactions that move an order, one statement at a  *)
(* time.  A request of a customer or of an operator, the settlement of a   *)
(* sale at the counter and the consumer of payment events all end in       *)
(* fulfillment.Advance; each decides on a status it read while others may  *)
(* be committing another one.                                              *)
(*                                                                         *)
(* PostgreSQL, READ COMMITTED: a statement reads what is committed, SELECT *)
(* ... FOR UPDATE and UPDATE wait for a lock and read after the wait, an   *)
(* INSERT waits for an open one of the same unique key, and one that names *)
(* an order (the foreign key of processed_payment_events) shares its row:  *)
(* it waits for FOR UPDATE and FOR UPDATE waits for it, so two events of   *)
(* one order can wait for each other until the server aborts one.          *)
(*                                                                         *)
(* Outside: stock and cashback (CheckoutSaga, Promotions), who may settle a*)
(* sale and its NSU (CounterSale), the audit rows of the counter.          *)
(***************************************************************************)
EXTENDS Naturals, Sequences

CONSTANTS
    Purchases,    \* orders
    OrderHands,   \* requests and consumer replicas that may be at work at once
    Notices       \* payment events: [payment, order, to], each delivered any number of times

ASSUME NoticesAssumption ==
    \A n \in Notices : /\ n.payment # "none" /\ n.order \in Purchases
                       /\ n.to \in {"paid", "cancelled"}

VARIABLES
    orderStatus, orderStamps, orderTimeline,   \* the committed rows: see OrderJourney
    consumed,      \* processed_payment_events, committed
    orderTx           \* the open transaction of each hand

OrderCourse == INSTANCE OrderJourney WITH
    Orders <- Purchases, status <- orderStatus, stamps <- orderStamps, timeline <- orderTimeline

orderRows == <<orderStatus, orderStamps, orderTimeline>>
orderTxVars == <<orderRows, consumed, orderTx>>

-----------------------------------------------------------------------------
MoveFor(o, to) == [payment |-> "none", order |-> o, to |-> to]
NoHand == [at |-> "idle"]
\* A transaction: what it is for, and how far it is.
OpenTx(job, at) == [at |-> at, job |-> job]

HasJob(g, o) == orderTx[g].at # "idle" /\ orderTx[g].job.order = o
\* Transactions that hold the row of o: FOR UPDATE, or shared by the foreign key.
Locks(g, o) == HasJob(g, o) /\ orderTx[g].at \in {"locked", "ignored", "written"}
Shares(g, o) == HasJob(g, o) /\ orderTx[g].at = "recorded"
Others(h) == OrderHands \ {h}
HasInserted(g, n) ==
    orderTx[g].at \in {"recorded", "lost", "locked", "written", "ignored"} /\ orderTx[g].job = n

OrderTxInit ==
    /\ orderStatus = [o \in Purchases |-> "none"]
    /\ orderStamps = [o \in Purchases |-> {}]
    /\ orderTimeline = [o \in Purchases |-> <<>>]
    /\ consumed = {} /\ orderTx = [h \in OrderHands |-> NoHand]

Goes(h, tx) == orderTx' = [orderTx EXCEPT ![h] = tx]

-----------------------------------------------------------------------------
\* Create: the order and its first tracking event, seen by nobody before the COMMIT.
PlacePurchase(o) ==
    /\ orderStatus[o] = "none"
    /\ orderStatus' = [orderStatus EXCEPT ![o] = "pending_payment"]
    /\ orderTimeline' = [orderTimeline EXCEPT ![o] = <<"pending_payment">>]
    /\ UNCHANGED <<orderStamps, consumed, orderTx>>

\* Cancel, AdminCancel, MarkPicking, MarkShipped, MarkDelivered, SettleExternal.  What a
\* cancellation reads before the lock (stock_reserved, channel, total) no one ever updates.
BeginMove(h, o, to) ==
    /\ orderTx[h] = NoHand
    /\ Goes(h, OpenTx(MoveFor(o, to), "begun"))
    /\ UNCHANGED <<orderRows, consumed>>

\* Handle: is there an order for this event?  An unlocked read.
BeginNotice(h, n) ==
    /\ orderTx[h] = NoHand
    /\ Goes(h, OpenTx(n, IF orderStatus[n.order] = "none" THEN "orphan" ELSE "found"))
    /\ UNCHANGED <<orderRows, consumed>>

\* recordProcessed: the second INSERT of an event fails and its transaction is undone.
RecordNotice(h) ==
    LET n == orderTx[h].job IN
    /\ orderTx[h].at \in {"orphan", "found"}
    /\ \A g \in Others(h) : ~HasInserted(g, n)
    /\ \/ n \in consumed /\ Goes(h, NoHand)
       \/ n \notin consumed /\ orderTx[h].at = "orphan" /\ Goes(h, OpenTx(n, "lost"))
       \/ /\ n \notin consumed /\ orderTx[h].at = "found"
          /\ \A g \in Others(h) : ~Locks(g, n.order)
          /\ Goes(h, OpenTx(n, "recorded"))
    /\ UNCHANGED <<orderRows, consumed>>

\* What Advance does with the status it has read: an order that is not there and a
\* transition that is not allowed undo a request; an event is recorded as ignored.
Decided(h, seen) ==
    LET tx == orderTx[h] IN
    IF OrderCourse!CanTransition(seen, tx.job.to)
    THEN OpenTx(tx.job, "locked")
    ELSE IF tx.job \in Notices /\ seen # "none" THEN OpenTx(tx.job, "ignored")
    ELSE NoHand

\* Mutant: the status is read without FOR UPDATE.
ReadOrderUnlocked(h) ==
    /\ orderTx[h].at \in {"begun", "recorded"}
    /\ Goes(h, Decided(h, orderStatus[orderTx[h].job.order]))
    /\ UNCHANGED <<orderRows, consumed>>
\* Advance: SELECT status ... FOR UPDATE, then the table of transitions.
LockOrder(h) ==
    /\ orderTx[h].at \in {"begun", "recorded"}
    /\ \A g \in Others(h) : LET o == orderTx[h].job.order IN ~Locks(g, o) /\ ~Shares(g, o)
    /\ Goes(h, Decided(h, orderStatus[orderTx[h].job.order]))
    /\ UNCHANGED <<orderRows, consumed>>

\* Advance: UPDATE of the order and INSERT of its tracking event.
WriteOrder(h) ==
    /\ orderTx[h].at = "locked"
    /\ \A g \in Others(h) : ~(HasJob(g, orderTx[h].job.order) /\ orderTx[g].at = "written")
    /\ Goes(h, OpenTx(orderTx[h].job, "written"))
    /\ UNCHANGED <<orderRows, consumed>>

\* COMMIT: what the transaction wrote, and the event it recorded.
CommitOrder(h) ==
    LET o == orderTx[h].job.order
        to == orderTx[h].job.to IN
    /\ orderTx[h].at \in {"lost", "ignored", "written"}
    /\ consumed' = consumed \union ({orderTx[h].job} \cap Notices)
    /\ IF orderTx[h].at = "written"
       THEN /\ orderStatus' = [orderStatus EXCEPT ![o] = to]
            /\ orderStamps' = [orderStamps EXCEPT ![o] =
                                  @ \union OrderCourse!TimestampColumn(to)]
            /\ orderTimeline' = [orderTimeline EXCEPT ![o] = Append(@, to)]
       ELSE UNCHANGED orderRows
    /\ Goes(h, NoHand)

\* A client that hangs up, an audit row or a cashback that fails, a deadlock, a crash.
AbortOrderTx(h) ==
    /\ orderTx[h] # NoHand
    /\ Goes(h, NoHand)
    /\ UNCHANGED <<orderRows, consumed>>

Moves == {"paid", "picking", "shipped", "delivered", "cancelled"}
OrderTxNext ==
    \/ \E o \in Purchases : PlacePurchase(o)
    \/ \E h \in OrderHands :
        \/ \E o \in Purchases, to \in Moves : BeginMove(h, o, to)
        \/ \E n \in Notices : BeginNotice(h, n)
        \/ RecordNotice(h) \/ LockOrder(h) \/ WriteOrder(h) \/ CommitOrder(h)
        \/ AbortOrderTx(h)

OrderTxSpec == OrderTxInit /\ [][OrderTxNext]_orderTxVars
-----------------------------------------------------------------------------
(* Every variable holds a value of its kind. *)
OrderTxTypeOK ==
    /\ orderStatus \in [Purchases -> OrderCourse!OrderStatuses \union {"none"}]
    /\ DOMAIN orderStamps = Purchases /\ DOMAIN orderTimeline = Purchases
    /\ consumed \subseteq Notices
    /\ \A h \in OrderHands : orderTx[h] = NoHand \/
         /\ orderTx[h].at \in {"begun", "orphan", "found", "lost", "recorded", "ignored",
                            "locked", "written"}
         /\ orderTx[h].job.order \in Purchases /\ orderTx[h].job.to \in Moves

\* However customers, operators, settlements and payment events race for an order, with
\* whatever was committed between what they read and what they write, what is committed of
\* it is a course of the state machine, with the stamps and the tracking events of the
\* statuses it went through: "o ultimo a escrever venceria, com dois tracking events
\* contraditorios" (fulfillment/transition.go) does not happen.
ImplementsOrderJourney == OrderCourse!JourneySpec
=============================================================================
