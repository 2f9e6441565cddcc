------------------------------ MODULE CheckoutSaga ------------------------------
(***************************************************************************)
(* A purchase across three services that share no transaction:             *)
(*                                                                         *)
(*   order-service    Create, Cancel, the fulfilment endpoints and the     *)
(*                    consumer of payment events                           *)
(*   catalog-service  StockReservation, called over HTTP with a timeout    *)
(*                    and a retry; a call may be served after its caller   *)
(*                    gave up, twice, or never                             *)
(*   payment-service  PaymentEvents, read from Kafka at least once and in  *)
(*                    no order across topics                               *)
(*                                                                         *)
(* Every local transaction is one action; between two of them anything     *)
(* may happen.                                                             *)
(***************************************************************************)
EXTENDS StockReservation, PaymentEvents, Sequences

CONSTANTS
    OrderOf,            \* the order each payment is for
    MaxFaults           \* bound: timeouts, lost calls and replies, crashes, database errors,
                        \* republished events

ASSUME SagaAssumption ==
    /\ OrderOf \in [Payments -> Orders]
    /\ Attempts \in {1..1, 1..2}      \* reservationPolicy.MaxAttempts is 2
    /\ MaxFaults \in Nat

VARIABLES
    status, stamps, timeline,   \* the orders: see OrderJourney
    create,      \* where the Create request of each order is
    tries,       \* Reserve requests it has sent
    calls,       \* requests to catalog-service that may still be served
    record,      \* each event's place between the topic and the committed offset
    processed,   \* processed_payment_events
    faults,
    handleErrors    \* how many of them were errors that Handle returned

Journey == INSTANCE OrderJourney

orderVars == <<status, stamps, timeline>>
createVars == <<create, tries>>
sagaVars == <<vars, orderVars, createVars, calls, payments, record, processed, faults,
              handleErrors>>

-----------------------------------------------------------------------------
Events == Topics \X Payments
Batch == {e \in Events : record[e] \in {"fetched", "handled", "refused"}}

Fault == faults < MaxFaults /\ faults' = faults + 1
NoFault == UNCHANGED faults

ReserveCall(o, a) == <<"reserve", o, a>>
CommitCall(o) == <<"commit", o, 1>>
ReleaseCall(o) == <<"release", o, 1>>
Waiting(o, a) == create[o] = "reserving" /\ tries[o] = a

-----------------------------------------------------------------------------
(* order-service: Create *)

StartCreate(o) ==
    /\ create[o] = "idle"
    /\ create' = [create EXCEPT ![o] = "reserving"]
    /\ tries' = [tries EXCEPT ![o] = 1]
    /\ calls' = calls \cup {ReserveCall(o, 1)}
    /\ UNCHANGED <<vars, orderVars, payments, record, processed, faults, handleErrors>>

\* No answer within the client's timeout, or an error one: one more attempt, then 502.
\* What was sent may still be served.
ReserveTimesOut(o) ==
    /\ create[o] = "reserving"
    /\ IF ReserveCall(o, tries[o]) \in calls THEN Fault ELSE NoFault
    /\ IF tries[o] + 1 \in Attempts
       THEN /\ tries' = [tries EXCEPT ![o] = @ + 1]
            /\ calls' = calls \cup {ReserveCall(o, tries[o] + 1)}
            /\ UNCHANGED create
       ELSE /\ create' = [create EXCEPT ![o] = "answered"]
            /\ UNCHANGED <<tries, calls>>
    /\ UNCHANGED <<vars, orderVars, payments, record, processed, handleErrors>>

PlaceOrder(o) ==
    /\ create[o] = "reserved"
    /\ create' = [create EXCEPT ![o] = "answered"]
    /\ Journey!Place(o)
    /\ UNCHANGED <<vars, tries, calls, payments, record, processed, faults, handleErrors>>

\* The transaction of the INSERT fails and the deferred Release gives the units back.
PlaceOrderFails(o) ==
    /\ create[o] = "reserved" /\ Fault
    /\ create' = [create EXCEPT ![o] = "answered"]
    /\ calls' = calls \cup {ReleaseCall(o)}
    /\ UNCHANGED <<vars, orderVars, tries, payments, record, processed, handleErrors>>

\* COMMIT was executed and its answer lost: the order exists and its stock is released.
PlaceOrderInDoubt(o) ==
    /\ create[o] = "reserved" /\ Fault
    /\ create' = [create EXCEPT ![o] = "in_doubt"]
    /\ Journey!Place(o)
    /\ calls' = calls \cup {ReleaseCall(o)}
    /\ UNCHANGED <<vars, tries, payments, record, processed, handleErrors>>

\* The process dies between the reservation and the INSERT: nobody compensates.
CreateDies(o) ==
    /\ create[o] = "reserved" /\ Fault
    /\ create' = [create EXCEPT ![o] = "answered"]
    /\ UNCHANGED <<vars, orderVars, tries, calls, payments, record, processed, handleErrors>>

-----------------------------------------------------------------------------
(* order-service: Cancel, AdminCancel, MarkPicking, MarkShipped, MarkDelivered *)

\* Each is one transaction on the order's row (OrderTransactions shows that it may be
\* read so); what the customer's request does to the stock follows it.
Cancel(o) ==
    /\ Journey!Advance(o, "cancelled")
    /\ calls' = calls \cup {ReleaseCall(o)}
    /\ UNCHANGED <<vars, createVars, payments, record, processed, faults, handleErrors>>

Fulfil(o, to) ==
    /\ Journey!Advance(o, to)
    /\ UNCHANGED <<vars, createVars, calls, payments, record, processed, faults, handleErrors>>

-----------------------------------------------------------------------------
(* catalog-service, called over HTTP *)

\* The reply reaches the caller, unless it is lost or nobody waits for it any more.
Replies(o, a, answer) ==
    \/ /\ Waiting(o, a)
       /\ create' = [create EXCEPT ![o] = answer]
       /\ NoFault
    \/ Waiting(o, a) /\ Fault /\ UNCHANGED create
    \/ ~Waiting(o, a) /\ NoFault /\ UNCHANGED create

ServeReserve(o, a) ==
    /\ ReserveCall(o, a) \in calls
    /\ calls' = calls \ {ReserveCall(o, a)}
    /\ \E kept \in SUBSET Needed(o) : Reserve(o, a, kept)
    /\ Replies(o, a, "reserved")
    /\ UNCHANGED <<orderVars, tries, payments, record, processed, handleErrors>>

\* 409: some product is short and not already reserved.
RefuseReserve(o, a) ==
    /\ ReserveCall(o, a) \in calls
    /\ calls' = calls \ {ReserveCall(o, a)}
    /\ \E p \in Needed(o) : ~HasActiveRow(o, p) /\ stock[p] < Demand[o][p]
    /\ Replies(o, a, "answered")
    /\ UNCHANGED <<vars, orderVars, tries, payments, record, processed, handleErrors>>

\* A lost reply makes the client ask again. Requests are served in one step here, so the
\* UPDATE finds every active row: a Reserve that commits while a settle runs leaves the
\* tables as though it came after it.
ServeSettle(o) ==
    /\ \/ CommitCall(o) \in calls /\ Commit(o, ActiveRows(o))
          /\ \/ calls' = calls \ {CommitCall(o)} /\ NoFault
             \/ UNCHANGED calls /\ Fault
       \/ ReleaseCall(o) \in calls /\ Release(o, ActiveRows(o))
          /\ \/ calls' = calls \ {ReleaseCall(o)} /\ NoFault
             \/ UNCHANGED calls /\ Fault
    /\ UNCHANGED <<orderVars, createVars, payments, record, processed, handleErrors>>

\* Never sent (the caller crashed first), never received, or refused by the circuit breaker.
LoseCall(c) ==
    /\ c \in calls /\ Fault
    /\ calls' = calls \ {c}
    /\ UNCHANGED <<vars, orderVars, createVars, payments, record, processed, handleErrors>>

SweepOrLapse ==
    /\ \/ \E S \in SUBSET LapsedRows : Sweep(S)
       \/ \E o \in Orders, a \in Attempts : Lapse(o, a)
    /\ UNCHANGED <<orderVars, createVars, calls, payments, record, processed, faults,
                   handleErrors>>

-----------------------------------------------------------------------------
(* payment-service *)

\* A payment is created only for an order that still waits for one.
PspReports(p, s) ==
    /\ was[p] = {} => status[OrderOf[p]] = "pending_payment"
    /\ Becomes(p, s)
    /\ UNCHANGED <<vars, orderVars, createVars, calls, record, processed, faults, handleErrors>>

Publish(p, s) ==
    LET e == <<TopicOf(MapPSPStatus[s]), p>> IN
    /\ Announce(p, s)
    /\ record[e] = "none"
    /\ record' = [record EXCEPT ![e] = "queued"]
    /\ UNCHANGED <<vars, orderVars, createVars, calls, processed, faults, handleErrors>>

\* The drainer died between producing and marking the row, and produces it again.
Republish(e) ==
    /\ record[e] = "committed" /\ Fault
    /\ record' = [record EXCEPT ![e] = "queued"]
    /\ UNCHANGED <<vars, orderVars, createVars, calls, payments, processed, handleErrors>>

-----------------------------------------------------------------------------
(* order-service: the consumer *)

TargetStatus(topic) == IF topic = "payment.confirmed" THEN "paid" ELSE "cancelled"

PollFetches ==
    /\ Batch = {}
    /\ \E B \in SUBSET {e \in Events : record[e] = "queued"} :
        /\ B # {}
        /\ record' = [e \in Events |-> IF e \in B THEN "fetched" ELSE record[e]]
    /\ UNCHANGED <<vars, orderVars, createVars, calls, payments, processed, faults, handleErrors>>

\* Mutant: the stock is settled even when the order did not move.
HandleSettlesAnyway(e) ==
    LET o == OrderOf[e[2]]
        target == TargetStatus(e[1])
    IN
    /\ record[e] = "fetched"
    /\ record' = [record EXCEPT ![e] = "handled"]
    /\ processed' = processed \cup {e}
    /\ calls' = calls \cup {IF target = "paid" THEN CommitCall(o) ELSE ReleaseCall(o)}
    /\ IF e \notin processed /\ Journey!CanTransition(status[o], target)
       THEN Journey!Advance(o, target) ELSE UNCHANGED orderVars
    /\ UNCHANGED <<vars, createVars, payments, faults, handleErrors>>

\* Mutant: an event the order does not follow releases its stock.
HandleReleasesIfSkipped(e) ==
    LET o == OrderOf[e[2]]
        target == TargetStatus(e[1])
        moves == e \notin processed /\ Journey!CanTransition(status[o], target)
    IN
    /\ record[e] = "fetched"
    /\ record' = [record EXCEPT ![e] = "handled"]
    /\ processed' = processed \cup {e}
    /\ IF moves THEN Journey!Advance(o, target) ELSE UNCHANGED orderVars
    /\ calls' = calls \cup
          {IF moves /\ target = "paid" THEN CommitCall(o) ELSE ReleaseCall(o)}
    /\ UNCHANGED <<vars, createVars, payments, faults, handleErrors>>

\* One transaction: the idempotency row, and the order if it may move; then the call that
\* settles its stock.  A replay, and an event the order may not follow, change nothing else.
Handle(e) ==
    LET o == OrderOf[e[2]]
        target == TargetStatus(e[1])
    IN
    /\ record[e] = "fetched"
    /\ record' = [record EXCEPT ![e] = "handled"]
    /\ processed' = processed \cup {e}
    /\ IF e \notin processed /\ Journey!CanTransition(status[o], target)
       THEN /\ Journey!Advance(o, target)
            /\ calls' = calls \cup {IF target = "paid" THEN CommitCall(o) ELSE ReleaseCall(o)}
       ELSE UNCHANGED <<orderVars, calls>>
    /\ UNCHANGED <<vars, createVars, payments, faults, handleErrors>>

\* Handle returns an error; it is logged and the loop goes on.
HandleFails(e) ==
    /\ record[e] = "fetched" /\ Fault
    /\ handleErrors' = handleErrors + 1
    /\ record' = [record EXCEPT ![e] = "refused"]
    /\ UNCHANGED <<vars, orderVars, createVars, calls, payments, processed>>

\* Every record of the batch went through Handle: commit the offsets of them all.
CommitOffsets ==
    /\ Batch # {} /\ \A e \in Batch : record[e] # "fetched"
    /\ record' = [e \in Events |-> IF e \in Batch THEN "committed" ELSE record[e]]
    /\ UNCHANGED <<vars, orderVars, createVars, calls, payments, processed, faults, handleErrors>>

\* Mutant: the client commits offsets by itself, as soon as it has polled.
ConsumerDiesAutoCommitted ==
    /\ Batch # {} /\ Fault
    /\ record' = [e \in Events |-> IF e \in Batch THEN "committed" ELSE record[e]]
    /\ UNCHANGED <<vars, orderVars, createVars, calls, payments, processed, handleErrors>>

\* A crash or a rebalance before the offsets are committed: the batch comes again.
ConsumerDies ==
    /\ Batch # {} /\ Fault
    /\ record' = [e \in Events |-> IF e \in Batch THEN "queued" ELSE record[e]]
    /\ UNCHANGED <<vars, orderVars, createVars, calls, payments, processed, handleErrors>>

-----------------------------------------------------------------------------
SagaInit ==
    /\ Init /\ Journey!JourneyInit /\ EventsInit
    /\ create = [o \in Orders |-> "idle"]
    /\ tries = [o \in Orders |-> 0]
    /\ calls = {}
    /\ record = [e \in Events |-> "none"]
    /\ processed = {}
    /\ faults = 0
    /\ handleErrors = 0

SagaNext ==
    \/ \E o \in Orders :
        \/ StartCreate(o) \/ ReserveTimesOut(o) \/ PlaceOrder(o) \/ PlaceOrderFails(o)
        \/ PlaceOrderInDoubt(o) \/ CreateDies(o) \/ Cancel(o) \/ ServeSettle(o)
        \/ \E to \in {"picking", "shipped", "delivered"} : Fulfil(o, to)
        \/ \E a \in Attempts : ServeReserve(o, a) \/ RefuseReserve(o, a)
    \/ \E c \in calls : LoseCall(c)
    \/ SweepOrLapse
    \/ \E p \in Payments, s \in Reported : PspReports(p, s) \/ Publish(p, s)
    \/ \E e \in Events : Republish(e) \/ Handle(e) \/ HandleFails(e)
    \/ PollFetches \/ CommitOffsets \/ ConsumerDies

\* The services keep running: catalog-service serves what it received, its clock and its
\* sweeper go on, the consumer polls and handles.  Customers, operators and the PSP owe
\* nobody a step.
SagaFairness ==
    /\ \A o \in Orders :
        /\ WF_sagaVars(ReserveTimesOut(o)) /\ WF_sagaVars(PlaceOrder(o))
        /\ WF_sagaVars(ServeSettle(o))
        /\ \A a \in Attempts : WF_sagaVars(ServeReserve(o, a) \/ RefuseReserve(o, a))
    /\ WF_sagaVars(SweepOrLapse)
    /\ WF_sagaVars(PollFetches) /\ WF_sagaVars(CommitOffsets)
    /\ \A e \in Events : WF_sagaVars(Handle(e) \/ HandleFails(e))

SagaSpec == SagaInit /\ [][SagaNext]_sagaVars /\ SagaFairness

-----------------------------------------------------------------------------
SagaTypeOK ==
    /\ TypeOK /\ Journey!JourneyTypeOK
    /\ was \in [Payments -> SUBSET Reported]
    /\ log \subseteq Events
    /\ create \in [Orders -> {"idle", "reserving", "reserved", "in_doubt", "answered"}]
    /\ tries \in [Orders -> {0} \cup Attempts]
    /\ calls \subseteq {"reserve", "commit", "release"} \X Orders \X Attempts
    /\ record \in [Events -> {"none", "queued", "fetched", "handled", "refused", "committed"}]
    /\ processed \subseteq log
    /\ faults \in 0..MaxFaults /\ handleErrors \in 0..faults

WasPaid(o) == "paid_at" \in stamps[o]

\* The tracking events a customer reads are a path of the state machine that ends at the
\* order's status, however cancellations, operators and payment events race.
TimelineIsPath == Journey!TimelineIsPath

\* paid_at, shipped_at, ... are filled exactly for the statuses the order went through.
StampsTellTheTimeline == Journey!StampsTellTheTimeline

\* No event or operator cancels an order whose goods are with the carrier.
NoCancelAfterDispatch == Journey!NoCancelAfterDispatch

\* catalog-service writes units off for good only for an order that was paid: the commit
\* of a reservation follows the order's transaction (consumer/payment.go, Handle).
SoldImpliesPaid ==
    \A r \in Rows : reservation[r] = "committed" => WasPaid(r[1])

\* An order is paid only on a payment.confirmed event of one of its own payments.
PaidImpliesConfirmedEvent ==
    \A o \in Orders : WasPaid(o) =>
        \E p \in Payments : OrderOf[p] = o /\ <<"payment.confirmed", p>> \in log

\* Nobody gives back the units of a live paid order, except the sweeper once their
\* reservation has expired and a checkout whose COMMIT was in doubt.
PaidOrderKeepsItsGoods ==
    \A r \in Rows :
        reservation[r] = "released" /\ WasPaid(r[1]) =>
            \/ status[r[1]] = "cancelled"
            \/ <<r[1], r[3]>> \in lapsed
            \/ create[r[1]] = "in_doubt"

\* Every published event is processed by order-service in the end: "a mensagem volta no
\* proximo poll" (consumer/payment.go, Run).
EveryEventIsProcessed == \A e \in Events : (e \in log) ~> (e \in processed)

\* Whatever else fails between the broker and the order (a crash before or after the
\* transaction, a rebalance, an event produced twice), no event is skipped as long as
\* Handle itself never returned an error.
NoEventIsSkipped ==
    \A e \in Events : (e \in log) ~> (e \in processed \/ handleErrors > 0)

\* No unit is held for ever, whatever was lost between the services: it is sold, released
\* or swept.
NoUnitHeldForever ==
    \A r \in Rows : (reservation[r] = "active") ~> (reservation[r] # "active")

\* Cancelling an order gives its goods back: "devolve o estoque igualmente"
\* (handler/fulfillment.go, AdminCancel).
CancelledGoodsComeBack ==
    \A r \in Rows :
        (status[r[1]] = "cancelled" /\ r \in Outstanding) ~> (r \notin Outstanding)
=============================================================================
