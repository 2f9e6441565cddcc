------------------------------- MODULE OrderJourney -------------------------------
(***************************************************************************)
(* order-service: what an order may become.  The table of transitions      *)
(* (model/transition.go) and the only two ways a row of `orders` changes   *)
(* its status: the INSERT of a checkout and fulfillment.Advance, which     *)
(* locks the row, asks the table, writes the status and its timestamp and  *)
(* adds a tracking event, all in the caller's transaction.                 *)
(*                                                                         *)
(* This is the abstract specification of an order: CheckoutSaga, where     *)
(* customers, operators and the payment consumer race for the row,         *)
(* implements it.                                                          *)
(***************************************************************************)
EXTENDS Naturals, Sequences

CONSTANT Orders

VARIABLES
    status,    \* orders.status, "none" before the INSERT
    stamps,    \* the timestamp columns that are not NULL
    timeline   \* tracking_events, oldest first

journey == <<status, stamps, timeline>>

-----------------------------------------------------------------------------
OrderStatuses ==
    {"pending_payment", "paid", "picking", "shipped", "delivered", "cancelled"}

AllowedTransitions ==
    [pending_payment |-> {"paid", "cancelled"},
     paid            |-> {"picking", "cancelled"},
     picking         |-> {"shipped", "cancelled"},
     shipped         |-> {"delivered"},
     delivered       |-> {},
     cancelled       |-> {}]

CanTransition(from, to) == from \in OrderStatuses /\ to \in AllowedTransitions[from]

IsTerminal(s) == s \in OrderStatuses /\ AllowedTransitions[s] = {}

\* The column that Advance fills on entering s.
TimestampColumn(s) ==
    CASE s = "paid" -> {"paid_at"}
      [] s = "picking" -> {"picked_at"}
      [] s = "shipped" -> {"shipped_at"}
      [] s = "delivered" -> {"delivered_at"}
      [] s = "cancelled" -> {"cancelled_at"}
      [] OTHER -> {}

-----------------------------------------------------------------------------
JourneyInit ==
    /\ status = [o \in Orders |-> "none"]
    /\ stamps = [o \in Orders |-> {}]
    /\ timeline = [o \in Orders |-> <<>>]

\* The INSERT of a checkout, with its first tracking event.
Place(o) ==
    /\ status[o] = "none"
    /\ status' = [status EXCEPT ![o] = "pending_payment"]
    /\ timeline' = [timeline EXCEPT ![o] = <<"pending_payment">>]
    /\ UNCHANGED stamps

Advance(o, to) ==
    /\ CanTransition(status[o], to)
    /\ status' = [status EXCEPT ![o] = to]
    /\ stamps' = [stamps EXCEPT ![o] = @ \cup TimestampColumn(to)]
    /\ timeline' = [timeline EXCEPT ![o] = Append(@, to)]

JourneyNext ==
    \E o \in Orders : Place(o) \/ \E to \in OrderStatuses : Advance(o, to)

JourneySpec == JourneyInit /\ [][JourneyNext]_journey

-----------------------------------------------------------------------------
JourneyTypeOK ==
    /\ status \in [Orders -> OrderStatuses \cup {"none"}]
    /\ timeline \in [Orders -> Seq(OrderStatuses)]
    /\ stamps \in [Orders -> SUBSET UNION {TimestampColumn(s) : s \in OrderStatuses}]

\* What the customer is shown is what happened: the tracking events of an order start at
\* pending_payment, go from each status to one the table allows, and end at orders.status
\* ("dois tracking events contraditórios" is what Advance's row lock is there to prevent).
TimelineIsPath ==
    \A o \in Orders :
        /\ status[o] = "none" <=> timeline[o] = <<>>
        /\ status[o] # "none" =>
            /\ timeline[o][1] = "pending_payment"
            /\ timeline[o][Len(timeline[o])] = status[o]
            /\ \A i \in 1..Len(timeline[o]) - 1 :
                 CanTransition(timeline[o][i], timeline[o][i + 1])

\* The timestamps of an order are those of the statuses it went through, no more, no fewer:
\* a cancelled order that was never paid has no paid_at.
StampsTellTheTimeline ==
    \A o \in Orders :
        stamps[o] = UNION {TimestampColumn(timeline[o][i]) : i \in 1..Len(timeline[o])}

\* Once the goods are with the carrier the order cannot be cancelled, whoever asks
\* (the business rule of model/transition.go).
NoCancelAfterDispatch ==
    [][\A o \in Orders : status[o] \in {"shipped", "delivered"}
                           => status'[o] # "cancelled"]_journey
=============================================================================
