------------------------------ MODULE PaymentEvents ------------------------------
(***************************************************************************)
(* What payment-service promises to the rest of the system, whatever       *)
(* happens inside it: an event on a Kafka topic reports a status the       *)
(* payment has had at the PSP.  PaymentCapture implements this module;     *)
(* CheckoutSaga relies on it and on nothing else of the payment side.      *)
(***************************************************************************)
EXTENDS Naturals

CONSTANTS
    Payments,
    Reported    \* the normalised statuses this PSP reports: Stripe never says rejected or expired


VARIABLES
    was,    \* the statuses each payment has had at the PSP
    log     \* the events published: <<topic, payment>>

payments == <<was, log>>

PspStatuses == {"pending", "authorized", "approved", "rejected", "cancelled", "expired"}

ASSUME ReportedAssumption == Reported \subseteq PspStatuses

-----------------------------------------------------------------------------
Topics == {"payment.confirmed", "payment.failed", "payment.cancelled"}

\* Mutant: every status without a case of its own counts as confirmed.
ConfirmByDefault ==
    [pending |-> "confirmed", authorized |-> "confirmed", approved |-> "confirmed",
     rejected |-> "failed", cancelled |-> "cancelled", expired |-> "expired"]

\* mapPSPStatus: the payment status that a status of the PSP stands for.
MapPSPStatus ==
    [pending |-> "pending", authorized |-> "pending", approved |-> "confirmed",
     rejected |-> "failed", cancelled |-> "cancelled", expired |-> "expired"]

\* The event type, and topic, under which processEvent reports a payment status.
TopicOf(s) ==
    CASE s = "failed" -> "payment.failed"
      [] s = "cancelled" -> "payment.cancelled"
      [] OTHER -> "payment.confirmed"

-----------------------------------------------------------------------------
EventsInit ==
    /\ was = [p \in Payments |-> {}]
    /\ log = {}

\* The PSP gives the payment a status, its first one or another.
Becomes(p, s) ==
    /\ s \notin was[p]
    /\ was' = [was EXCEPT ![p] = @ \cup {s}]
    /\ UNCHANGED log

Announce(p, s) ==
    /\ s \in was[p]
    /\ log' = log \cup {<<TopicOf(MapPSPStatus[s]), p>>}
    /\ UNCHANGED was

EventsNext == \E p \in Payments, s \in Reported : Becomes(p, s) \/ Announce(p, s)

EventsSpec == EventsInit /\ [][EventsNext]_payments
=============================================================================
