----------------------------- MODULE PaymentCapture -----------------------------
(***************************************************************************)
(* payment-service: from the request to charge an order to the event that  *)
(* tells the rest of the system what became of the charge.                 *)
(*                                                                         *)
(* Create talks to the PSP between two database statements, the webhook    *)
(* handler asks the PSP before its transaction, Sync does the same without *)
(* one, and the drainer moves the outbox to Kafka: the PSP, the row, the   *)
(* outbox and the topics change one at a time.                             *)
(*                                                                         *)
(* The transaction of processEvent is one step: all it reads of the        *)
(* payment's row decides only whether an equal status is written again.    *)
(***************************************************************************)
EXTENDS PaymentEvents, FiniteSets, Sequences

CONSTANTS
    EventType,      \* the event type under which the PSP notifies each status
    MaxInHand,      \* bound: webhook requests being handled at once
    MaxFaults,      \* bound: crashes, lost writes, PSP calls in doubt, failed productions
    ServiceYears    \* how long the service will run

ASSUME CaptureAssumption ==
    /\ DOMAIN EventType = PspStatuses
    /\ MaxInHand \in Nat \ {0} /\ MaxFaults \in Nat
    /\ ServiceYears \in Nat

VARIABLES
    request,      \* where the Create request of each payment is
    row,          \* payments.status, "absent" before the INSERT
    linked,       \* the rows with a psp_payment_id
    now,          \* the status each payment has at the PSP
    wrongAmount,  \* the payments for which the PSP charged another amount
    notices,      \* the notices the PSP has sent: it may deliver each any number of times
    inHand,       \* webhook requests that have the PSP's answer and not yet a transaction
    seen,         \* webhook_events: the notices processed
    outbox,       \* where the payments_outbox row of each notice is
    event,        \* its event_type
    attempts,     \* its attempts
    sales,        \* the confirmed payments entered in the ledger
    syncs,        \* Sync requests that have read the row and asked the PSP
    faults

pspVars == <<now, was, wrongAmount>>
outboxVars == <<outbox, event, attempts>>
captureVars == <<request, row, linked, pspVars, notices, inHand, seen, outboxVars, log,
                 sales, syncs, faults>>

-----------------------------------------------------------------------------
PaymentStatuses == {"pending", "confirmed", "failed", "cancelled", "expired"}
Types == {EventType[s] : s \in Reported}
Notices == Payments \X Types
FraudSuspect == "payment.fraud_suspect"

Fault == faults < MaxFaults /\ faults' = faults + 1

\* The PSP: what may follow a status.  A refused card may be tried again, an approved
\* charge may be refunded, cancelled or disputed.
PspMoves ==
    [pending    |-> {"authorized", "approved", "rejected", "cancelled", "expired"},
     authorized |-> {"approved", "cancelled", "expired"},
     approved   |-> {"cancelled", "pending"},
     rejected   |-> {"pending"},
     cancelled  |-> {},
     expired    |-> {}]

\* The PSP gives payment p status s and will notify it.
PspSets(p, s) ==
    /\ now' = [now EXCEPT ![p] = s]
    /\ was' = [was EXCEPT ![p] = @ \cup {s}]
    /\ notices' = notices \cup {<<p, EventType[s]>>}

PspChanges(p, s) ==
    /\ now[p] # "none" /\ s \in PspMoves[now[p]]
    /\ PspSets(p, s)
    /\ UNCHANGED <<request, row, linked, wrongAmount, inHand, seen, outboxVars, log,
                   sales, syncs, faults>>

-----------------------------------------------------------------------------
(* Create *)

InsertPayment(p) ==
    /\ request[p] = "idle"
    /\ request' = [request EXCEPT ![p] = "charging"]
    /\ row' = [row EXCEPT ![p] = "pending"]
    /\ UNCHANGED <<linked, pspVars, notices, inHand, seen, outboxVars, log, sales, syncs,
                   faults>>

\* The PSP creates the payment, with one of the statuses a new one may have.  The answer may
\* be lost: Create then marks its row failed and never learns the PSP's id.
Charge(p, s) ==
    /\ request[p] = "charging"
    /\ s \in {"pending", "authorized", "approved", "rejected"}
    /\ PspSets(p, s)
    /\ wrongAmount' \in {wrongAmount, wrongAmount \cup {p}}
    /\ \/ /\ request' = [request EXCEPT ![p] = "charged"]
          /\ UNCHANGED <<row, faults>>
       \/ /\ Fault
          /\ request' = [request EXCEPT ![p] = "done"]
          /\ row' = [row EXCEPT ![p] = "failed"]
    /\ UNCHANGED <<linked, inHand, seen, outboxVars, log, sales, syncs>>

ChargeRefused(p) ==
    /\ request[p] = "charging"
    /\ request' = [request EXCEPT ![p] = "done"]
    /\ row' = [row EXCEPT ![p] = "failed"]
    /\ UNCHANGED <<linked, pspVars, notices, inHand, seen, outboxVars, log, sales, syncs,
                   faults>>

\* UPDATE payments SET psp_payment_id; its error is ignored.
Link(p) ==
    /\ request[p] = "charged"
    /\ request' = [request EXCEPT ![p] = "done"]
    /\ \/ linked' = linked \cup {p} /\ UNCHANGED faults
       \/ Fault /\ UNCHANGED linked
    /\ UNCHANGED <<row, pspVars, notices, inHand, seen, outboxVars, log, sales, syncs>>

-----------------------------------------------------------------------------
(* The webhook *)

\* Mutant: a notice of a status the payment no longer has is refused.
FetchOnlyCurrent(n) ==
    /\ n \in notices /\ n[2] = EventType[now[n[1]]]
    /\ Cardinality(inHand) < MaxInHand
    /\ inHand' = inHand \cup {<<n, now[n[1]]>>}
    /\ UNCHANGED <<request, row, linked, pspVars, notices, seen, outboxVars, log, sales,
                   syncs, faults>>

\* Handle, up to the answer of GetPayment.
FetchForWebhook(n) ==
    /\ n \in notices
    /\ Cardinality(inHand) < MaxInHand
    /\ inHand' = inHand \cup {<<n, now[n[1]]>>}
    /\ UNCHANGED <<request, row, linked, pspVars, notices, seen, outboxVars, log, sales,
                   syncs, faults>>

Enqueue(n, eventType) ==
    /\ outbox' = [outbox EXCEPT ![n] = "waiting"]
    /\ event' = [event EXCEPT ![n] = eventType]
    /\ UNCHANGED attempts

\* postSale, after the commit: idempotent, and its failure is only logged.
PostSale(p, newStatus) ==
    \/ newStatus = "confirmed" /\ sales' = sales \cup {p} /\ UNCHANGED faults
    \/ newStatus = "confirmed" /\ Fault /\ UNCHANGED sales
    \/ newStatus # "confirmed" /\ UNCHANGED <<sales, faults>>

\* Mutant: no amount check.
ProcessAnyAmount(n, s) ==
    LET p == n[1]
        newStatus == MapPSPStatus[s]
    IN
    /\ <<n, s>> \in inHand
    /\ inHand' = inHand \ {<<n, s>>}
    /\ seen' = seen \cup {n}
    /\ IF n \in seen \/ p \notin linked
       THEN UNCHANGED <<row, outboxVars, sales, faults>>
       ELSE /\ Enqueue(n, TopicOf(newStatus))
            /\ row' = [row EXCEPT ![p] = newStatus]
            /\ PostSale(p, newStatus)
    /\ UNCHANGED <<request, linked, pspVars, notices, log, syncs>>

\* Mutant: a charge of another amount cancels the order instead of raising a suspicion.
ProcessCancelsWrongAmount(n, s) ==
    LET p == n[1]
        newStatus == IF p \in wrongAmount THEN "cancelled" ELSE MapPSPStatus[s]
    IN
    /\ <<n, s>> \in inHand
    /\ inHand' = inHand \ {<<n, s>>}
    /\ seen' = seen \cup {n}
    /\ IF n \in seen \/ p \notin linked
       THEN UNCHANGED <<row, outboxVars, sales, faults>>
       ELSE /\ Enqueue(n, TopicOf(newStatus))
            /\ row' = [row EXCEPT ![p] = newStatus]
            /\ PostSale(p, newStatus)
    /\ UNCHANGED <<request, linked, pspVars, notices, log, syncs>>

\* processEvent: idempotency row, payment, amount, status, outbox, in one transaction.
ProcessEvent(n, s) ==
    LET p == n[1]
        newStatus == MapPSPStatus[s]
    IN
    /\ <<n, s>> \in inHand
    /\ inHand' = inHand \ {<<n, s>>}
    /\ seen' = seen \cup {n}
    /\ IF n \in seen \/ p \notin linked
       THEN UNCHANGED <<row, outboxVars, sales, faults>>
       ELSE IF p \in wrongAmount
       THEN Enqueue(n, FraudSuspect) /\ UNCHANGED <<row, sales, faults>>
       ELSE /\ Enqueue(n, TopicOf(newStatus))
            /\ row' = [row EXCEPT ![p] = newStatus]
            /\ PostSale(p, newStatus)
    /\ UNCHANGED <<request, linked, pspVars, notices, log, syncs>>

\* The process dies before COMMIT, or the database refuses it.
WebhookDies(n, s) ==
    /\ <<n, s>> \in inHand /\ Fault
    /\ inHand' = inHand \ {<<n, s>>}
    /\ UNCHANGED <<request, row, linked, pspVars, notices, seen, outboxVars, log, sales,
                   syncs>>

-----------------------------------------------------------------------------
(* Sync *)

FetchForSync(p) ==
    /\ p \in linked
    /\ \A x \in syncs : x[1] # p
    /\ syncs' = syncs \cup {<<p, row[p], now[p]>>}
    /\ UNCHANGED <<request, row, linked, pspVars, notices, inHand, seen, outboxVars, log,
                   sales, faults>>

\* An UPDATE without a lock, decided on the status read before the call to the PSP.
WriteSync(x) ==
    LET newStatus == MapPSPStatus[x[3]] IN
    /\ x \in syncs
    /\ syncs' = syncs \ {x}
    /\ row' = IF newStatus # x[2] THEN [row EXCEPT ![x[1]] = newStatus] ELSE row
    /\ UNCHANGED <<request, linked, pspVars, notices, inHand, seen, outboxVars, log, sales,
                   faults>>

-----------------------------------------------------------------------------
(* The drainer *)

\* The seconds of back-off, as the code lists them.
Delays == <<1, 5, 30>>

\* The driver hands a time.Duration to Postgres as a number of nanoseconds, and
\* `now() + $1` reads a bare number as seconds: a delay of one second moves
\* next_attempt_at by a thousand million seconds.
YearsUntilRetry(tried) ==
    LET i == IF tried < Len(Delays) THEN tried + 1 ELSE Len(Delays) IN
    Delays[i] * (1000000000 \div 31536000)

Produce(n) ==
    /\ outbox[n] = "waiting"
    /\ outbox' = [outbox EXCEPT ![n] = "produced"]
    /\ log' = IF event[n] \in Topics THEN log \cup {<<event[n], n[1]>>} ELSE log
    /\ UNCHANGED <<request, row, linked, pspVars, notices, inHand, seen, event, attempts,
                   sales, syncs, faults>>

ProduceFails(n) ==
    /\ outbox[n] = "waiting" /\ Fault
    /\ outbox' = [outbox EXCEPT ![n] = "deferred"]
    /\ attempts' = [attempts EXCEPT ![n] = @ + 1]
    /\ UNCHANGED <<request, row, linked, pspVars, notices, inHand, seen, event, log,
                   sales, syncs>>

\* next_attempt_at has come, if the service still runs by then.
RetryDue(n) ==
    /\ outbox[n] = "deferred"
    /\ YearsUntilRetry(attempts[n] - 1) <= ServiceYears
    /\ outbox' = [outbox EXCEPT ![n] = "waiting"]
    /\ UNCHANGED <<request, row, linked, pspVars, notices, inHand, seen, event, attempts, log,
                   sales, syncs, faults>>

\* UPDATE payments_outbox SET published_at; when it fails the row is produced again.
MarkPublished(n) ==
    /\ outbox[n] = "produced"
    /\ \/ outbox' = [outbox EXCEPT ![n] = "published"] /\ UNCHANGED faults
       \/ Fault /\ outbox' = [outbox EXCEPT ![n] = "waiting"]
    /\ UNCHANGED <<request, row, linked, pspVars, notices, inHand, seen, event, attempts, log,
                   sales, syncs>>

-----------------------------------------------------------------------------
CaptureInit ==
    /\ EventsInit
    /\ request = [p \in Payments |-> "idle"]
    /\ row = [p \in Payments |-> "absent"]
    /\ linked = {} /\ wrongAmount = {}
    /\ now = [p \in Payments |-> "none"]
    /\ notices = {} /\ inHand = {} /\ seen = {}
    /\ outbox = [n \in Notices |-> "none"]
    /\ event = [n \in Notices |-> "none"]
    /\ attempts = [n \in Notices |-> 0]
    /\ sales = {} /\ syncs = {}
    /\ faults = 0

CaptureNext ==
    \/ \E p \in Payments :
        \/ InsertPayment(p) \/ ChargeRefused(p) \/ Link(p) \/ FetchForSync(p)
        \/ \E s \in Reported : Charge(p, s) \/ PspChanges(p, s)
    \/ \E n \in Notices :
        \/ FetchForWebhook(n)
        \/ \E s \in Reported : ProcessEvent(n, s) \/ WebhookDies(n, s)
        \/ Produce(n) \/ ProduceFails(n) \/ RetryDue(n) \/ MarkPublished(n)
    \/ \E x \in syncs : WriteSync(x)

\* The drainer's ticker fires for ever, the PSP delivers a notice until it is answered (here:
\* for ever) and the handler answers.  Customers and the PSP's decisions are free.
CaptureFairness ==
    \A n \in Notices :
        /\ SF_captureVars(FetchForWebhook(n))
        /\ \A s \in Reported : WF_captureVars(ProcessEvent(n, s))
        /\ WF_captureVars(Produce(n) \/ ProduceFails(n)) /\ WF_captureVars(RetryDue(n))
        /\ WF_captureVars(MarkPublished(n))

CaptureSpec == CaptureInit /\ [][CaptureNext]_captureVars /\ CaptureFairness

-----------------------------------------------------------------------------
CaptureTypeOK ==
    /\ request \in [Payments -> {"idle", "charging", "charged", "done"}]
    /\ row \in [Payments -> PaymentStatuses \cup {"absent"}]
    /\ now \in [Payments -> Reported \cup {"none"}]
    /\ was \in [Payments -> SUBSET Reported]
    /\ linked \subseteq Payments /\ wrongAmount \subseteq Payments
    /\ sales \subseteq Payments
    /\ notices \subseteq Notices /\ seen \subseteq Notices
    /\ inHand \subseteq Notices \X Reported
    /\ outbox \in [Notices -> {"none", "waiting", "produced", "deferred", "published"}]
    /\ event \in [Notices -> Topics \cup {FraudSuspect, "none"}]
    /\ attempts \in [Notices -> 0..faults]
    /\ log \subseteq Topics \X Payments
    /\ syncs \subseteq Payments \X PaymentStatuses \X Reported
    /\ faults \in 0..MaxFaults

\* Whatever stale answers the webhook and Sync write over one another, a payment is
\* confirmed, and a sale in the ledger, only if the PSP approved the charge at some time.
ConfirmedWasApproved ==
    \A p \in Payments : row[p] = "confirmed" \/ p \in sales => "approved" \in was[p]

\* A charge of another amount than the order's is never booked as a sale and no event about
\* it reaches the order: only payment.fraud_suspect is raised (processEvent, the C3 check).
WrongAmountGoesNowhere ==
    \A p \in wrongAmount : p \notin sales /\ \A t \in Topics : <<t, p>> \notin log

\* A row marked as published was really produced: the drainer produces, then marks.
PublishedWasProduced ==
    \A n \in Notices :
        outbox[n] \in {"produced", "published"} /\ event[n] \in Topics => <<event[n], n[1]>> \in log

\* A notice delivered again, even while the first delivery is being handled, does not raise
\* its event a second time.
PublishedForGood ==
    [][\A n \in Notices : outbox[n] = "published" => outbox'[n] = "published"]_captureVars

\* To the rest of the system the service is PaymentEvents: every event it publishes reports
\* a status the payment has had.
ImplementsPaymentEvents == EventsSpec

\* A notice the PSP sends is processed in the end.
NoticesAreProcessed == \A n \in Notices : (n \in notices) ~> (n \in seen)

\* An event in the outbox reaches its topic in the end, whatever fails (the outbox is
\* "at-least-once por construcao", consumer/payment.go, and the drainer waits "1s -> 5s ->
\* 30s" after a failure).
EventsAreProduced ==
    \A n \in Notices : (outbox[n] = "waiting") ~> (outbox[n] \in {"produced", "published"})

\* A payment.confirmed event is about a charge the PSP approved: "o status usado e o de
\* pspResult" (webhook.go), and a pending one must not confirm (webhook_status_test.go).
ConfirmedEventWasApproved ==
    \A p \in Payments : <<"payment.confirmed", p>> \in log => "approved" \in was[p]

\* A notice that comes before its payment is linked "resolve sozinho", since the PSP delivers
\* it again (webhook.go, processEvent).
EarlyNoticeResolves ==
    \A n \in Notices : (n \in notices /\ n[1] \in linked) ~> (outbox[n] # "none")
=============================================================================
