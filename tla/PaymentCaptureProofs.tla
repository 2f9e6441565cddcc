-------------------------- MODULE PaymentCaptureProofs --------------------------
(***************************************************************************)
(* What payment-service publishes is true, for any number of payments,     *)
(* notices and faults and any PSP: PaymentCapture implements PaymentEvents *)
(* and books a sale only for a charge that was approved for the amount of  *)
(* its order.                                                              *)
(*                                                                         *)
(* The answers that the webhook and Sync carry from the PSP to their       *)
(* writes may be old, but they were true once (AnswersWereTrue), and what  *)
(* reaches the row, the outbox and the topics comes from them.  A charge   *)
(* of another amount is recognised from the first: nothing is written      *)
(* about a payment before it is linked (LinkedFirst).                      *)
(***************************************************************************)
EXTENDS PaymentCapture, TLAPS

-----------------------------------------------------------------------------
(* The inductive invariant *)

\* What the PSP answered, it said at some time.
AnswersWereTrue ==
    /\ \A p \in Payments : now[p] # "none" => now[p] \in was[p]
    /\ \A n \in notices : now[n[1]] # "none"
    /\ \A x \in inHand : x[2] \in was[x[1][1]]
    /\ \A x \in syncs : x[3] \in was[x[1]]

\* A payment is charged, then linked, and only then written about.
LinkedFirst ==
    /\ \A p \in Payments : request[p] = "idle" <=> row[p] = "absent"
    /\ \A p \in Payments : request[p] = "charged" \/ p \in linked => now[p] # "none"
    /\ \A p \in linked : request[p] = "done"
    /\ \A n \in Notices : outbox[n] # "none" => n \in seen
    /\ \A n \in Notices : event[n] # "none" => n[1] \in linked
    /\ sales \subseteq linked
    /\ \A x \in syncs : x[1] \in linked
    /\ \A e \in log : e[2] \in linked

\* A row of the outbox reports a status the payment has had.
OutboxIsTrue ==
    \A n \in Notices : event[n] \in Topics =>
        \E s \in was[n[1]] : event[n] = TopicOf(MapPSPStatus[s])

\* The outbox holds nothing about a charge of another amount but the suspicion.
SuspectsStayOut ==
    \A n \in Notices : n[1] \in wrongAmount => event[n] \notin Topics

CaptureInv ==
    /\ CaptureTypeOK
    /\ AnswersWereTrue
    /\ LinkedFirst
    /\ OutboxIsTrue
    /\ SuspectsStayOut
    /\ ConfirmedWasApproved
    /\ WrongAmountGoesNowhere
    /\ PublishedWasProduced

-----------------------------------------------------------------------------
(* Vocabulary *)

\* A PSP status becomes a payment status, and only approval becomes confirmation.
LEMMA StatusMap ==
  ASSUME NEW s \in Reported
  PROVE  /\ MapPSPStatus[s] \in PaymentStatuses
         /\ MapPSPStatus[s] = "confirmed" => s = "approved"
  BY ReportedAssumption DEF MapPSPStatus, PaymentStatuses, PspStatuses

\* Every payment status is reported on one of the three topics.
LEMMA TopicType == \A s : TopicOf(s) \in Topics /\ TopicOf(s) # "none"
  BY DEF TopicOf, Topics

\* A suspicion of fraud is not one of the topics.
LEMMA SuspicionIsNoTopic == FraudSuspect \notin Topics /\ "none" \notin Topics
  BY DEF FraudSuspect, Topics

\* "none" stands for a payment the PSP has never seen.
LEMMA NoneIsNoStatus == "none" \notin Reported
  BY ReportedAssumption DEF PspStatuses

-----------------------------------------------------------------------------
(* The invariant is inductive *)

\* A fault is counted, and the counters of attempts stay below the number of faults.
LEMMA FaultStep ==
  ASSUME CaptureTypeOK, Fault
  PROVE  faults' \in 0..MaxFaults /\ attempts \in [Notices -> 0..faults']
         /\ faults' = faults + 1
  BY CaptureAssumption DEF CaptureTypeOK, Fault

\* No payment exists at first.
LEMMA CaptureInitInv == CaptureInit => CaptureInv
  BY CaptureAssumption, SuspicionIsNoTopic
     DEF CaptureInit, EventsInit, CaptureInv, CaptureTypeOK, AnswersWereTrue, LinkedFirst,
         OutboxIsTrue, SuspectsStayOut, ConfirmedWasApproved, WrongAmountGoesNowhere,
         PublishedWasProduced

\* The PSP changes its mind: what it said before stays said.
LEMMA PspChangesInv ==
  ASSUME CaptureInv, NEW p \in Payments, NEW s \in Reported, PspChanges(p, s)
  PROVE  CaptureInv'
PROOF
  <1> USE DEF CaptureInv, PspChanges, PspSets, outboxVars, Types, Notices
  <1>1. CaptureTypeOK'
    BY DEF CaptureTypeOK
  <1>2. AnswersWereTrue'
    BY NoneIsNoStatus DEF CaptureTypeOK, AnswersWereTrue
  <1>3. LinkedFirst'
    BY NoneIsNoStatus DEF CaptureTypeOK, LinkedFirst
  <1>4. OutboxIsTrue'
    BY DEF CaptureTypeOK, OutboxIsTrue
  <1>5. SuspectsStayOut'
    BY DEF CaptureTypeOK, SuspectsStayOut
  <1>6. ConfirmedWasApproved'
    BY DEF CaptureTypeOK, ConfirmedWasApproved
  <1>7. WrongAmountGoesNowhere'
    BY DEF CaptureTypeOK, WrongAmountGoesNowhere
  <1>8. PublishedWasProduced'
    BY DEF CaptureTypeOK, PublishedWasProduced
  <1> QED
    BY <1>1, <1>2, <1>3, <1>4, <1>5, <1>6, <1>7, <1>8

\* A new row is pending and says nothing about any charge.
LEMMA InsertPaymentInv ==
  ASSUME CaptureInv, NEW p \in Payments, InsertPayment(p)
  PROVE  CaptureInv'
  BY DEF InsertPayment, pspVars, outboxVars, PaymentStatuses,
         CaptureInv, CaptureTypeOK, AnswersWereTrue, LinkedFirst,
         OutboxIsTrue, SuspectsStayOut, ConfirmedWasApproved, WrongAmountGoesNowhere,
         PublishedWasProduced

\* A charge, of whatever amount, finds nothing written about its payment.
LEMMA ChargeInv ==
  ASSUME CaptureInv, NEW p \in Payments, NEW s \in Reported, Charge(p, s)
  PROVE  CaptureInv'
PROOF
  <1> USE DEF CaptureInv, Charge, PspSets, outboxVars, Types, Notices, PaymentStatuses
  <1>0. p \notin linked /\ p \notin sales /\ \A n \in Notices : n[1] = p => event[n] = "none"
    BY DEF LinkedFirst
  <1>1. CaptureTypeOK'
    <2>1. request' \in [Payments -> {"idle", "charging", "charged", "done"}]
      BY DEF CaptureTypeOK
    <2>2. row' \in [Payments -> PaymentStatuses \cup {"absent"}]
      BY DEF CaptureTypeOK
    <2>3. now' \in [Payments -> Reported \cup {"none"}] /\ was' \in [Payments -> SUBSET Reported]
      BY DEF CaptureTypeOK
    <2>4. wrongAmount' \subseteq Payments /\ notices' \subseteq Notices
      BY DEF CaptureTypeOK
    <2>5. faults' \in 0..MaxFaults /\ attempts' \in [Notices -> 0..faults']
      BY FaultStep DEF CaptureTypeOK
    <2> QED
      BY <2>1, <2>2, <2>3, <2>4, <2>5 DEF CaptureTypeOK
  <1>2. AnswersWereTrue'
    BY NoneIsNoStatus DEF CaptureTypeOK, AnswersWereTrue
  <1>3. LinkedFirst'
    BY NoneIsNoStatus DEF CaptureTypeOK, LinkedFirst
  <1>4. OutboxIsTrue'
    BY DEF CaptureTypeOK, OutboxIsTrue
  <1>5. SuspectsStayOut'
    BY <1>0, SuspicionIsNoTopic DEF CaptureTypeOK, SuspectsStayOut
  <1>6. ConfirmedWasApproved'
    BY DEF CaptureTypeOK, ConfirmedWasApproved
  <1>7. WrongAmountGoesNowhere'
    BY <1>0 DEF CaptureTypeOK, WrongAmountGoesNowhere, LinkedFirst
  <1>8. PublishedWasProduced'
    BY DEF CaptureTypeOK, PublishedWasProduced
  <1> QED
    BY <1>1, <1>2, <1>3, <1>4, <1>5, <1>6, <1>7, <1>8

\* A refused charge fails its row.
LEMMA ChargeRefusedInv ==
  ASSUME CaptureInv, NEW p \in Payments, ChargeRefused(p)
  PROVE  CaptureInv'
  BY DEF ChargeRefused, pspVars, outboxVars, PaymentStatuses,
         CaptureInv, CaptureTypeOK, AnswersWereTrue, LinkedFirst,
         OutboxIsTrue, SuspectsStayOut, ConfirmedWasApproved, WrongAmountGoesNowhere,
         PublishedWasProduced

\* A payment is linked to a charge the PSP knows.
LEMMA LinkInv ==
  ASSUME CaptureInv, NEW p \in Payments, Link(p)
  PROVE  CaptureInv'
PROOF
  <1> USE DEF CaptureInv, Link, pspVars, outboxVars
  <1>1. CaptureTypeOK'
    BY FaultStep DEF CaptureTypeOK
  <1>2. AnswersWereTrue'
    BY FaultStep DEF CaptureTypeOK, AnswersWereTrue
  <1>3. LinkedFirst'
    BY FaultStep DEF CaptureTypeOK, LinkedFirst
  <1>4. OutboxIsTrue'
    BY FaultStep DEF CaptureTypeOK, OutboxIsTrue
  <1>5. SuspectsStayOut'
    BY FaultStep DEF CaptureTypeOK, SuspectsStayOut
  <1>6. ConfirmedWasApproved'
    BY FaultStep DEF CaptureTypeOK, ConfirmedWasApproved
  <1>7. WrongAmountGoesNowhere'
    BY FaultStep DEF CaptureTypeOK, WrongAmountGoesNowhere
  <1>8. PublishedWasProduced'
    BY FaultStep DEF CaptureTypeOK, PublishedWasProduced
  <1> QED
    BY <1>1, <1>2, <1>3, <1>4, <1>5, <1>6, <1>7, <1>8

\* The webhook takes in hand what the PSP says now.
LEMMA FetchForWebhookInv ==
  ASSUME CaptureInv, NEW n \in Notices, FetchForWebhook(n)
  PROVE  CaptureInv'
  BY DEF FetchForWebhook, pspVars, outboxVars, PaymentStatuses, Notices,
         CaptureInv, CaptureTypeOK, AnswersWereTrue, LinkedFirst,
         OutboxIsTrue, SuspectsStayOut, ConfirmedWasApproved, WrongAmountGoesNowhere,
         PublishedWasProduced

\* A request that dies leaves no trace.
LEMMA WebhookDiesInv ==
  ASSUME CaptureInv, NEW n \in Notices, NEW s \in Reported, WebhookDies(n, s)
  PROVE  CaptureInv'
PROOF
  <1> USE DEF CaptureInv, WebhookDies, pspVars, outboxVars, Notices
  <1>1. CaptureTypeOK'
    BY FaultStep DEF CaptureTypeOK
  <1>2. AnswersWereTrue'
    BY FaultStep DEF CaptureTypeOK, AnswersWereTrue
  <1>3. LinkedFirst'
    BY FaultStep DEF CaptureTypeOK, LinkedFirst
  <1>4. OutboxIsTrue'
    BY FaultStep DEF CaptureTypeOK, OutboxIsTrue
  <1>5. SuspectsStayOut'
    BY FaultStep DEF CaptureTypeOK, SuspectsStayOut
  <1>6. ConfirmedWasApproved'
    BY FaultStep DEF CaptureTypeOK, ConfirmedWasApproved
  <1>7. WrongAmountGoesNowhere'
    BY FaultStep DEF CaptureTypeOK, WrongAmountGoesNowhere
  <1>8. PublishedWasProduced'
    BY FaultStep DEF CaptureTypeOK, PublishedWasProduced
  <1> QED
    BY <1>1, <1>2, <1>3, <1>4, <1>5, <1>6, <1>7, <1>8

\* Sync takes in hand what the row and the PSP say now.
LEMMA FetchForSyncInv ==
  ASSUME CaptureInv, NEW p \in Payments, FetchForSync(p)
  PROVE  CaptureInv'
  BY DEF FetchForSync, pspVars, outboxVars, PaymentStatuses, Notices,
         CaptureInv, CaptureTypeOK, AnswersWereTrue, LinkedFirst,
         OutboxIsTrue, SuspectsStayOut, ConfirmedWasApproved, WrongAmountGoesNowhere,
         PublishedWasProduced

\* Sync writes what the PSP said once.
LEMMA WriteSyncInv ==
  ASSUME CaptureInv, NEW x \in syncs, WriteSync(x)
  PROVE  CaptureInv'
PROOF
  <1> USE DEF CaptureInv, WriteSync, pspVars, outboxVars, PaymentStatuses
  <1>0. /\ x[1] \in Payments /\ x[3] \in Reported /\ x[3] \in was[x[1]]
        /\ MapPSPStatus[x[3]] \in PaymentStatuses
        /\ MapPSPStatus[x[3]] = "confirmed" => "approved" \in was[x[1]]
        /\ row[x[1]] # "absent"
    BY StatusMap DEF CaptureTypeOK, AnswersWereTrue, LinkedFirst
  <1>1. CaptureTypeOK'
    BY <1>0 DEF CaptureTypeOK
  <1>2. AnswersWereTrue'
    BY DEF CaptureTypeOK, AnswersWereTrue
  <1>3. LinkedFirst'
    BY <1>0 DEF CaptureTypeOK, LinkedFirst
  <1>4. OutboxIsTrue'
    BY DEF CaptureTypeOK, OutboxIsTrue
  <1>5. SuspectsStayOut'
    BY DEF CaptureTypeOK, SuspectsStayOut
  <1>6. ConfirmedWasApproved'
    BY <1>0 DEF CaptureTypeOK, ConfirmedWasApproved
  <1>7. WrongAmountGoesNowhere'
    BY DEF CaptureTypeOK, WrongAmountGoesNowhere
  <1>8. PublishedWasProduced'
    BY DEF CaptureTypeOK, PublishedWasProduced
  <1> QED
    BY <1>1, <1>2, <1>3, <1>4, <1>5, <1>6, <1>7, <1>8

\* What is produced comes from the outbox.
LEMMA ProduceInv ==
  ASSUME CaptureInv, NEW n \in Notices, Produce(n)
  PROVE  CaptureInv'
PROOF
  <1> USE DEF CaptureInv, Produce, pspVars
  <1>1. CaptureTypeOK'
    BY DEF CaptureTypeOK, Notices
  <1>2. AnswersWereTrue'
    BY DEF CaptureTypeOK, AnswersWereTrue
  <1>3. LinkedFirst'
    BY SuspicionIsNoTopic DEF CaptureTypeOK, LinkedFirst
  <1>4. OutboxIsTrue'
    BY DEF CaptureTypeOK, OutboxIsTrue
  <1>5. SuspectsStayOut'
    BY DEF CaptureTypeOK, SuspectsStayOut
  <1>6. ConfirmedWasApproved'
    BY DEF CaptureTypeOK, ConfirmedWasApproved
  <1>7. WrongAmountGoesNowhere'
    BY DEF CaptureTypeOK, WrongAmountGoesNowhere, SuspectsStayOut, Notices
  <1>8. PublishedWasProduced'
    BY DEF CaptureTypeOK, PublishedWasProduced
  <1> QED
    BY <1>1, <1>2, <1>3, <1>4, <1>5, <1>6, <1>7, <1>8

\* A failed production is counted and the row waits.
LEMMA ProduceFailsInv ==
  ASSUME CaptureInv, NEW n \in Notices, ProduceFails(n)
  PROVE  CaptureInv'
PROOF
  <1> USE DEF CaptureInv, ProduceFails, pspVars
  <1>0. faults' \in 0..MaxFaults /\ attempts' \in [Notices -> 0..faults']
    BY CaptureAssumption DEF CaptureTypeOK, Fault
  <1>1. CaptureTypeOK'
    BY <1>0 DEF CaptureTypeOK
  <1>2. AnswersWereTrue'
    BY DEF CaptureTypeOK, AnswersWereTrue
  <1>3. LinkedFirst'
    BY DEF CaptureTypeOK, LinkedFirst
  <1>4. OutboxIsTrue'
    BY DEF CaptureTypeOK, OutboxIsTrue
  <1>5. SuspectsStayOut'
    BY DEF CaptureTypeOK, SuspectsStayOut
  <1>6. ConfirmedWasApproved'
    BY DEF CaptureTypeOK, ConfirmedWasApproved
  <1>7. WrongAmountGoesNowhere'
    BY DEF CaptureTypeOK, WrongAmountGoesNowhere
  <1>8. PublishedWasProduced'
    BY DEF CaptureTypeOK, PublishedWasProduced
  <1> QED
    BY <1>1, <1>2, <1>3, <1>4, <1>5, <1>6, <1>7, <1>8

\* A row whose time has come waits again for the drainer.
LEMMA RetryDueInv ==
  ASSUME CaptureInv, NEW n \in Notices, RetryDue(n)
  PROVE  CaptureInv'
PROOF
  <1> USE DEF CaptureInv, RetryDue, pspVars
  <1>1. CaptureTypeOK'
    BY DEF CaptureTypeOK
  <1>2. AnswersWereTrue'
    BY DEF CaptureTypeOK, AnswersWereTrue
  <1>3. LinkedFirst'
    BY DEF CaptureTypeOK, LinkedFirst
  <1>4. OutboxIsTrue'
    BY DEF CaptureTypeOK, OutboxIsTrue
  <1>5. SuspectsStayOut'
    BY DEF CaptureTypeOK, SuspectsStayOut
  <1>6. ConfirmedWasApproved'
    BY DEF CaptureTypeOK, ConfirmedWasApproved
  <1>7. WrongAmountGoesNowhere'
    BY DEF CaptureTypeOK, WrongAmountGoesNowhere
  <1>8. PublishedWasProduced'
    BY DEF CaptureTypeOK, PublishedWasProduced
  <1> QED
    BY <1>1, <1>2, <1>3, <1>4, <1>5, <1>6, <1>7, <1>8

\* A row is marked after it was produced.
LEMMA MarkPublishedInv ==
  ASSUME CaptureInv, NEW n \in Notices, MarkPublished(n)
  PROVE  CaptureInv'
PROOF
  <1> USE DEF CaptureInv, MarkPublished, pspVars
  <1>1. CaptureTypeOK'
    BY FaultStep DEF CaptureTypeOK
  <1>2. AnswersWereTrue'
    BY DEF CaptureTypeOK, AnswersWereTrue
  <1>3. LinkedFirst'
    BY DEF CaptureTypeOK, LinkedFirst
  <1>4. OutboxIsTrue'
    BY DEF CaptureTypeOK, OutboxIsTrue
  <1>5. SuspectsStayOut'
    BY DEF CaptureTypeOK, SuspectsStayOut
  <1>6. ConfirmedWasApproved'
    BY DEF CaptureTypeOK, ConfirmedWasApproved
  <1>7. WrongAmountGoesNowhere'
    BY DEF CaptureTypeOK, WrongAmountGoesNowhere
  <1>8. PublishedWasProduced'
    BY DEF CaptureTypeOK, PublishedWasProduced
  <1> QED
    BY <1>1, <1>2, <1>3, <1>4, <1>5, <1>6, <1>7, <1>8

\* processEvent writes what the PSP answered, about a linked payment of the right amount.
LEMMA ProcessEventInv ==
  ASSUME CaptureInv, NEW n \in Notices, NEW s \in Reported, ProcessEvent(n, s)
  PROVE  CaptureInv'
PROOF
  <1> DEFINE p == n[1]
             newStatus == MapPSPStatus[s]
             Writes == n \notin seen /\ p \in linked
             Books == Writes /\ p \notin wrongAmount
  <1> USE DEF CaptureInv
  <1>1. /\ p \in Payments /\ s \in was[p] /\ newStatus \in PaymentStatuses
        /\ newStatus = "confirmed" => "approved" \in was[p]
    BY StatusMap DEF ProcessEvent, Notices, AnswersWereTrue
  <1>2. /\ inHand' \subseteq inHand /\ seen' = seen \cup {n}
        /\ UNCHANGED <<request, linked, pspVars, notices, log, syncs, attempts>>
    BY DEF ProcessEvent, Enqueue, outboxVars
  <1>3. CASE ~Writes
    <2>1. UNCHANGED <<row, outbox, event, sales, faults>>
      BY <1>3 DEF ProcessEvent, outboxVars
    <2> QED
      BY <1>2, <2>1 DEF pspVars, CaptureTypeOK, AnswersWereTrue, LinkedFirst, OutboxIsTrue,
         SuspectsStayOut, ConfirmedWasApproved, WrongAmountGoesNowhere, PublishedWasProduced
  <1>4. CASE Writes
    <2> DEFINE type == IF p \in wrongAmount THEN FraudSuspect ELSE TopicOf(newStatus)
    <2>1. /\ outbox' = [outbox EXCEPT ![n] = "waiting"]
          /\ event' = [event EXCEPT ![n] = type]
          /\ row' = row \/ (Books /\ row' = [row EXCEPT ![p] = newStatus])
          /\ sales' = sales \/ (Books /\ newStatus = "confirmed" /\ sales' = sales \cup {p})
          /\ faults' = faults \/ Fault
      BY <1>4 DEF ProcessEvent, Enqueue, PostSale
    <2>2. /\ type \in Topics \cup {FraudSuspect}
          /\ type \in Topics => p \notin wrongAmount /\ type = TopicOf(newStatus)
      BY TopicType, SuspicionIsNoTopic
    <2>3. faults' \in 0..MaxFaults /\ attempts' \in [Notices -> 0..faults']
      BY <1>2, <2>1, FaultStep DEF CaptureTypeOK
    <2>4. CaptureTypeOK'
      BY <1>1, <1>2, <2>1, <2>2, <2>3 DEF CaptureTypeOK, pspVars
    <2>5. AnswersWereTrue'
      BY <1>2 DEF AnswersWereTrue, pspVars
    <2>6. LinkedFirst'
      BY <1>1, <1>2, <1>4, <2>1 DEF LinkedFirst, CaptureTypeOK, PaymentStatuses, pspVars
    <2>7. OutboxIsTrue'
      BY <1>1, <1>2, <2>1, <2>2 DEF OutboxIsTrue, CaptureTypeOK, pspVars
    <2>8. SuspectsStayOut'
      BY <1>2, <2>1, <2>2 DEF SuspectsStayOut, CaptureTypeOK, pspVars
    <2>9. ConfirmedWasApproved'
      BY <1>1, <1>2, <2>1 DEF ConfirmedWasApproved, CaptureTypeOK, pspVars
    <2>10. WrongAmountGoesNowhere'
      BY <1>2, <2>1 DEF WrongAmountGoesNowhere, pspVars
    <2>11. PublishedWasProduced'
      BY <1>2, <2>1 DEF PublishedWasProduced, CaptureTypeOK
    <2> QED
      BY <2>4, <2>5, <2>6, <2>7, <2>8, <2>9, <2>10, <2>11
  <1> QED
    BY <1>3, <1>4

\* Every step of the service keeps the invariant.
LEMMA CaptureNextInv == CaptureInv /\ [CaptureNext]_captureVars => CaptureInv'
PROOF
  <1> SUFFICES ASSUME CaptureInv, [CaptureNext]_captureVars PROVE CaptureInv'
    OBVIOUS
  <1>1. CASE UNCHANGED captureVars
    BY <1>1 DEF captureVars, pspVars, outboxVars, CaptureInv, CaptureTypeOK,
       AnswersWereTrue, LinkedFirst, OutboxIsTrue, SuspectsStayOut, ConfirmedWasApproved,
       WrongAmountGoesNowhere, PublishedWasProduced
  <1>2. CASE CaptureNext
    BY <1>2, InsertPaymentInv, ChargeRefusedInv, LinkInv, FetchForSyncInv, ChargeInv,
       PspChangesInv, FetchForWebhookInv, ProcessEventInv, WebhookDiesInv, ProduceInv,
       ProduceFailsInv, RetryDueInv, MarkPublishedInv, WriteSyncInv
       DEF CaptureNext
  <1> QED
    BY <1>1, <1>2

\* It holds in every reachable state.
LEMMA CaptureInvAlways == CaptureSpec => []CaptureInv
  BY CaptureInitInv, CaptureNextInv, PTL DEF CaptureSpec

-----------------------------------------------------------------------------
(* The theorems *)

\* Every state of the payment service is well typed.
THEOREM CaptureTypeCorrect == CaptureSpec => []CaptureTypeOK
  BY CaptureInvAlways, PTL DEF CaptureInv

\* A payment is confirmed, or entered as a sale, only if the PSP approved the charge at some
\* time, however old the answers that the webhook and Sync write (webhook.go, payment.go).
THEOREM ConfirmedOnlyIfApproved == CaptureSpec => []ConfirmedWasApproved
  BY CaptureInvAlways, PTL DEF CaptureInv

\* A charge of another amount than the order's reaches neither the ledger nor an order
\* (processEvent's check of the amount).
THEOREM WrongAmountNeverLeaves == CaptureSpec => []WrongAmountGoesNowhere
  BY CaptureInvAlways, PTL DEF CaptureInv

\* The drainer marks as published only what it produced.
THEOREM MarkedOnlyIfProduced == CaptureSpec => []PublishedWasProduced
  BY CaptureInvAlways, PTL DEF CaptureInv

\* What the PSP and the drainer do is a step of PaymentEvents; nothing else shows.
LEMMA CaptureSteps == CaptureInv /\ [CaptureNext]_captureVars => [EventsNext]_payments
PROOF
  <1> SUFFICES ASSUME CaptureInv, [CaptureNext]_captureVars PROVE [EventsNext]_payments
    OBVIOUS
  <1> USE DEF payments
  <1>1. ASSUME NEW p \in Payments, NEW s \in Reported, PspSets(p, s), log' = log
        PROVE  [EventsNext]_payments
    <2>1. CASE s \in was[p]
      BY <1>1, <2>1 DEF PspSets, CaptureInv, CaptureTypeOK
    <2>2. CASE s \notin was[p]
      BY <1>1, <2>2 DEF PspSets, EventsNext, Becomes
    <2> QED
      BY <2>1, <2>2
  <1>2. ASSUME NEW n \in Notices, Produce(n)
        PROVE  [EventsNext]_payments
    <2>1. CASE event[n] \in Topics
      <3>1. PICK s \in was[n[1]] : event[n] = TopicOf(MapPSPStatus[s])
        BY <2>1 DEF CaptureInv, OutboxIsTrue
      <3>2. n[1] \in Payments /\ s \in Reported
        BY DEF Notices, CaptureInv, CaptureTypeOK
      <3>3. Announce(n[1], s)
        BY <1>2, <2>1, <3>1 DEF Produce, pspVars, Announce
      <3> QED
        BY <3>2, <3>3 DEF EventsNext
    <2>2. CASE event[n] \notin Topics
      BY <1>2, <2>2 DEF Produce, pspVars
    <2> QED
      BY <2>1, <2>2
  <1>3. ASSUME NEW p \in Payments, NEW s \in Reported, Charge(p, s) \/ PspChanges(p, s)
        PROVE  [EventsNext]_payments
    BY <1>1, <1>3 DEF Charge, PspChanges
  <1>4. ASSUME NEW p \in Payments,
               InsertPayment(p) \/ ChargeRefused(p) \/ Link(p) \/ FetchForSync(p)
        PROVE  [EventsNext]_payments
    BY <1>4 DEF InsertPayment, ChargeRefused, Link, FetchForSync, pspVars
  <1>5. ASSUME NEW n \in Notices, NEW s \in Reported,
               ProcessEvent(n, s) \/ WebhookDies(n, s)
        PROVE  [EventsNext]_payments
    BY <1>5 DEF ProcessEvent, WebhookDies, pspVars
  <1>6. ASSUME NEW n \in Notices, ProduceFails(n) \/ RetryDue(n) \/ MarkPublished(n)
        PROVE  [EventsNext]_payments
    BY <1>6 DEF ProduceFails, RetryDue, MarkPublished, pspVars
  <1>7. ASSUME NEW x \in syncs, WriteSync(x)
        PROVE  [EventsNext]_payments
    BY <1>7 DEF WriteSync, pspVars
  <1>8. ASSUME NEW n \in Notices, FetchForWebhook(n)
        PROVE  [EventsNext]_payments
    BY <1>8 DEF FetchForWebhook, pspVars
  <1>9. CASE UNCHANGED captureVars
    BY <1>9 DEF captureVars, pspVars
  <1> QED
    BY <1>2, <1>3, <1>4, <1>5, <1>6, <1>7, <1>8, <1>9 DEF CaptureNext

\* payment-service implements PaymentEvents: every event on a topic reports a status its
\* payment has had at the PSP.
THEOREM CaptureImplementsPaymentEvents == CaptureSpec => ImplementsPaymentEvents
PROOF
  <1>1. CaptureInit => EventsInit
    BY DEF CaptureInit
  <1> QED
    BY <1>1, CaptureSteps, CaptureInvAlways, PTL
       DEF CaptureSpec, ImplementsPaymentEvents, EventsSpec

\* A row of the outbox that was published is not raised again, however often its notice is
\* delivered (webhook_events, ON CONFLICT DO NOTHING).
THEOREM PublishedStays == CaptureSpec => PublishedForGood
PROOF
  <1> DEFINE Stays == \A n \in Notices : outbox[n] = "published" => outbox'[n] = "published"
  <1>1. CaptureInv /\ [CaptureNext]_captureVars => [Stays]_captureVars
    <2> SUFFICES ASSUME CaptureInv, CaptureNext, NEW x \in Notices, outbox[x] = "published"
                 PROVE  outbox'[x] = "published"
      OBVIOUS
    <2>1. x \in seen /\ outbox \in [Notices -> {outbox[n] : n \in Notices}]
      BY DEF CaptureInv, CaptureTypeOK, LinkedFirst
    <2>2. ASSUME NEW n \in Notices, NEW s \in Reported, ProcessEvent(n, s)
          PROVE  outbox'[x] = "published"
      BY <2>1, <2>2 DEF ProcessEvent, Enqueue, outboxVars
    <2>3. ASSUME NEW n \in Notices,
                 Produce(n) \/ ProduceFails(n) \/ RetryDue(n) \/ MarkPublished(n)
          PROVE  outbox'[x] = "published"
      BY <2>1, <2>3 DEF Produce, ProduceFails, RetryDue, MarkPublished
    <2>4. CASE \/ \E p \in Payments : \/ InsertPayment(p) \/ ChargeRefused(p) \/ Link(p)
                                      \/ FetchForSync(p)
                                      \/ \E s \in Reported : Charge(p, s) \/ PspChanges(p, s)
               \/ \E n \in Notices : \/ FetchForWebhook(n)
                                     \/ \E s \in Reported : WebhookDies(n, s)
               \/ \E y \in syncs : WriteSync(y)
      BY <2>4 DEF InsertPayment, ChargeRefused, Link, FetchForSync, Charge, PspChanges,
         FetchForWebhook, WebhookDies, WriteSync, outboxVars
    <2> QED
      BY <2>2, <2>3, <2>4 DEF CaptureNext
  <1> QED
    BY <1>1, CaptureInvAlways, PTL DEF CaptureSpec, PublishedForGood
=============================================================================
