---------------------------- MODULE MCPaymentCapture ----------------------------
(* One charge whose webhooks, Sync requests and outbox rows race. *)
EXTENDS PaymentCapture, TLC
CONSTANTS y1

MCEventType == [s \in PspStatuses |-> s]
=============================================================================
