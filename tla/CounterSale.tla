------------------------------- MODULE CounterSale -------------------------------
(* Sales over the counter (order-service handler/balcao.go, internal/balcao)   *)
(* and their settlement on the shop's own card machine                         *)
(* (handler/external_settlement.go): who may sell, discount, approve and       *)
(* declare a sale paid when no PSP will ever confirm it. A settlement is a     *)
(* locked SELECT, an UPDATE, and two calls to other services after the commit. *)
EXTENDS Integers, FiniteSets

CONSTANTS People, Stores, CounterSales, Receipts, Tills,
          RoleOf,    \* role in each person's token
          Bonds,     \* bindings auth-service may hold for an operator
          FirstBonds,\* bindings of everybody to begin with
          Discounts, \* percentages asked for
          MaxRebinds \* changes of somebody's binding in one behaviour

CONSTANT Nobody      \* no store, no person, no receipt

ASSUME CounterAssumption ==
    /\ MaxRebinds \in Nat /\ Nobody \notin People \union Stores \union Receipts
    /\ Discounts \subseteq 0..100 /\ FirstBonds \subseteq [People -> Bonds]
    /\ Bonds \subseteq [store : Stores \union {Nobody}, approves : BOOLEAN, ceiling : 0..100]

VARIABLES bond,    \* auth-service: the binding of each person, or Unbound
          was,     \* the binding before its last change: caches may hold it
          token,   \* the store in each person's token
          sale,    \* the order of each counter sale
          till,    \* what each settlement request is doing
          booked,  \* sales with an entry in the ledger
          trail,   \* balcao_audit_events: settlements, and failures to post
          rebinds

counterVars == <<bond, was, token, sale, till, booked, trail, rebinds>>

Unbound == [store |-> Nobody, approves |-> FALSE, ceiling |-> 0]
NoSale == [status |-> "none"]
FreeTill == [step |-> "free"]

(* actorFromContext: an administrator is what the token says; an operator is   *)
(* what auth-service says now or said within the last half minute, and when it *)
(* does not answer, the store of the token with no power to discount.          *)
Actors(p) ==
    IF RoleOf[p] # "store_operator"
    THEN {[role |-> RoleOf[p], store |-> token[p], approves |-> FALSE, ceiling |-> 0]}
    ELSE {[role |-> "store_operator", store |-> b.store, approves |-> b.approves,
           ceiling |-> b.ceiling] :
              b \in {bond[p], was[p], [Unbound EXCEPT !.store = token[p]]}}

(* CanCreateBalcaoOrder: the stores a person may sell in. *)
MaySellIn(a, store) == \/ a.role = "admin"
                       \/ a.role = "store_operator" /\ store = a.store
CanApprove(a, p, s) ==
    /\ sale[s].approval = "pending" /\ sale[s].operator # p
    /\ a.role = "admin" \/ (a.role = "store_operator" /\ a.store = sale[s].store /\ a.approves)
\* Mutant: only a rejection stops the settlement.
CanSettleUnlessRejected(a, s) ==
    /\ a.role = "admin" \/ (a.role = "store_operator" /\ a.store = sale[s].store)
    /\ sale[s].approval # "rejected"
CanSettleExternal(a, s) ==
    /\ a.role = "admin" \/ (a.role = "store_operator" /\ a.store = sale[s].store)
    /\ sale[s].approval \notin {"pending", "rejected"}

(* ResolveDiscount: above the ceiling the sale goes on, and waits for approval. *)
ApprovalOf(pct, ceiling) == IF pct > 0 /\ pct > ceiling THEN "pending" ELSE "not_required"

CounterInit ==
    /\ bond \in FirstBonds
    /\ was = bond
    /\ token = [p \in People |-> bond[p].store]
    /\ sale = [s \in CounterSales |-> NoSale]
    /\ till = [t \in Tills |-> FreeTill]
    /\ booked = {} /\ trail = {} /\ rebinds = 0

SettlingRows(s) == {t \in Tills : till[t].step = "locked" /\ till[t].sale = s}
Unlocked(s) == SettlingRows(s) = {}

(* POST /orders on the channel balcao: the goods are reserved, the row says    *)
(* whether the discount needs somebody's approval.                             *)
SellAtCounter(p, s, store, pct) ==
    /\ sale[s] = NoSale
    /\ \E a \in Actors(p) :
         /\ store # Nobody /\ MaySellIn(a, store)
         /\ sale' = [sale EXCEPT ![s] =
              [status |-> "pending_payment", store |-> store, operator |-> p, pct |-> pct,
               limit |-> a.ceiling, approval |-> ApprovalOf(pct, a.ceiling),
               approver |-> Nobody, receipt |-> Nobody, stock |-> "reserved"]]
    /\ UNCHANGED <<bond, was, token, till, booked, trail, rebinds>>

(* PATCH approve / reject under the lock of the row. *)
DecideApproval(p, s, decision) ==
    /\ sale[s] # NoSale /\ Unlocked(s)
    /\ \E a \in Actors(p) : CanApprove(a, p, s)
    /\ sale' = [sale EXCEPT ![s].approval = decision, ![s].approver = p]
    /\ UNCHANGED <<bond, was, token, till, booked, trail, rebinds>>

(* POST settle-external: the row is locked; the same receipt again only posts  *)
(* to the ledger again, another one is refused, and so is a row that is paid   *)
(* or cancelled.                                                               *)
BeginSettle(t, p, s, receipt) ==
    /\ till[t] = FreeTill /\ sale[s] # NoSale /\ Unlocked(s)
    /\ \E a \in Actors(p) : CanSettleExternal(a, s)
    /\ \/ /\ sale[s].receipt = receipt
          /\ till' = [till EXCEPT ![t] = [step |-> "post", sale |-> s, first |-> FALSE]]
       \/ /\ sale[s].receipt = Nobody /\ sale[s].status = "pending_payment"
          /\ till' = [till EXCEPT ![t] = [step |-> "locked", sale |-> s, receipt |-> receipt]]
    /\ UNCHANGED <<bond, was, token, sale, booked, trail, rebinds>>

(* The UPDATE meets the unique index on (store, receipt); the audit row is     *)
(* part of the transaction.                                                    *)
SettleSale(t) ==
    /\ till[t].step = "locked"
    /\ LET s == till[t].sale
           taken == \E o \in CounterSales \ {s} : /\ sale[o] # NoSale
                                                  /\ sale[o].store = sale[s].store
                                                  /\ sale[o].receipt = till[t].receipt
       IN IF taken
          THEN /\ till' = [till EXCEPT ![t] = FreeTill]
               /\ UNCHANGED <<sale, trail>>
          ELSE /\ sale' = [sale EXCEPT ![s].status = "paid", ![s].receipt = till[t].receipt]
               /\ trail' = trail \union {<<"settled", s, till[t].receipt>>}
               /\ till' = [till EXCEPT ![t] = [step |-> "post", sale |-> s, first |-> TRUE]]
    /\ UNCHANGED <<bond, was, token, booked, rebinds>>

(* After the commit: the ledger, whose failure leaves a line of audit; then,   *)
(* on the first settlement only, the reservation becomes a sale.               *)
PostToLedger(t) ==
    /\ till[t].step = "post"
    /\ \/ booked' = booked \union {till[t].sale} /\ UNCHANGED trail
       \/ trail' = trail \union {<<"post_failed", till[t].sale>>} /\ UNCHANGED booked
    /\ till' = [till EXCEPT ![t] = IF @.first THEN [@ EXCEPT !.step = "commit"] ELSE FreeTill]
    /\ UNCHANGED <<bond, was, token, sale, rebinds>>
CommitStock(t) ==
    /\ till[t].step = "commit"
    /\ LET s == till[t].sale IN
         sale' = [sale EXCEPT ![s].stock = IF @ = "reserved" THEN "sold" ELSE @]
    /\ till' = [till EXCEPT ![t] = FreeTill]
    /\ UNCHANGED <<bond, was, token, booked, trail, rebinds>>

(* The request dies: an open transaction is rolled back, a call is not made.   *)
TillDies(t) == /\ till[t] # FreeTill
               /\ till' = [till EXCEPT ![t] = FreeTill]
               /\ UNCHANGED <<bond, was, token, sale, booked, trail, rebinds>>

(* What the other modules do to the same order: the PSP's confirmation, a      *)
(* cancellation, and the sweeper that takes an unpaid reservation back.        *)
ConfirmByPSP(s) ==
    /\ sale[s].status = "pending_payment" /\ Unlocked(s)
    /\ sale' = [sale EXCEPT ![s].status = "paid",
                            ![s].stock = IF @ = "reserved" THEN "sold" ELSE @]
    /\ UNCHANGED <<bond, was, token, till, booked, trail, rebinds>>
CancelSale(s) ==
    /\ sale[s].status = "pending_payment" /\ Unlocked(s)
    /\ sale' = [sale EXCEPT ![s].status = "cancelled",
                            ![s].stock = IF @ = "reserved" THEN "free" ELSE @]
    /\ UNCHANGED <<bond, was, token, till, booked, trail, rebinds>>
SweepSale(s) ==
    /\ sale[s] # NoSale /\ sale[s].stock = "reserved"
    /\ sale' = [sale EXCEPT ![s].stock = "free"]
    /\ UNCHANGED <<bond, was, token, till, booked, trail, rebinds>>

(* auth-service: a transfer, a promotion, a revocation; tokens follow later.   *)
Rebind(p, b) ==
    /\ rebinds < MaxRebinds /\ b # bond[p] /\ RoleOf[p] = "store_operator"
    /\ bond' = [bond EXCEPT ![p] = b]
    /\ was' = [was EXCEPT ![p] = bond[p]]
    /\ rebinds' = rebinds + 1
    /\ UNCHANGED <<token, sale, till, booked, trail>>
RefreshToken(p) ==
    /\ token[p] # bond[p].store
    /\ token' = [token EXCEPT ![p] = bond[p].store]
    /\ UNCHANGED <<bond, was, sale, till, booked, trail, rebinds>>

CounterNext ==
    \/ \E p \in People, s \in CounterSales :
          \/ \E store \in Stores, pct \in Discounts : SellAtCounter(p, s, store, pct)
          \/ \E d \in {"approved", "rejected"} : DecideApproval(p, s, d)
          \/ \E t \in Tills, r \in Receipts : BeginSettle(t, p, s, r)
    \/ \E t \in Tills : SettleSale(t) \/ PostToLedger(t) \/ CommitStock(t) \/ TillDies(t)
    \/ \E s \in CounterSales : ConfirmByPSP(s) \/ CancelSale(s) \/ SweepSale(s)
    \/ \E p \in People : RefreshToken(p) \/ \E b \in Bonds : Rebind(p, b)

CounterSpec == CounterInit /\ [][CounterNext]_counterVars
-----------------------------------------------------------------------------
(* Every variable holds a value of its kind. *)
CounterTypeOK ==
    /\ \A p \in People : bond[p] \in Bonds /\ token[p] \in Stores \union {Nobody}
    /\ \A s \in CounterSales : sale[s] = NoSale \/
         (/\ sale[s].status \in {"pending_payment", "paid", "cancelled"}
          /\ sale[s].approval \in {"not_required", "pending", "approved", "rejected"})
    /\ booked \subseteq CounterSales

(* Whatever bindings change while tokens and caches are stale, and whoever is  *)
(* unreachable: a sale with more discount than its seller could give is never  *)
(* declared paid on the machine unless somebody other than the seller approved *)
(* it.                                                                         *)
SettledDiscountHadASecondPerson ==
    \A s \in CounterSales :
      (sale[s] # NoSale /\ sale[s].receipt # Nobody /\ sale[s].pct > sale[s].limit) =>
        sale[s].approval = "approved" /\ sale[s].approver \notin {Nobody, sale[s].operator}

(* Two people, two tablets, a retry: one receipt of the machine pays one sale  *)
(* of a shop, a sale is settled by one receipt, and the ledger has revenue     *)
(* only of sales that were settled.                                            *)
OneReceiptOneSale ==
    /\ \A s, o \in {c \in CounterSales : sale[c] # NoSale} :
         (s # o /\ sale[s].store = sale[o].store /\ sale[s].receipt = sale[o].receipt)
            => sale[s].receipt = Nobody
    /\ \A s \in CounterSales : Cardinality({e \in trail : e[1] = "settled" /\ e[2] = s}) <= 1
    /\ \A s \in booked : sale[s].receipt # Nobody

(* What is declared paid on the machine is backed by a second person where the *)
(* discount needs one, and by a receipt of its own.                            *)
SettlementsAreSound == SettledDiscountHadASecondPerson /\ OneReceiptOneSale
=============================================================================
