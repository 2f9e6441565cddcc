------------------------------- MODULE AfterSales -------------------------------
(* The returns of one order, across three services: order-service decides,     *)
(* receives and refunds (handler/returns.go), catalog-service takes the goods  *)
(* back (handler/restock.go), payment-service asks the PSP for the money       *)
(* (handler/refund_psp.go) and enters the refund in the ledger                 *)
(* (handler/return_refund.go). Every handler that leaves its transaction to    *)
(* call another service is a sequence of steps of the desk that runs it, and   *)
(* desks interleave. Money is in whole units: a price is 1 per unit.           *)
EXTENDS Integers, FiniteSets, Sums

CONSTANTS Items,      \* lines of the order
          Bought,     \* units bought of each line
          Shipping,   \* what the delivery cost
          Returns,    \* identifiers of the returns that may be opened
          Desks,      \* concurrent requests of the back office
          Orders,     \* the situations the order may be in (records)
          Days,       \* the days on which something may happen
          MaxSlips   \* slips in one behaviour

ASSUME OrderAssumption ==
    /\ Bought \in [Items -> Nat] /\ Shipping \in Nat /\ MaxSlips \in Nat
    /\ Days \subseteq Nat /\ IsFiniteSet(Items) /\ IsFiniteSet(Returns)

VARIABLES order,    \* the row of orders, as returns.OrderRef reads it
          today,    \* the day the clock of the service shows
          ret,      \* order_returns and order_return_items
          lot,      \* cashback of the order the customer has not spent yet
          desk,     \* what each request is doing
          pspRow,   \* psp_refunds: status of the row of each return
          paidOut,  \* what the PSP paid back on account of each return
          restocked,\* units catalog-service put back for each return
          ledger,   \* amount of the refund entry of each return
          slips

pspVars == <<pspRow, paidOut>>
afterVars == <<order, today, ret, lot, desk, pspRow, paidOut, restocked, ledger, slips>>

NoOne == [items |-> [i \in Items |-> 0], status |-> "none", kind |-> "regret",
          shipping |-> 0, stock |-> FALSE, posted |-> FALSE]
IdleDesk == [step |-> "idle"]

UnitsIn(q) == SumOver(q, DOMAIN q)
Captured == UnitsIn(Bought) + Shipping

(* The deadline: 7 days of regret and 90 of defect from the delivery (or the   *)
(* payment, over the counter); the window is open while no such date is known. *)
RegretDays == 7
DefectDays == 90
Basis == IF order.channel = "balcao" THEN order.paidDay ELSE order.deliveredDay
RegretOpen == Basis # {} => \A d \in Basis : today <= d + RegretDays
DefectOpen == Basis # {} => \A d \in Basis : today <= d + DefectDays

(* Units of a line in returns that were neither rejected nor cancelled. *)
\* Mutant: a return that was refunded no longer counts.
LiveReturnsStillOpen ==
    {r \in Returns : ret[r].status \notin {"none", "rejected", "cancelled", "refunded"}}
LiveReturns == {r \in Returns : ret[r].status \notin {"none", "rejected", "cancelled"}}
Returned(i) == SumOver([r \in Returns |-> ret[r].items[i]], LiveReturns)
UnitsLeft(i) == Bought[i] - Returned(i)
TakesAllThatIsLeft(q) == \A i \in Items : UnitsLeft(i) > 0 => q[i] = UnitsLeft(i)

(* Every unit of the order is in some live return: recomputed at each reading. *)
FullReturn == /\ UnitsIn(Bought) > 0
              /\ SumOver([i \in Items |-> Returned(i)], Items) >= UnitsIn(Bought)

RefundValue(r) == UnitsIn(ret[r].items) + ret[r].shipping
CanTransition(from, to) ==
    <<from, to>> \in {<<"requested", "approved">>, <<"requested", "rejected">>,
                      <<"requested", "cancelled">>, <<"approved", "in_transit">>,
                      <<"approved", "received">>, <<"approved", "cancelled">>,
                      <<"in_transit", "received">>, <<"received", "refunded">>}

AfterInit ==
    /\ order \in Orders
    /\ today \in Days
    /\ ret = [r \in Returns |-> NoOne]
    /\ lot = 1
    /\ desk = [d \in Desks |-> IdleDesk]
    /\ pspRow = [r \in Returns |-> "none"]
    /\ paidOut = [r \in Returns |-> 0]
    /\ restocked = [r \in Returns |-> [i \in Items |-> 0]]
    /\ ledger = [r \in Returns |-> 0]
    /\ slips = 0

(* Who may ask, and of which order; what may be asked for; and on which ground. *)
Returnable(actor) == /\ actor \in {"owner", "staff"}
                     /\ order.status \in {"paid", "picking", "shipped", "delivered"}
Resolvable(wanted) == /\ UnitsIn(wanted) > 0
                      /\ \A i \in Items : wanted[i] <= UnitsLeft(i)
Evaluate(wanted, actor, reason) ==
    /\ Returnable(actor)
    /\ RegretOpen \/ (DefectOpen /\ reason)
    /\ Resolvable(wanted)
    /\ order.split => TakesAllThatIsLeft(wanted)

(* POST /orders/:id/returns under the lock of the order: the date decides the  *)
(* legal ground, and a regret is born approved.                                *)
OpenReturn(r, wanted, actor, reason) ==
    /\ ret[r].status = "none"
    /\ Evaluate(wanted, actor, reason)
    /\ ret' = [ret EXCEPT ![r] =
         [NoOne EXCEPT
            !.items = wanted,
            !.kind = IF RegretOpen THEN "regret" ELSE "defect",
            !.status = IF RegretOpen THEN "approved" ELSE "requested",
            !.shipping = IF RegretOpen /\ TakesAllThatIsLeft(wanted) THEN Shipping ELSE 0]]
    /\ UNCHANGED <<order, today, lot, desk, pspVars, restocked, ledger, slips>>

(* PATCH approve / reject: a rejection needs a note, a regret cannot be one. *)
DecideReturn(r, to, note) ==
    /\ ret[r].status # "none"
    /\ to = "rejected" => ret[r].kind # "regret" /\ note
    /\ CanTransition(ret[r].status, to)
    /\ ret' = [ret EXCEPT ![r].status = to]
    /\ UNCHANGED <<order, today, lot, desk, pspVars, restocked, ledger, slips>>

(* PATCH receive: the goods are counted in, and only then, outside of the      *)
(* transaction, catalog-service is asked to put back the usable ones.          *)
ReceiveReturn(d, r, usable) ==
    /\ desk[d] = IdleDesk
    /\ CanTransition(ret[r].status, "received")
    /\ ret' = [ret EXCEPT ![r].status = "received"]
    /\ desk' = [desk EXCEPT ![d] = IF UnitsIn(usable) = 0 THEN IdleDesk
                                   ELSE [step |-> "restock", ret |-> r, items |-> usable]]
    /\ UNCHANGED <<order, today, lot, pspVars, restocked, ledger, slips>>

(* The quantities an inspector may mark as usable, capped at what came back. *)
UsableUnits(r) == {q \in [Items -> 0..Max({Bought[i] : i \in Items})] :
                 \A i \in Items : q[i] <= ret[r].items[i]}

(* The call was served; its flag is set unless the reply or the UPDATE is lost. *)
Slip == slips < MaxSlips /\ slips' = slips + 1
SetFlag(flagged) == \/ ret' = flagged /\ UNCHANGED slips
                    \/ Slip /\ UNCHANGED ret

(* POST /restock, once per return, and the flag of order_returns. *)
PutBack(r, items) == restocked' = IF UnitsIn(restocked[r]) > 0 THEN restocked
                                  ELSE [restocked EXCEPT ![r] = items]
RestockReturn(d) ==
    /\ desk[d].step = "restock"
    /\ PutBack(desk[d].ret, desk[d].items)
    /\ SetFlag([ret EXCEPT ![desk[d].ret].stock = TRUE])
    /\ desk' = [desk EXCEPT ![d] = IdleDesk]
    /\ UNCHANGED <<order, today, lot, pspVars, ledger>>

\* Mutant: whatever state the return is in.
BeginRefundUnchecked(d, r) ==
    /\ desk[d] = IdleDesk
    /\ ret[r].status # "none" /\ RefundValue(r) > 0
    /\ desk' = [desk EXCEPT ![d] = [step |-> "ask", ret |-> r, all |-> FullReturn,
                                    amount |-> RefundValue(r)]]
    /\ UNCHANGED <<order, today, ret, lot, pspVars, restocked, ledger, slips>>
(* PATCH refund, first transaction: checks under the lock of the return and    *)
(* lets go of it. A return already refunded only has its entry posted again.   *)
BeginRefund(d, r) ==
    /\ desk[d] = IdleDesk
    /\ \/ /\ ret[r].status = "refunded"
          /\ desk' = [desk EXCEPT ![d] = [step |-> "book", ret |-> r]]
       \/ /\ CanTransition(ret[r].status, "refunded")
          /\ RefundValue(r) > 0
          /\ desk' = [desk EXCEPT ![d] = [step |-> "ask", ret |-> r, all |-> FullReturn,
                                          amount |-> RefundValue(r)]]
    /\ UNCHANGED <<order, today, ret, lot, pspVars, restocked, ledger, slips>>

(* Mutant: the row of psp_refunds is written whether or not there is one.       *)
ReserveAgain(d) ==
    /\ desk[d].step = "ask"
    /\ LET r == desk[d].ret IN
       \/ /\ ~order.psp
          /\ desk' = [desk EXCEPT ![d] = [step |-> "mark", ret |-> r]]
          /\ UNCHANGED pspRow
       \/ /\ order.psp
          /\ pspRow' = [pspRow EXCEPT ![r] = "requested"]
          /\ desk' = [desk EXCEPT ![d].step = "psp"]
    /\ UNCHANGED <<order, today, ret, lot, paidOut, restocked, ledger, slips>>
(* POST /internal/v1/refunds: a row of psp_refunds is reserved before the PSP  *)
(* is called. A row already there, or an order no PSP was paid for, lets the   *)
(* desk go on without a call.                                                  *)
ReserveRefund(d) ==
    /\ desk[d].step = "ask"
    /\ LET r == desk[d].ret IN
       \/ /\ pspRow[r] # "none" \/ ~order.psp
          /\ desk' = [desk EXCEPT ![d] = [step |-> "mark", ret |-> r]]
          /\ UNCHANGED pspRow
       \/ /\ pspRow[r] = "none" /\ order.psp
          /\ pspRow' = [pspRow EXCEPT ![r] = "requested"]
          /\ desk' = [desk EXCEPT ![d].step = "psp"]
    /\ UNCHANGED <<order, today, ret, lot, paidOut, restocked, ledger, slips>>

(* The PSP pays back the amount, or all it still holds when asked for a total. *)
PaidOut == SumOver(paidOut, Returns)
PspPays(d) == IF desk[d].all THEN Captured - PaidOut ELSE desk[d].amount
PspCan(d) == PspPays(d) > 0 /\ PaidOut + PspPays(d) <= Captured

PspRefunds(d) ==
    /\ desk[d].step = "psp"
    /\ PspCan(d)
    /\ LET r == desk[d].ret IN
         /\ paidOut' = [paidOut EXCEPT ![r] = @ + PspPays(d)]
         /\ \E s \in {"requested", "refunded"} : pspRow' = [pspRow EXCEPT ![r] = s]
         /\ desk' = [desk EXCEPT ![d] = [step |-> "mark", ret |-> r]]
    /\ UNCHANGED <<order, today, ret, lot, restocked, ledger, slips>>

(* The PSP refuses: the reservation is undone and the desk is told to retry. *)
DropRow(r) == pspRow' = [pspRow EXCEPT ![r] = IF @ = "requested" THEN "none" ELSE @]
PspRefuses(d) ==
    /\ desk[d].step = "psp"
    /\ ~PspCan(d)
    /\ DropRow(desk[d].ret)
    /\ desk' = [desk EXCEPT ![d] = IdleDesk]
    /\ UNCHANGED <<order, today, ret, lot, paidOut, restocked, ledger, slips>>

(* Second transaction: the return is marked refunded, unless another desk did  *)
(* it meanwhile; a full return takes back the cashback not spent yet.          *)
MarkRefunded(d) ==
    /\ desk[d].step = "mark"
    /\ LET r == desk[d].ret IN
         \/ /\ ret[r].status = "refunded"
            /\ UNCHANGED <<ret, lot>>
         \/ /\ ret[r].status # "refunded"
            /\ ret' = [ret EXCEPT ![r].status = "refunded"]
            /\ lot' = IF FullReturn THEN 0 ELSE lot
    /\ desk' = [desk EXCEPT ![d].step = "book"]
    /\ UNCHANGED <<order, today, pspVars, restocked, ledger, slips>>

(* POST /internal/v1/ledger/return-refund: one entry per return, ever. *)
BookRefund(r) == ledger' = [ledger EXCEPT ![r] = IF @ = 0 THEN RefundValue(r) ELSE @]
PostRefund(d) ==
    /\ desk[d].step = "book"
    /\ BookRefund(desk[d].ret)
    /\ SetFlag([ret EXCEPT ![desk[d].ret].posted = TRUE])
    /\ desk' = [desk EXCEPT ![d] = IdleDesk]
    /\ UNCHANGED <<order, today, lot, pspVars, restocked>>

(* Faults. A call to another service, or the second transaction, fails and the *)
(* request gives up; the PSP refuses for reasons of its own; the PSP pays and  *)
(* its answer is lost; payment-service dies after it reserved the row.         *)
StepFails(d) ==
    /\ desk[d].step \in {"restock", "ask", "mark", "book"}
    /\ Slip
    /\ desk' = [desk EXCEPT ![d] = IdleDesk]
    /\ UNCHANGED <<order, today, ret, lot, pspVars, restocked, ledger>>
PspAnswerLost(d) ==
    /\ desk[d].step = "psp"
    /\ Slip
    /\ \/ UNCHANGED paidOut
       \/ PspCan(d) /\ paidOut' = [paidOut EXCEPT ![desk[d].ret] = @ + PspPays(d)]
    /\ DropRow(desk[d].ret)
    /\ desk' = [desk EXCEPT ![d] = IdleDesk]
    /\ UNCHANGED <<order, today, ret, lot, restocked, ledger>>
PaymentDies(d) ==
    /\ desk[d].step = "psp"
    /\ Slip
    /\ desk' = [desk EXCEPT ![d] = IdleDesk]
    /\ UNCHANGED <<order, today, ret, lot, pspVars, restocked, ledger>>

NextDay == /\ \E day \in Days : day > today /\ today' = day
           /\ UNCHANGED <<order, ret, lot, desk, pspVars, restocked, ledger, slips>>

Wanted == [Items -> 0..Max({Bought[i] : i \in Items})]

AfterNext ==
    \/ \E r \in Returns, q \in Wanted, actor \in {"owner", "staff", "stranger"},
          reason \in BOOLEAN : OpenReturn(r, q, actor, reason)
    \/ \E r \in Returns, to \in {"approved", "rejected"}, note \in BOOLEAN :
          DecideReturn(r, to, note)
    \/ \E d \in Desks, r \in Returns : \E q \in UsableUnits(r) : ReceiveReturn(d, r, q)
    \/ \E d \in Desks, r \in Returns : BeginRefund(d, r)
    \/ \E d \in Desks : RestockReturn(d) \/ ReserveRefund(d) \/ PspRefunds(d) \/ PspRefuses(d)
                        \/ MarkRefunded(d) \/ PostRefund(d)
    \/ \E d \in Desks : StepFails(d) \/ PspAnswerLost(d) \/ PaymentDies(d)
    \/ NextDay

AfterSpec == AfterInit /\ [][AfterNext]_afterVars
-----------------------------------------------------------------------------
(* Every variable holds a value of its kind. *)
AfterTypeOK ==
    /\ order \in Orders /\ today \in Days /\ lot \in Nat /\ slips \in 0..MaxSlips
    /\ \A r \in Returns :
         /\ ret[r].status \in {"none", "requested", "approved", "rejected", "received", "refunded"}
         /\ ret[r].kind \in {"regret", "defect"}
         /\ \A i \in Items : ret[r].items[i] \in 0..Bought[i]
    /\ \A r \in Returns : pspRow[r] \in {"none", "requested", "refunded"} /\ ledger[r] \in Nat

(* However many returns an order has, and whatever was rejected in between, no *)
(* unit of it is in two live returns, put back for sale twice, or put back     *)
(* before somebody counted it in.                                              *)
NothingComesBackTwice ==
    \A i \in Items :
        LET taken == [r \in Returns |-> ret[r].items[i]]
            shelved == [r \in Returns |-> restocked[r][i]]
        IN /\ SumOver(taken, {r \in Returns : ret[r].status \notin {"rejected", "cancelled"}})
              <= Bought[i]
           /\ SumOver(shelved, Returns) <=
              SumOver(taken, {r \in Returns : ret[r].status \in {"received", "refunded"}})

(* What the services do to a return is what ReturnJourney promises of it.      *)
Journey == INSTANCE ReturnJourney WITH
                  stage <- [r \in Returns |-> ret[r].status],
                  shelved <- {r \in Returns : UnitsIn(restocked[r]) > 0},
                  booked <- {r \in Returns : ledger[r] > 0}
ImplementsReturnJourney == Journey!JourneySpec

(* The PSP pays on account of a return only after its goods were counted in,   *)
(* for the one request that reserved its row, however many desks refund it, and *)
(* pays for it a second time only where something has failed.                  *)
MoneyLeavesAfterTheGoods ==
    [][\A r \in Returns : paidOut'[r] # paidOut[r] =>
          /\ ret[r].status \in {"received", "refunded"} /\ pspRow[r] = "requested"
          /\ paidOut[r] = 0 \/ slips > 0]_afterVars

(* The ledger has of a return exactly what it is worth, once it is refunded;   *)
(* and what the row says was posted is there, whatever answers were lost.      *)
RefundsAreBookedAsDecided ==
    \A r \in Returns :
        /\ ledger[r] > 0 => ret[r].status = "refunded" /\ ledger[r] = RefundValue(r)
        /\ ret[r].posted => ledger[r] > 0

(* returns/transition.go:36 says that money leaves only from `received`: what  *)
(* the PSP paid back never exceeds the goods that were counted in, even when   *)
(* the delivery is paid back with them.                                        *)
MoneyFollowsTheGoods ==
    PaidOut <= Shipping + SumOver([r \in Returns |-> UnitsIn(ret[r].items)],
                             {r \in Returns : ret[r].status \in {"received", "refunded"}})
=============================================================================
