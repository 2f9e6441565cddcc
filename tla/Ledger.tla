--------------------------------- MODULE Ledger ---------------------------------
(* The double-entry book of payment-service (internal/ledger): who posts what, *)
(* under which key, how a month is closed while others post                    *)
(* (ledger/period.go), and how the payments are compared with the book and     *)
(* with the PSP (ledger/reconcile.go). A posting is a database transaction: the*)
(* INSERT, which the triggers of migrations/005 check, and its commit are two  *)
(* steps. A closing reads the month in three statements before it writes it.   *)
EXTENDS Integers, Sequences, FiniteSets, Sums

CONSTANTS Payments,  \* payments of the PSP
          Sales,     \* counter sales settled outside of the PSP
          Refunds,   \* returns whose refund is posted
          Writers,   \* concurrent transactions on the book
          Closers,   \* administrators closing a month
          LastMonth, \* the clock stops there
          MaxDocs,   \* documents in one behaviour
          MaxCheck,  \* maxCheckPerRun
          Checkable  \* the payments, oldest first

ASSUME LedgerAssumption == /\ LastMonth \in Nat \ {0} /\ MaxDocs \in Nat /\ MaxCheck \in Nat
                           /\ Checkable \in Seq(Payments)

VARIABLES clock,    \* the current month
          pay,      \* payments: status here, status and amount at the PSP, whether a webhook
                    \* still may post it, and (history) whether the PSP ever approved PriceOf
          book,     \* the committed documents, by key
          writer,   \* the document each open transaction has inserted
          period,   \* ledger_periods: the row of a closed month
          closing,  \* what each closing has read so far
          quiet,    \* history: months nobody wrote in while they were being closed
          recon     \* the reconciliation run

bookVars == <<book, writer>>
ledgerVars == <<clock, pay, bookVars, period, closing, quiet, recon>>

LedgerMonths == 1..LastMonth
NoDoc == [key |-> << >>]
NotClosing == [step |-> "idle"]
NoRun == [step |-> "idle"]

Posting(account, side, amount) == [account |-> account, side |-> side, amount |-> amount]
Signed(posting, side) == IF posting.side = side THEN posting.amount ELSE -posting.amount
Flow(lines, account, side) ==
    SumOver([i \in DOMAIN lines |->
                IF lines[i].account = account THEN Signed(lines[i], side) ELSE 0], DOMAIN lines)

(* The documents the handlers build. Gross revenue and the fee of the PSP are  *)
(* separate lines; a refund is a reduction of revenue of its own; freight that *)
(* is paid back has its own line.                                              *)
SaleLines(gross, fee) ==
    <<Posting("caixa_psp", "debit", gross), Posting("receita", "credit", gross)>> \o
    (IF fee > 0 THEN <<Posting("taxa", "debit", fee), Posting("caixa_psp", "credit", fee)>>
     ELSE << >>)
ExternalSaleLines(gross) ==
    <<Posting("caixa_adquirente", "debit", gross), Posting("receita", "credit", gross)>>
RefundLines(goods, freight) ==
    <<Posting("estornos", "debit", goods), Posting("caixa_psp", "credit", goods + freight)>> \o
    (IF freight > 0 THEN <<Posting("estornos", "debit", freight)>> ELSE << >>)
Inverted(lines) ==
    [i \in DOMAIN lines |-> [lines[i] EXCEPT !.side = IF @ = "credit" THEN "debit" ELSE "credit"]]

(* TxInput.Validate. *)
SideTotal(lines, side) ==
    SumOver([i \in DOMAIN lines |-> IF lines[i].side = side THEN lines[i].amount ELSE 0],
            DOMAIN lines)
ValidEntry(lines) == /\ Len(lines) >= 2
                /\ \A i \in DOMAIN lines : lines[i].amount > 0
                /\ SideTotal(lines, "debit") = SideTotal(lines, "credit")

PriceOf == 3
LedgerInit ==
    /\ clock = 1
    /\ pay \in [Payments -> {[status |-> "pending", psp |-> "pending", amount |-> PriceOf,
                              posts |-> FALSE, approved |-> FALSE]}]
    /\ book = << >>
    /\ writer = [w \in Writers |-> NoDoc]
    /\ period = << >>
    /\ closing = [c \in Closers |-> NotClosing]
    /\ quiet = LedgerMonths
    /\ recon = NoRun

(* A table with one more row. *)
With(table, key, row) ==
    [k \in {key} \union DOMAIN table |-> IF k = key THEN row ELSE table[k]]

(* Months somebody is closing, and has begun to read. *)
Reading == {closing[c].month : c \in {d \in Closers : closing[d].step # "idle"}}
InFlight(m) == \E w \in Writers : writer[w] # NoDoc /\ writer[w].month = m

(* The INSERT: the trigger on the month speaks before the unique key does, and *)
(* a transaction waits for another one that holds its key.                     *)
InsertEntry(w, key, month, lines) ==
    /\ writer[w] = NoDoc /\ Cardinality(DOMAIN book) < MaxDocs
    /\ ValidEntry(lines)
    /\ month \notin DOMAIN period
    /\ key \notin DOMAIN book
    /\ \A v \in Writers : writer[v].key # key
    /\ writer' = [writer EXCEPT ![w] = [key |-> key, month |-> month, lines |-> lines]]
    /\ quiet' = quiet \ (Reading \cap {month})
    /\ UNCHANGED <<clock, pay, book, period, closing, recon>>

(* The audit row and the commit; or a failure on the way. *)
CommitEntry(w) ==
    /\ writer[w] # NoDoc
    /\ book' = With(book, writer[w].key, [month |-> writer[w].month, lines |-> writer[w].lines])
    /\ writer' = [writer EXCEPT ![w] = NoDoc]
    /\ UNCHANGED <<clock, pay, period, closing, quiet, recon>>
RollbackEntry(w) ==
    /\ writer[w] # NoDoc
    /\ writer' = [writer EXCEPT ![w] = NoDoc]
    /\ UNCHANGED <<clock, pay, book, period, closing, quiet, recon>>

(* A webhook that found its payment confirmed posts the sale once it has       *)
(* committed, dated now and whatever the payment has become since.             *)
PostSale(w, p) == /\ pay[p].posts
                  /\ InsertEntry(w, <<"sale", p>>, clock, SaleLines(PriceOf, 0))

(* order-service dates a settlement or a refund itself: its call may arrive in *)
(* the following month.                                                        *)
Dated == {m \in LedgerMonths : m \in {clock - 1, clock}}
PostExternalSale(w, s) == \E m \in Dated :
    InsertEntry(w, <<"external_sale", s>>, m, ExternalSaleLines(PriceOf))
PostReturnRefund(w, r) == \E m \in Dated :
    InsertEntry(w, <<"refund", r>>, m, RefundLines(1, 1))

(* The only way to correct the book: the document with its sides inverted,     *)
(* dated now, once per document.                                               *)
ReverseEntry(w, key) == /\ key \in DOMAIN book
                   /\ InsertEntry(w, <<"reversal", key>>, clock, Inverted(book[key].lines))

(* Reports over the month, each of one statement of its own. *)
InMonth(m) == {k \in DOMAIN book : book[k].month = m}
FlowIn(keys, account, side) ==
    SumOver([k \in DOMAIN book |-> Flow(book[k].lines, account, side)], keys)
AccountsOf == {"caixa_psp", "caixa_adquirente", "receita", "taxa", "estornos"}
TrialBalance(m) ==
    [a \in AccountsOf |-> FlowIn(InMonth(m), a, "debit")]
BalancedMonth(m) == SumOver(TrialBalance(m), AccountsOf) = 0
RevenueIn(m) == FlowIn(InMonth(m), "receita", "credit")
RefundedIn(m) == FlowIn(InMonth(m), "estornos", "debit")
EntriesIn(m) == SumOver([k \in DOMAIN book |-> Len(book[k].lines)], InMonth(m))

(* Close: the month has ended and is not closed; balances and totals are read  *)
(* one after the other, then the count with the INSERT of the row, which is    *)
(* refused by its primary key when another administrator was faster.           *)
BeginClose(c, m) ==
    /\ closing[c] = NotClosing
    /\ m < clock /\ m \notin DOMAIN period
    /\ BalancedMonth(m)
    /\ closing' = [closing EXCEPT ![c] =
         [step |-> "balances", month |-> m, balances |-> TrialBalance(m)]]
    /\ quiet' = IF InFlight(m) THEN quiet \ {m} ELSE quiet
    /\ UNCHANGED <<clock, pay, bookVars, period, recon>>
ReadTotals(c) ==
    /\ closing[c].step = "balances"
    /\ LET m == closing[c].month IN
         closing' = [closing EXCEPT ![c] =
            [step |-> "totals", month |-> m, balances |-> closing[c].balances,
             net |-> RevenueIn(m) - RefundedIn(m)]]
    /\ UNCHANGED <<clock, pay, bookVars, period, quiet, recon>>
WritePeriod(c) ==
    /\ closing[c].step = "totals"
    /\ LET m == closing[c].month IN
         period' = IF m \in DOMAIN period THEN period
                   ELSE With(period, m, [balances |-> closing[c].balances,
                                         net |-> closing[c].net, count |-> EntriesIn(m)])
    /\ closing' = [closing EXCEPT ![c] = NotClosing]
    /\ UNCHANGED <<clock, pay, bookVars, quiet, recon>>
GiveUpClosing(c) ==
    /\ closing[c] # NotClosing
    /\ closing' = [closing EXCEPT ![c] = NotClosing]
    /\ UNCHANGED <<clock, pay, bookVars, period, quiet, recon>>

(* The rest of the world: the clock, and the PSP, whose word on a charge and   *)
(* on its amount may change at any time.                                       *)
NextMonth == clock < LastMonth /\ clock' = clock + 1
             /\ UNCHANGED <<pay, bookVars, period, closing, quiet, recon>>
PaymentStatuses == {"pending", "confirmed", "failed"}
PSPDecides(p) ==
    /\ \E s \in PaymentStatuses, a \in {PriceOf, PriceOf + 1} :
         pay' = [pay EXCEPT ![p].psp = s, ![p].amount = a,
                            ![p].approved = @ \/ (s = "confirmed" /\ a = PriceOf)]
    /\ UNCHANGED <<clock, bookVars, period, closing, quiet, recon>>

(* What the PSP says is written over whatever the payment was. A webhook       *)
(* refuses another amount, and posts the sale of a payment it finds confirmed; *)
(* a synchronisation only warns of the amount, and posts nothing.              *)
\* Mutant: the webhook, too, only warns of another amount.
WebhookTakesAnyAmount(p) ==
    /\ pay' = [pay EXCEPT ![p].status = pay[p].psp, ![p].posts = @ \/ pay[p].psp = "confirmed"]
    /\ UNCHANGED <<clock, bookVars, period, closing, quiet, recon>>
WebhookFinds(p) ==
    /\ pay[p].amount = PriceOf
    /\ pay' = [pay EXCEPT ![p].status = pay[p].psp, ![p].posts = @ \/ pay[p].psp = "confirmed"]
    /\ UNCHANGED <<clock, bookVars, period, closing, quiet, recon>>
SyncPayment(p) ==
    /\ pay' = [pay EXCEPT ![p].status = pay[p].psp]
    /\ UNCHANGED <<clock, bookVars, period, closing, quiet, recon>>

(* Reconcile: the oldest payments of the window with whether they are in the   *)
(* book, in one statement; then the PSP is asked about each.                   *)
BeginRun ==
    /\ recon.step \in {"idle", "ok", "discrepancies"}
    /\ recon' = [step |-> "running", next |-> 1, found |-> {},
                 seen |-> [i \in 1..Min({MaxCheck, Len(Checkable)}) |->
                    [pay |-> Checkable[i], status |-> pay[Checkable[i]].status,
                     booked |-> <<"sale", Checkable[i]>> \in DOMAIN book]]]
    /\ UNCHANGED <<clock, pay, bookVars, period, closing, quiet>>

StatusCompatible(local, psp) == local = psp \/ (local = "pending" /\ psp \in {"confirmed", "pending"})
\* Mutant: the book is not looked at when the PSP agrees.
DiscrepanciesOfThePSP(l, answered) ==
    IF ~answered THEN {<<l.pay, "psp_error">>}
    ELSE IF pay[l.pay].amount # PriceOf THEN {<<l.pay, "amount_mismatch">>}
    ELSE IF ~StatusCompatible(l.status, pay[l.pay].psp) THEN {<<l.pay, "status_mismatch">>}
    ELSE {}
Discrepancies(l, answered) ==
    (IF l.status = "confirmed" /\ ~l.booked THEN {<<l.pay, "ledger_missing">>} ELSE {}) \union
    (IF ~answered THEN {<<l.pay, "psp_error">>}
     ELSE IF pay[l.pay].amount # PriceOf THEN {<<l.pay, "amount_mismatch">>}
     ELSE IF ~StatusCompatible(l.status, pay[l.pay].psp) THEN {<<l.pay, "status_mismatch">>}
     ELSE {})
CheckPayment(answered) ==
    /\ recon.step = "running" /\ recon.next \in DOMAIN recon.seen
    /\ recon' = [recon EXCEPT !.next = @ + 1,
                              !.found = @ \union Discrepancies(recon.seen[recon.next], answered)]
    /\ UNCHANGED <<clock, pay, bookVars, period, closing, quiet>>
FinishRun ==
    /\ recon.step = "running" /\ recon.next \notin DOMAIN recon.seen
    /\ recon' = [recon EXCEPT !.step = IF recon.found = {} THEN "ok" ELSE "discrepancies"]
    /\ UNCHANGED <<clock, pay, bookVars, period, closing, quiet>>

(* A reversal of a reversal is the deepest correction considered.              *)
Reversible == {k \in DOMAIN book : k[1] # "reversal" \/ k[2][1] # "reversal"}
BookNext ==
    \/ \E w \in Writers : \/ \E p \in Payments : PostSale(w, p)
                          \/ \E s \in Sales : PostExternalSale(w, s)
                          \/ \E r \in Refunds : PostReturnRefund(w, r)
                          \/ \E k \in Reversible : ReverseEntry(w, k)
                          \/ CommitEntry(w) \/ RollbackEntry(w)
    \/ \E p \in Payments : PSPDecides(p) \/ WebhookFinds(p) \/ SyncPayment(p)
ClosingNext ==
    \/ \E c \in Closers : \/ \E m \in LedgerMonths : BeginClose(c, m)
                          \/ ReadTotals(c) \/ WritePeriod(c) \/ GiveUpClosing(c)
    \/ NextMonth
ReconNext == BeginRun \/ FinishRun \/ \E a \in BOOLEAN : CheckPayment(a)
LedgerNext == BookNext \/ ClosingNext \/ ReconNext

LedgerSpec == LedgerInit /\ [][LedgerNext]_ledgerVars
-----------------------------------------------------------------------------
(* Every variable holds a value of its kind, and every document in the book is *)
(* a valid one.                                                                *)
LedgerTypeOK ==
    /\ clock \in LedgerMonths /\ DOMAIN period \subseteq LedgerMonths
    /\ \A k \in DOMAIN book : book[k].month \in LedgerMonths /\ ValidEntry(book[k].lines)
    /\ recon.step \in {"idle", "running", "ok", "discrepancies"}

(* What redelivered webhooks, repeated settlements and corrections made by     *)
(* several people at once leave of a source document in the revenue: all of it *)
(* or nothing, and never for a charge the PSP did not at some time approve for *)
(* what the order costs (what the PSP or a synchronisation says of the payment *)
(* afterwards does not take the sale out of the book).                         *)
Corrections(k) == {k, <<"reversal", k>>, <<"reversal", <<"reversal", k>>>>} \cap DOMAIN book
NetRevenue(k) == FlowIn(Corrections(k), "receita", "credit")
RevenueNeverDoubles ==
    /\ \A p \in Payments :
         /\ NetRevenue(<<"sale", p>>) \in {0, PriceOf}
         /\ NetRevenue(<<"sale", p>>) > 0 => pay[p].approved
    /\ \A s \in Sales : NetRevenue(<<"external_sale", s>>) \in {0, PriceOf}

(* "June is over, this is the balance": a month closed while nobody wrote in   *)
(* it keeps, whatever is posted or reversed later, the balances, the totals    *)
(* and the count that were handed over. (A month somebody was writing in may   *)
(* be closed with readings that miss the entry, or that disagree.)             *)
QuietClosingIsFinal ==
    \A m \in DOMAIN period \cap quiet :
        /\ period[m].balances = TrialBalance(m)
        /\ period[m].net = RevenueIn(m) - RefundedIn(m)
        /\ period[m].count = EntriesIn(m)

(* The book can be given to the accountant: every sale counts once, and a      *)
(* closed month stays what it was when it was handed over.                     *)
BookCanBeHandedOver == RevenueNeverDoubles /\ QuietClosingIsFinal

(* A reconciliation that ends without a discrepancy vouches for the payments   *)
(* it read: each one that was confirmed has its sale in the book, although the *)
(* sale is posted after the payment is committed and may fail on the way.      *)
CleanRunVouchesForTheBook ==
    recon.step = "ok" => \A i \in DOMAIN recon.seen :
        recon.seen[i].status = "confirmed" => <<"sale", recon.seen[i].pay>> \in DOMAIN book
=============================================================================
