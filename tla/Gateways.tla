------------------------------- MODULE Gateways -------------------------------
(* The four implementations of psp.Gateway: what each checks, in which order it *)
(* calls its PSP, how its transport retries, and how the words of the PSP       *)
(* become the six statuses of the store. Appmax v1 logs in with a token that    *)
(* concurrent calls share and may lose in mid-flight. Money is in mills (tenths *)
(* of a cent) until it is rounded; headers, JSON and wording are left out.      *)
EXTENDS Integers, Sequences, FiniteSets, SequencesExt, Sums

CONSTANTS Wires,         \* goroutines that call the PSP
          PspAsks,       \* what may be asked of a gateway
          MaxRetriesV1,  \* Config.MaxRetries of Appmax v1
          MaxRevocations,\* tokens the PSP revokes before their time
          MaxMoney,      \* math.MaxInt64
          MaxWithdraw    \* maxWithdrawCents

ASSUME GatewaysAssumption ==
    /\ {MaxRevocations, MaxMoney, MaxWithdraw} \subseteq Nat /\ MaxRetriesV1 \in Nat \ {0}
    /\ \A a \in PspAsks : a.op = "charge" =>
         /\ {a.amount, a.shipping} \subseteq Int
         /\ a.items \in Seq([price : Int, qty : Int])

VARIABLES provider, \* PSP_PROVIDER
          purse,    \* Client.token; `ripe` is that its window has passed
          honoured, \* the tokens the PSP would accept
          fetcher,    \* who holds authMu
          wire,     \* the progress of each call
          took      \* what the PSP did for each call: how often each route was executed

gatewayVars == <<provider, purse, honoured, fetcher, wire, took>>
Providers == {"stripe", "mercadopago", "appmax", "appmax-v1"}
PaymentWords == {"pending", "approved", "rejected", "cancelled", "expired", "authorized"}
-----------------------------------------------------------------------------
(* The words of each PSP for the statuses of the store; any other is pending.   *)
StripeWords == [approved |-> {"succeeded"}, authorized |-> {"requires_capture"},
                cancelled |-> {"canceled"}]
MercadoPagoWords == [approved |-> {"approved"}, authorized |-> {"authorized"},
                     rejected |-> {"rejected"},
                     cancelled |-> {"cancelled", "refunded", "charged_back"}]
AppmaxWords == [approved |-> {"aprovado", "integrado", "pendente_integracao"},
                authorized |-> {"autorizado"}, rejected |-> {"recusado_por_risco"},
                cancelled |-> {"cancelado", "estornado", "chargeback_perdido"},
                expired |-> {"expirado", "vencido"}]
AppmaxV1Words == [AppmaxWords EXCEPT !.expired = @ \union {"chargeback_vencido"}]
StatusWords == [p \in Providers |-> CASE p = "stripe" -> StripeWords
                                      [] p = "mercadopago" -> MercadoPagoWords
                                      [] p = "appmax" -> AppmaxWords
                                      [] p = "appmax-v1" -> AppmaxV1Words]
(* The names of the events that say something of their own. *)
MercadoPagoEvents == [cancelled |-> {"payment.cancelled"}]
AppmaxEvents == [approved |-> {"orderapproved", "orderpaid"}, authorized |-> {"orderauthorized"},
                 cancelled |-> {"orderrefund"},
                 rejected |-> {"orderpixexpired", "paymentnotauthorized"}]
AppmaxV1Events == [approved |-> {"orderapproved", "orderpaid", "orderchargebackgain"},
                   authorized |-> {"orderauthorized"},
                   cancelled |-> {"orderrefund", "orderpartialrefund", "ordercanceled"},
                   expired |-> {"orderpixexpired"},
                   rejected |-> {"orderchargebacklost", "paymentnotauthorized"}]
Events == [p \in Providers |-> CASE p = "stripe" -> << >>
                                 [] p = "mercadopago" -> MercadoPagoEvents
                                 [] p = "appmax" -> AppmaxEvents
                                 [] p = "appmax-v1" -> AppmaxV1Events]
Meaning(table, word) ==
    IF \E s \in DOMAIN table : word \in table[s]
    THEN CHOOSE s \in DOMAIN table : word \in table[s] ELSE "pending"
Vocabulary(table) == (UNION {table[s] : s \in DOMAIN table}) \union {"unheard_of"}
NormalizeStatus(word) == Meaning(StatusWords[provider], word)

(* ParseWebhookEvent. Without the id of a payment, or of another kind, a notice *)
(* is answered and forgotten. Stripe sends the payment itself; Mercado Pago     *)
(* only an event that says nothing of most changes; Appmax both.                *)
StripeNotice(n) == IF n.id THEN NormalizeStatus(n.word) ELSE "ignored"
MercadoPagoNotice(n) == IF n.id THEN Meaning(MercadoPagoEvents, n.event) ELSE "ignored"
AppmaxNotice(n) ==
    IF ~n.id THEN "ignored"
    ELSE IF Meaning(Events[provider], n.event) = "pending" THEN NormalizeStatus(n.word)
    ELSE Meaning(Events[provider], n.event)
PspNotices == [event : Vocabulary(Events[provider]), word : Vocabulary(StatusWords[provider]),
               id : BOOLEAN, signed : BOOLEAN, fresh : BOOLEAN]
(* VerifyWebhook: a signature, and at Mercado Pago one made within five minutes.*)
MercadoPagoGenuine(n) == n.signed /\ n.fresh
Genuine(n) == IF provider = "mercadopago" THEN MercadoPagoGenuine(n) ELSE n.signed
-----------------------------------------------------------------------------
ToCents(mills) == (mills + 5) \div 10

(* buildOrderInput: the discount, or failing that the shipping, absorbs what    *)
(* rounding each price apart makes of the total.                                *)
BuildOrder(a) ==
    LET total == ToCents(a.amount)
        prices == [i \in DOMAIN a.items |-> ToCents(a.items[i].price) * a.items[i].qty]
        products == SumOver(prices, DOMAIN prices)
        shipping == ToCents(a.shipping)
        short == products + shipping < total
    IN IF a.items = << >> THEN [products |-> total, shipping |-> 0, discount |-> 0]
       ELSE [products |-> products,
             shipping |-> IF short THEN total - products ELSE shipping,
             discount |-> IF short THEN 0 ELSE products + shipping - total]
(* What the PSP is told to charge, in cents. *)
Charged(a) == IF provider = "appmax-v1"
              THEN LET o == BuildOrder(a) IN o.products + o.shipping - o.discount
              ELSE ToCents(a.amount)

(* SplitOrder: entries of positive value, no overflow, at most 80% of the gross.*)
SplitFits(a) ==
    /\ a.parts # << >> /\ a.amount > 0
    /\ \A i \in 1..Len(a.parts) : a.parts[i] > 0
    /\ LET sum == FoldLeft(+, 0, a.parts)
       IN sum <= MaxMoney /\ sum <= (ToCents(a.amount) * 80) \div 100

(* What each gateway demands of a charge before it calls anybody. *)
HasAll(a, needs) == a.method \in DOMAIN needs /\ needs[a.method] \subseteq a.has
Needs == [pix |-> {}, boleto |-> {"cpf", "name"}, card |-> {}]
StripeAccepts(a) == ToCents(a.amount) > 0 /\ HasAll(a, [Needs EXCEPT !.boleto = @ \union {"email"}])
MercadoPagoAccepts(a) == HasAll(a, Needs)
AppmaxV1Accepts(a) == a.amount > 0 /\ HasAll(a, [Needs EXCEPT !.pix = {"cpf"}, !.card = {"token"}])
(* What it demands of a refund, and of a withdrawal: a value, and a sane one. *)
RefundAccepted(a) == a.total \/ a.amount > 0
WithdrawAccepted(a) == a.amount \in 1..MaxWithdraw
TakesAsk(a) ==
    \/ a.op = "charge" /\ CASE provider = "stripe" -> StripeAccepts(a)
                            [] provider = "mercadopago" -> MercadoPagoAccepts(a)
                            [] provider = "appmax" -> TRUE
                            [] provider = "appmax-v1" -> AppmaxV1Accepts(a)
    \/ a.op = "refund" /\ provider \in {"stripe", "appmax-v1"} /\ RefundAccepted(a)
    \/ a.op = "split" /\ provider = "appmax-v1" /\ SplitFits(a)
    \/ a.op = "withdraw" /\ provider = "appmax-v1" /\ WithdrawAccepted(a)
    \/ a.op = "lookup"
(* The routes it then calls, in order. *)
AppmaxRoutes == <<"customers", "orders", "payments">>
Routes(a) == CASE a.op = "charge" -> IF provider \in {"appmax", "appmax-v1"} THEN AppmaxRoutes
                                     ELSE <<"payments">>
               [] a.op = "split" -> <<"order", "split">>
               [] a.op = "lookup" -> <<"order">>
               [] OTHER -> <<a.op>>
(* Appmax v3 looks at the method when customer and order already exist. *)
LateDemand(w) ==
    LET a == wire[w].ask
    IN provider = "appmax" /\ Head(wire[w].left) = "payments"
       /\ ~HasAll(a, [Needs EXCEPT !.card = {"token"}])
-----------------------------------------------------------------------------
IdleWire == [at |-> "idle"]
OnWire(w, step) == wire[w].at = step
Hang(w, result) == [wire EXCEPT ![w] = [at |-> "ended", ask |-> wire[w].ask, result |-> result]]

GatewayInit ==
    /\ provider \in Providers
    /\ purse = [token |-> 0, ripe |-> FALSE, last |-> 0] /\ honoured = {} /\ fetcher = {}
    /\ wire = [w \in Wires |-> IdleWire]
    /\ took = [w \in Wires |-> 0]

Dial(w, a) ==
    /\ OnWire(w, "idle")
    /\ wire' = [wire EXCEPT ![w] =
         IF TakesAsk(a) THEN [at |-> "ready", ask |-> a, left |-> Routes(a), attempt |-> 0,
                              token |-> 0, spurned |-> {}, answer |-> "none"]
                        ELSE [at |-> "ended", ask |-> a, result |-> "invalid"]]
    /\ UNCHANGED <<provider, purse, honoured, fetcher, took>>
(* A notice shares nothing with the calls: it is heard when there are none. *)
HearNotice(w) ==
    /\ \A v \in Wires : OnWire(v, "idle")
    /\ \E n \in PspNotices :
         wire' = [wire EXCEPT ![w] = [at |-> "ended", ask |-> [op |-> "notice"],
           result |-> IF ~Genuine(n) THEN "invalid"
                      ELSE CASE provider = "stripe" -> StripeNotice(n)
                             [] provider = "mercadopago" -> MercadoPagoNotice(n)
                             [] OTHER -> AppmaxNotice(n)]]
    /\ UNCHANGED <<provider, purse, honoured, fetcher, took>>

(* The other clients send once, and hand on whatever went wrong. *)
SendsOnce == provider # "appmax-v1"
CachedToken == IF purse.ripe THEN 0 ELSE purse.token
Send(w, t) == [wire EXCEPT ![w].at = "sent", ![w].token = t]
(* Token: the cached one, or a new one under authMu; whoever waits for it looks *)
(* at the cache again.                                                          *)
Authorise(w) ==
    /\ OnWire(w, "ready")
    /\ IF LateDemand(w) THEN wire' = Hang(w, "invalid") /\ UNCHANGED fetcher
       ELSE IF SendsOnce THEN wire' = Send(w, 0) /\ UNCHANGED fetcher
       ELSE IF CachedToken # 0 THEN wire' = Send(w, CachedToken) /\ UNCHANGED fetcher
       ELSE /\ fetcher = {} /\ fetcher' = {w}
            /\ wire' = [wire EXCEPT ![w].at = "fetching"]
    /\ UNCHANGED <<provider, purse, honoured, took>>
(* refreshToken returns with a token, or in error. *)
Fetched(w) ==
    /\ OnWire(w, "fetching") /\ fetcher' = {}
    /\ \/ LET t == purse.last + 1
          IN /\ purse' = [token |-> t, ripe |-> FALSE, last |-> t]
             /\ honoured' = honoured \union {t}
             /\ wire' = Send(w, t)
       \/ wire' = Hang(w, "upstream") /\ UNCHANGED <<purse, honoured>>
    /\ UNCHANGED <<provider, took>>
Ripen == /\ purse.token # 0 /\ ~purse.ripe /\ purse.last < MaxRevocations
         /\ purse' = [purse EXCEPT !.ripe = TRUE]
         /\ UNCHANGED <<provider, honoured, fetcher, wire, took>>
Revoke(t) == /\ purse.last - Cardinality(honoured) < MaxRevocations
             /\ honoured' = honoured \ {t}
             /\ UNCHANGED <<provider, purse, fetcher, wire, took>>

(* The PSP gets the request. It may have done what was asked although the       *)
(* answer is lost, is a 5xx, or makes no sense.                                 *)
MoneyRoutes == {"payments", "refund", "split", "withdraw"}
PspActs(w, answer, done) ==
    /\ OnWire(w, "sent")
    /\ IF provider = "appmax-v1" /\ wire[w].token \notin honoured
       THEN answer = "unauthorized" /\ ~done
       ELSE \/ answer \in {"ok", "garbled"} /\ done
            \/ answer \in {"busy", "refused"} /\ ~done
            \/ answer \in {"lost", "broken"}
    /\ took' = IF done /\ Head(wire[w].left) \in MoneyRoutes
               THEN [took EXCEPT ![w] = @ + 1] ELSE took
    /\ wire' = [wire EXCEPT ![w].at = "answered", ![w].answer = answer]
    /\ UNCHANGED <<provider, purse, honoured, fetcher>>

\* Mutant: no route is financial.
NothingIsFinancial(route) == FALSE
(* isFinancialRoute: what a blind retry could charge twice. It covers the       *)
(* payments, and neither the refunds nor the withdrawals.                       *)
IsFinancialRoute(route) == route = "payments"
(* doJSON: after a 401, a 429, and where money is not at stake a 5xx or a lost  *)
(* answer, the request goes out again.                                          *)
Resends(w) ==
    /\ ~SendsOnce
    /\ wire[w].answer \in {"unauthorized", "busy", "broken", "lost"}
    /\ wire[w].answer \in {"broken", "lost"} => ~IsFinancialRoute(Head(wire[w].left))
CanRepeat(w) == Resends(w) /\ wire[w].attempt < MaxRetriesV1
\* Mutant: a refused token stays in the cache.
InvalidateNothing(w) == UNCHANGED purse
(* invalidateToken: whatever the cache holds by now is gone. *)
InvalidateToken(w) ==
    purse' = IF wire[w].answer = "unauthorized" THEN [purse EXCEPT !.token = 0, !.ripe = FALSE]
                                                ELSE purse
Repeat(w) ==
    /\ OnWire(w, "answered") /\ CanRepeat(w)
    /\ InvalidateToken(w)
    /\ wire' = [wire EXCEPT ![w].at = "ready", ![w].attempt = @ + 1, ![w].answer = "none",
         ![w].spurned = IF wire[w].answer = "unauthorized" THEN @ \union {wire[w].token} ELSE @]
    /\ UNCHANGED <<provider, honoured, fetcher, took>>
(* What an answer that is not repeated is to the caller. *)
HttpError(answer) == CASE answer = "refused" -> {"invalid", "not_found"}
                       [] answer = "unauthorized" -> {"invalid"}
                       [] OTHER -> {"upstream"}
ClassifyCreateError(answer) == IF answer = "refused" THEN {"invalid", "upstream"} ELSE {"upstream"}
ErrorOf(w) ==
    LET answer == wire[w].answer
    IN CASE provider = "appmax-v1" -> HttpError(answer)
         [] provider = "stripe" /\ wire[w].ask.op = "charge" -> ClassifyCreateError(answer)
         [] wire[w].ask.op = "lookup" /\ answer = "refused" -> {"not_found", "upstream"}
         [] OTHER -> {"upstream"}
(* No repetition, none left, or the caller is gone while backing off. *)
GiveUp(w) ==
    /\ OnWire(w, "answered") /\ wire[w].answer \notin {"ok", "garbled"}
    /\ CanRepeat(w) => wire[w].answer # "unauthorized"
    /\ \E e \in ErrorOf(w) : wire' = Hang(w, e)
    /\ UNCHANGED <<provider, purse, honoured, fetcher, took>>

(* An answer: the next route, or the result. The parsers accept many shapes;    *)
(* out of a body of yet another shape comes no id and no word.                  *)
Understood(w) == wire[w].answer = "ok"
StatusSaid(w, word) == IF Understood(w) THEN NormalizeStatus(word) ELSE "pending"
NextRoute(w) == [wire EXCEPT ![w].left = Tail(@), ![w].attempt = 0, ![w].at = "ready",
                             ![w].token = 0, ![w].answer = "none", ![w].spurned = {}]
(* An order nobody can read, or an approved one, is not split. *)
MaySplit(w, word) == IF ~Understood(w) THEN Hang(w, "upstream")
                     ELSE IF StatusSaid(w, word) = "approved" THEN Hang(w, "invalid")
                     ELSE NextRoute(w)
Settle(w, word) ==
    /\ OnWire(w, "answered") /\ wire[w].answer \in {"ok", "garbled"}
    /\ LET op == wire[w].ask.op
       IN wire' = IF Len(wire[w].left) > 1
                  THEN IF op = "split" THEN MaySplit(w, word)
                       ELSE IF Understood(w) THEN NextRoute(w) ELSE Hang(w, "upstream")
                  ELSE Hang(w, IF op \in {"charge", "lookup"} THEN StatusSaid(w, word)
                               ELSE "requested")
    /\ UNCHANGED <<provider, purse, honoured, fetcher, took>>

GatewayNext ==
    \/ \E w \in Wires :
         \/ \E a \in PspAsks : Dial(w, a)
         \/ HearNotice(w) \/ Authorise(w) \/ Fetched(w) \/ Repeat(w) \/ GiveUp(w)
         \/ \E answer \in {"ok", "garbled", "busy", "broken", "lost", "refused", "unauthorized"},
               done \in BOOLEAN : PspActs(w, answer, done)
         \/ \E word \in Vocabulary(StatusWords[provider]) : Settle(w, word)
    \/ Ripen \/ \E t \in honoured : Revoke(t)
GatewaySpec == GatewayInit /\ [][GatewayNext]_gatewayVars
-----------------------------------------------------------------------------
(* Every variable holds a value of its kind. *)
GatewayTypeOK ==
    /\ provider \in Providers
    /\ purse.token \in 0..purse.last /\ honoured \subseteq 1..purse.last
    /\ fetcher \subseteq Wires
    /\ \A w \in Wires :
         /\ OnWire(w, "ended") =>
              wire[w].result \in PaymentWords \union {"invalid", "upstream", "not_found",
                                                    "requested", "ignored"}
         /\ took[w] \in 0..(MaxRetriesV1 + 1)

(* Whatever is lost between the store and its PSP, one call charges the amount  *)
(* of the order, to the cent and at most once, and it says how the payment      *)
(* stands only of a payment it did create.                                      *)
Charging(w) == ~OnWire(w, "idle") /\ wire[w].ask.op = "charge"
OneCallChargesOnce ==
    \A w \in Wires :
        Charging(w) => /\ took[w] * Charged(wire[w].ask) \in {0, ToCents(wire[w].ask.amount)}
                       /\ OnWire(w, "ended") /\ wire[w].result \in PaymentWords => took[w] = 1

(* A call that was refused a token never sends that token again, whatever the   *)
(* other calls do to the cache they share; so a call is turned away for its     *)
(* token only if the PSP took back a new one each time.                         *)
NoRefusedTokenIsSentAgain ==
    \A w \in Wires : OnWire(w, "sent") => wire[w].token \notin wire[w].spurned
=============================================================================
