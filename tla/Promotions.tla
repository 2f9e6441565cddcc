------------------------------- MODULE Promotions -------------------------------
(* Cashback and coupons of order-service: what a customer earns on a paid order*)
(* (cashback/cashback.go, cashback/store.go, consumer/payment.go), spends at   *)
(* the next checkouts (handler/order.go) and gives back with a full return,    *)
(* and the coupon that several checkouts compete for (coupon/coupon.go,        *)
(* handler/coupon_admin.go). The carts are those of one customer. Amounts are  *)
(* cents; a checkout prices its cart first and writes it later, so what it     *)
(* read may have changed.                                                      *)
EXTENDS Integers, FiniteSets, Sums

CONSTANTS Carts,
          Categories,
          Line,        \* cents of each category in each cart
          Ship,        \* cents of delivery of each cart
          Programmes,  \* rows the cashback programme's configuration may hold
          CategoryRates, \* overrides of the rate an administrator may save
          CouponInputs,\* rows an administrator may create a coupon with
          MaxEdits     \* edits of an administrator in one behaviour

ASSUME PromotionAssumption ==
    /\ Line \in [Carts -> [Categories -> Nat]] /\ Ship \in [Carts -> Nat]
    /\ IsFiniteSet(Carts) /\ IsFiniteSet(Categories) /\ MaxEdits \in Nat
    /\ Programmes \subseteq [active : BOOLEAN, earn : Nat, campaign : Nat, redeemMax : 0..100,
                              minEarn : Nat, minRedeem : Nat]
    /\ \A r \in CategoryRates : \A k \in DOMAIN r : r[k] \in Nat
    /\ CouponInputs \subseteq [percent : BOOLEAN, value : Int, min : Int, max : Int]

VARIABLES programme, \* cashback_config
          rates,     \* cashback_category_rates: the overrides in force
          coupon,    \* the row of coupons, or NoCoupon
          cart,      \* each checkout, and then the order it wrote
          lots,      \* cashback_lots, by order
          entries,   \* the sum of cashback_entries.amount
          edits

promoVars == <<programme, rates, coupon, cart, lots, entries, edits>>

NoCoupon == [code |-> FALSE]
NoLot == [earned |-> 0, remaining |-> 0, live |-> FALSE]
NewCart == [step |-> "new", coupon |-> FALSE, off |-> 0, want |-> 0, total |-> 0, spent |-> 0]

Rounded(num, den) == (2 * num + den) \div (2 * den)
Least(a, b) == IF a <= b THEN a ELSE b
Gross(c) == SumOver(Line[c], Categories)
Net(c) == Gross(c) - cart[c].off

(* The rate in force: the campaign's while it runs, the base one otherwise.    *)
EffectiveEarnRate == IF programme.campaign > 0 THEN programme.campaign ELSE programme.earn
RateOf(k) == IF k \in DOMAIN rates THEN rates[k] ELSE EffectiveEarnRate

(* What was paid for goods, spread over the lines in proportion to their price,*)
(* each at the rate of its category.                                           *)
EarnByItems(c, paid) ==
    IF ~programme.active \/ paid <= 0 \/ paid < programme.minEarn \/ Gross(c) = 0 THEN 0
    ELSE Rounded(paid * SumOver([k \in Categories |-> Line[c][k] * RateOf(k)], Categories),
                 100 * Gross(c))

Balance == SumOver([c \in Carts |-> IF lots[c].live THEN lots[c].remaining ELSE 0], Carts)

(* The least of what was asked for, what there is and the cap of the order.    *)
ClampRedeem(asked, balance, net) ==
    IF ~programme.active \/ asked <= 0 \/ balance <= 0 \/ net <= 0 \/ net < programme.minRedeem
    THEN 0
    ELSE Least(asked, Least(balance, Rounded(net * programme.redeemMax, 100)))

(* coupon.Validate and coupon.Apply. *)
CouponUsable(cp, net) ==
    /\ cp.code /\ cp.active /\ ~cp.expired
    /\ cp.max = 0 \/ cp.uses < cp.max
    /\ net >= cp.min
Discount(cp, net) == Least(net, IF cp.percent THEN Rounded(net * cp.value, 100) ELSE cp.value)

PromoInit ==
    /\ programme \in Programmes
    /\ rates = << >>
    /\ coupon = NoCoupon
    /\ cart = [c \in Carts |-> NewCart]
    /\ lots = [c \in Carts |-> NoLot]
    /\ entries = 0
    /\ edits = 0

(* POST /orders prices the cart: the coupon is read without a lock. *)
Quote(c, withCoupon) ==
    /\ cart[c].step = "new"
    /\ withCoupon => CouponUsable(coupon, Gross(c))
    /\ cart' = [cart EXCEPT ![c].step = "quoted", ![c].coupon = withCoupon,
                            ![c].off = IF withCoupon THEN Discount(coupon, Gross(c)) ELSE 0]
    /\ UNCHANGED <<programme, rates, coupon, lots, entries, edits>>

(* In the transaction, before any lock: the configuration and the balance.     *)
ReadBalance(c, asked) ==
    /\ cart[c].step = "quoted"
    /\ cart' = [cart EXCEPT ![c].step = "open",
                            ![c].want = ClampRedeem(asked, Balance, Net(c))]
    /\ UNCHANGED <<programme, rates, coupon, lots, entries, edits>>

(* cashback.Redeem: the live lots are locked and consumed one after the other, *)
(* in the order they lapse, until nothing is wanted or nothing is left: any    *)
(* order here, of which at most one lot is left partly consumed.               *)
Consumable == {c \in Carts : lots[c].live /\ lots[c].remaining > 0}
Redemptions(want) ==
    {taken \in [Carts -> 0..want] :
        /\ \A c \in Carts : taken[c] <= (IF c \in Consumable THEN lots[c].remaining ELSE 0)
        /\ SumOver(taken, Carts) = Least(want, Balance)
        /\ Cardinality({c \in Consumable : taken[c] \in 1..lots[c].remaining - 1}) <= 1}

(* The rest of the transaction: the order with what was really consumed, and   *)
(* the use of the coupon, which the UPDATE grants only while one is left. A    *)
(* coupon that was used up meanwhile takes the whole order back.               *)
\* Mutant: the limit was checked when the cart was priced.
UseCouponQuoted(c) ==
    IF cart[c].coupon THEN coupon.code /\ coupon' = [coupon EXCEPT !.uses = @ + 1]
    ELSE UNCHANGED coupon
UseCoupon(c) ==
    IF cart[c].coupon
    THEN /\ coupon.code /\ coupon.active /\ ~coupon.expired
         /\ coupon.max = 0 \/ coupon.uses < coupon.max
         /\ coupon' = [coupon EXCEPT !.uses = @ + 1]
    ELSE UNCHANGED coupon

\* Mutant: the entry says what was asked for before the lots were locked.
PlaceOnOldBalance(c) ==
    /\ cart[c].step = "open"
    /\ UseCoupon(c)
    /\ \E taken \in Redemptions(cart[c].want) :
         lots' = [l \in Carts |-> [lots[l] EXCEPT !.remaining = @ - taken[l]]]
    /\ entries' = entries - cart[c].want
    /\ cart' = [cart EXCEPT ![c].step = "placed", ![c].spent = cart[c].want,
                            ![c].total = Net(c) + Ship[c] - cart[c].want]
    /\ UNCHANGED <<programme, rates, edits>>
Place(c) ==
    /\ cart[c].step = "open"
    /\ UseCoupon(c)
    /\ \E taken \in Redemptions(cart[c].want) :
         LET spent == SumOver(taken, Carts) IN
           /\ lots' = [l \in Carts |-> [lots[l] EXCEPT !.remaining = @ - taken[l]]]
           /\ entries' = entries - spent
           /\ cart' = [cart EXCEPT ![c].step = "placed", ![c].spent = spent,
                                   ![c].total = Net(c) + Ship[c] - spent]
    /\ UNCHANGED <<programme, rates, edits>>

(* 409 coupon_exhausted, a database error, a client that went away.            *)
DropCart(c) == /\ cart[c].step \in {"quoted", "open"}
           /\ cart' = [cart EXCEPT ![c] = [NewCart EXCEPT !.step = "dropped"]]
           /\ UNCHANGED <<programme, rates, coupon, lots, entries, edits>>

(* payment.confirmed: the consumer credits a lot, one per order, on what was   *)
(* paid for goods in money.                                                    *)
CreditLot(c) ==
    /\ cart[c].step = "placed"
    /\ LET paid == IF cart[c].total > Ship[c] THEN cart[c].total - Ship[c] ELSE 0
           earned == EarnByItems(c, paid)
       IN IF earned <= 0 \/ lots[c].earned > 0 THEN UNCHANGED <<lots, entries>>
          ELSE /\ lots' = [lots EXCEPT ![c] = [earned |-> earned, remaining |-> earned, live |-> TRUE]]
               /\ entries' = entries + earned
    /\ cart' = [cart EXCEPT ![c].step = "paid"]
    /\ UNCHANGED <<programme, rates, coupon, edits>>

(* A full return: what is left of the order's lot is taken back.               *)
ReverseLot(c) ==
    /\ cart[c].step = "paid"
    /\ lots' = [lots EXCEPT ![c].remaining = 0]
    /\ entries' = entries - lots[c].remaining
    /\ cart' = [cart EXCEPT ![c].step = "returned"]
    /\ UNCHANGED <<programme, rates, coupon, edits>>

(* The validity of a lot ends: it leaves the balance, and no row changes.      *)
Lapse(c) == /\ lots[c].live
            /\ lots' = [lots EXCEPT ![c].live = FALSE]
            /\ UNCHANGED <<programme, rates, coupon, cart, entries, edits>>

(* The administrator's screens. *)
AdminEdit == edits < MaxEdits /\ edits' = edits + 1
UpdateConfig == /\ AdminEdit
                /\ \E p \in Programmes \ {programme} : programme' = p
                /\ UNCHANGED <<rates, coupon, cart, lots, entries>>
SetCategoryRate == /\ AdminEdit
                   /\ \E r \in CategoryRates :
                        rates' = [k \in (DOMAIN r) \union DOMAIN rates |->
                                    IF k \in DOMAIN r THEN r[k] ELSE rates[k]]
                   /\ UNCHANGED <<programme, coupon, cart, lots, entries>>
DeleteCategoryRate(k) ==
    /\ AdminEdit /\ k \in DOMAIN rates
    /\ rates' = [j \in DOMAIN rates \ {k} |-> rates[j]]
    /\ UNCHANGED <<programme, coupon, cart, lots, entries>>

(* The code is UNIQUE; a limit of uses is positive or absent, a percentage at  *)
(* most 100. An edit replaces the limit and the expiry, never the uses.        *)
ValidForCreate(in) == in.value >= 0 /\ (in.percent => in.value <= 100) /\ in.min >= 0 /\ in.max >= 0
CreateCoupon(in) ==
    /\ ~coupon.code /\ ValidForCreate(in)
    /\ coupon' = [code |-> TRUE, uses |-> 0, percent |-> in.percent, value |-> in.value,
                  min |-> in.min, max |-> in.max, active |-> TRUE, expired |-> FALSE]
    /\ UNCHANGED <<programme, rates, cart, lots, entries, edits>>
UpdateCoupon(active, expired, max) ==
    /\ AdminEdit /\ coupon.code
    /\ coupon' = [coupon EXCEPT !.active = active, !.expired = expired, !.max = max]
    /\ UNCHANGED <<programme, rates, cart, lots, entries>>
DeleteCoupon == /\ AdminEdit /\ coupon.code
                /\ coupon' = NoCoupon
                /\ UNCHANGED <<programme, rates, cart, lots, entries>>

PromoNext ==
    \/ \E c \in Carts : \/ \E b \in BOOLEAN : Quote(c, b)
                        \/ \E asked \in {0, Gross(c)} : ReadBalance(c, asked)
                        \/ Place(c) \/ DropCart(c) \/ CreditLot(c) \/ ReverseLot(c) \/ Lapse(c)
    \/ UpdateConfig \/ SetCategoryRate \/ DeleteCoupon
    \/ \E k \in Categories : DeleteCategoryRate(k)
    \/ \E in \in CouponInputs : CreateCoupon(in)
    \/ \E a, e \in BOOLEAN, max \in {in.max : in \in CouponInputs} : UpdateCoupon(a, e, max)

PromoSpec == PromoInit /\ [][PromoNext]_promoVars
-----------------------------------------------------------------------------
(* Every variable holds a value of its kind; no lot is overdrawn.              *)
PromoTypeOK ==
    /\ programme \in Programmes /\ edits \in 0..MaxEdits /\ entries \in Int
    /\ \A c \in Carts : /\ lots[c].remaining \in 0..lots[c].earned
                        /\ cart[c].step \in {"new", "quoted", "open", "dropped",
                                             "placed", "paid", "returned"}

(* The statement the customer reads, the lots and the orders agree: whatever   *)
(* was earned, spent by checkouts that read the same balance or taken back     *)
(* with a return, the entries sum to what remains of the lots, lapsed ones     *)
(* included, and no order was paid with cashback that was not earned first.    *)
StatementMatchesLots ==
    /\ entries = SumOver([c \in Carts |-> lots[c].remaining], Carts)
    /\ SumOver([c \in Carts |-> cart[c].spent], Carts) <=
       SumOver([c \in Carts |-> lots[c].earned - lots[c].remaining], Carts)

(* A coupon and cashback together never pay for more than the goods: an order  *)
(* is worth at least its delivery, though the coupon, the programme and the    *)
(* balance it was priced with may have changed when it is written.             *)
NobodyIsPaidToBuy ==
    \A c \in Carts :
        cart[c].step \in {"placed", "paid", "returned"} => cart[c].total >= Ship[c]

(* Two checkouts that read the same last use of a coupon: only one order is    *)
(* written with it, and each order written with a coupon is one use of it.     *)
LastUseTakenOnce ==
    [][\A c \in Carts : cart[c].step = "open" /\ cart'[c].step = "placed" /\ cart[c].coupon =>
          /\ coupon'.uses = coupon.uses + 1
          /\ coupon'.max = 0 \/ coupon'.uses <= coupon'.max]_promoVars
=============================================================================
