------------------------------- MODULE MCServices -------------------------------
(* A small shop with something of everything, for the services side by side.   *)
EXTENDS StoreServices

CONSTANTS drill, tools, paint, p1, p2, bia, chefe, north, c1, c2, c3, sand, lime

-----------------------------------------------------------------------------
(* The instances. *)
MCBought == [i \in Items |-> 2]
Situation(c, s, paid, delivered, split, psp) ==
    [channel |-> c, status |-> s, paidDay |-> paid, deliveredDay |-> delivered,
     split |-> split, psp |-> psp]
MCOrders == {Situation("web", "delivered", {0}, {0}, FALSE, TRUE),
             Situation("web", "shipped", {0}, {}, TRUE, FALSE),
             Situation("balcao", "paid", {0}, {}, FALSE, FALSE),
             Situation("web", "pending_payment", {}, {}, FALSE, FALSE)}

MCLine == [c \in Carts |-> [k \in Categories |-> IF k = tools THEN 3 ELSE 4]]
MCShip == [c \in Carts |-> 1]
Programme(active, earn, campaign, minEarn) ==
    [active |-> active, earn |-> earn, campaign |-> campaign, redeemMax |-> 50,
     minEarn |-> minEarn, minRedeem |-> 5]
MCProgrammes == {Programme(TRUE, 30, 60, 5), Programme(FALSE, 30, 0, 0)}
MCRates == {[k \in {tools} |-> 100]}
MCCoupons == {[percent |-> TRUE, value |-> 15, min |-> 7, max |-> 1]}

MCCheckable == <<p1>>

MCRoleOf == [p \in People |-> IF p = chefe THEN "admin" ELSE "store_operator"]
MCBonds == {Unbound, [store |-> north, approves |-> FALSE, ceiling |-> 5],
            [store |-> north, approves |-> TRUE, ceiling |-> 15]}
MCFirstBonds == {[p \in People |-> IF p = chefe THEN Unbound
                                   ELSE [store |-> north, approves |-> FALSE, ceiling |-> 5]]}

MCSafety == [c \in Calls |-> IF c = c1 THEN "non_idempotent" ELSE "idempotent"]

Supplier == [kind |-> "import", publishOnImport |-> TRUE, archiveMissing |-> TRUE,
             allowPriceBelowCost |-> FALSE, priceColumn |-> TRUE]
Caixa == [kind |-> "sinapi", publishOnImport |-> FALSE, archiveMissing |-> FALSE,
          allowPriceBelowCost |-> FALSE, priceColumn |-> FALSE]
SheetLine(s) == [sku |-> s, unreadable |-> FALSE, category |-> "known", price |-> None,
                 cost |-> None, stock |-> None, status |-> "none", others |-> TRUE]
MCSheets ==
    {[supplier |-> FALSE, profile |-> Caixa, rows |-> <<[SheetLine(sand) EXCEPT !.cost = 2]>>],
     [supplier |-> TRUE, profile |-> Supplier,
      rows |-> <<[SheetLine(sand) EXCEPT !.price = 3, !.stock = 2],
                 [SheetLine("") EXCEPT !.unreadable = TRUE],
                 [SheetLine(sand) EXCEPT !.price = 1]>>],
     [supplier |-> TRUE, profile |-> Supplier, rows |-> <<[SheetLine("") EXCEPT !.unreadable = TRUE]>>]}
MCPatches == {[price |-> 3, stock |-> 1, status |-> "published"]}
MCNewProducts == {[price |-> 3, cost |-> None, stock |-> 2, status |-> "draft"]}
MCCsvRows == {[price |-> 4, cost |-> 2, stock |-> None, status |-> "none",
               supplied |-> TRUE]}

Charge(method, has) ==
    [op |-> "charge", method |-> method, has |-> has, amount |-> 1000,
     items |-> <<[price |-> 333, qty |-> 3]>>, shipping |-> 0]
MCPspAsks == {Charge("boleto", {"cpf"}), Charge("card", {"token"}),
              [op |-> "split", amount |-> 1000, parts |-> <<50, 30>>]}

Good(price, born, hits) ==
    [status |-> "published", price |-> price, score |-> 2, born |-> born, hits |-> hits,
     rank |-> 1, aisle |-> "x", brand |-> "a"]
MCShelves == {<<Good(1, 1, {"like"}), Good(1, 2, h), Good(2, 2, {"like", "barcode"})>> :
                h \in {{"text"}, {"like"}}}
MCShopAsks ==
    {[op |-> "list", sort |-> s, term |-> t, perPage |-> n, brand |-> {}] :
       s \in {"top_rated", "price_asc", "relevance"}, t \in BOOLEAN, n \in {1, 2}}
    \union {[op |-> "product", product |-> 1, limit |-> l] : l \in {1, 2}}
MCPairCount == [p \in Goods |-> [q \in Goods |-> IF {p, q} = {1, 2} THEN 3 ELSE 1]]
MCRules == <<{1, 3}, {3}>>

MCBaskets == [o \in Carts |-> IF o = c1 THEN {sand, lime, drill} ELSE {sand, lime}]
MCGrants == {[user |-> a, product |-> sand, order |-> a, valid |-> TRUE] : a \in Authors}
MCCommittedRows == {<<a, sand>> : a \in Authors \ {c1}}
MCFileOf == [p \in Photos |-> [genuine |-> TRUE, width |-> 900, height |-> 400]]
MCPayloads == {{"plain"}, {"plain", "secret"}}

Use(material, per, variant) ==
    [material |-> material, per |-> per, variant |-> variant, cubic |-> FALSE, perCoat |-> FALSE,
     follows |-> "none"]
MCJobs == [j \in {"wall", "roof"} |->
    IF j = "wall"
    THEN [risks |-> {"structural", "chemical"}, base |-> "m3", thickness |-> <<10, 5, 20>>,
          paint |-> FALSE, variants |-> <<"poured", "blocks">>,
          uses |-> <<[Use(sand, 7, "") EXCEPT !.cubic = TRUE],
                     [Use(lime, 30, "poured") EXCEPT !.follows = "perimeter"],
                     Use(lime, 40, "blocks")>>]
    ELSE [risks |-> {"height"}, base |-> "m2", thickness |-> <<0, 0, 0>>, paint |-> TRUE,
          variants |-> << >>, uses |-> <<[Use(sand, 3, "") EXCEPT !.perCoat = TRUE]>>]]
\* "high" is a name of both, as long in each.
MCAliases == {[job |-> "wall", length |-> 4, exact |-> {"wall"}, near |-> {"high"}],
              [job |-> "roof", length |-> 4, exact |-> {}, near |-> {"high"}]}
Wall(area, perimeter) ==
    [area |-> area, length |-> 0, height |-> 0, perimeter |-> perimeter, thickness |-> 0,
     coats |-> 0, variant |-> ""]
MCMeasures == {Wall(3, 4), Wall(-1, 0)}
MCGeometry == [x \in {<<"perimeter", Wall(3, 4)>>} |-> 4]
MCLimits == [m \in {"area", "length", "height", "perimeter", "thickness", "coats"} |->
                IF m = "coats" THEN 5 ELSE 100]
Works(w) == [word |-> w, dims |-> Wall(3, 4)]
MCLists == {<<Works("wall"), Works("high"), Works("cpf")>>}
MCPackage == [m \in {sand, lime} |-> IF m = sand THEN 50 ELSE 100]
MCCatalogue == [g \in {drill, paint} |-> [price |-> IF g = drill THEN 5 ELSE 3,
                                         stock |-> IF g = drill THEN 1 ELSE 0]]
MCBearers == {[signed |-> TRUE, role |-> "admin"], [signed |-> FALSE, role |-> "admin"]}
MCMessageRisks == {{"gas"}}

MCNotices == {[payment |-> p1, order |-> c1, to |-> t] : t \in {"paid", "cancelled"}} \union
             {[payment |-> p2, order |-> c1, to |-> "paid"]}

(* The same model values stand for workers, and for things, of every component. *)
Sym == Permutations(Desks) \union Permutations(Returns)
=============================================================================
