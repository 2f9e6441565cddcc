------------------------------ MODULE Storefront ------------------------------
(* What a visitor of the shop reads: the pages of a listing or of a search      *)
(* (handler/product.go), the page of a product, and the products related to it  *)
(* (handler/recommendation.go). A page is two statements, a count and a SELECT  *)
(* with LIMIT and OFFSET, and rows the ORDER BY does not tell apart come in any *)
(* order, a new one for every page. How text matches is given with the product. *)
EXTENDS Integers, Sequences, FiniteSets, SequencesExt

CONSTANTS Goods,      \* products by their id, a number
          Shelves,    \* catalogues to start from
          ShopAsks,   \* what visitors ask for
          PairCount,  \* product_copurchase.order_count
          Rules,      \* product_complement_rules in order of priority: their targets
          MinPair,    \* MinCopurchaseOrders
          MaxShelfChanges

ASSUME StorefrontAssumption ==
    /\ Goods \subseteq Nat /\ IsFiniteSet(Goods)
    /\ PairCount \in [Goods -> [Goods -> Nat]] /\ Rules \in Seq(SUBSET Goods)
    /\ MinPair \in Nat /\ MaxShelfChanges \in Nat
    /\ \A a \in ShopAsks : /\ a.op = "list" => a.term \in BOOLEAN
                           /\ a.op = "product" => a.product \in Goods /\ a.limit \in Nat
    /\ \A s \in Shelves : /\ DOMAIN s = Goods
                          /\ \A p \in Goods : /\ {"status", "score", "rank", "born"} \subseteq DOMAIN s[p]
                                              /\ s[p].score \in Int /\ s[p].rank \in Int
                                              /\ s[p].born \in Int
                                              /\ s[p].status \in {"draft", "published", "archived"}

VARIABLES shelf,    \* table products
          visitor,  \* the page being read, and what was read before it
          changes   \* how often the catalogue changed

shopVars == <<shelf, visitor, changes>>
-----------------------------------------------------------------------------
(* buildProductFilters: what is published and passes the filters; with a search *)
(* term also what the term finds, by text or code, or approximately by name. A  *)
(* bar code is never approximate.                                               *)
Finds(fuzzy, p) == (IF fuzzy THEN {"like", "sku"} ELSE {"text", "sku", "barcode"})
                   \intersect shelf[p].hits # {}
PassesFilters(a, p) == a.brand # {} => shelf[p].brand \in a.brand
PageHits(a, fuzzy) == {p \in Goods : /\ shelf[p].status = "published"
                                 /\ PassesFilters(a, p)
                                 /\ a.term => Finds(fuzzy, p)}
(* parseProductsQuery: what makes no sense becomes the default. *)
PerPage(a) == IF a.perPage \in 1..100 THEN a.perPage ELSE 24

\* Mutant: the best rated are ordered by their rating alone.
TopRatedOnly(p) == <<-shelf[p].score>>
TopRated(p) == <<-shelf[p].score, p>>
Relevance(fuzzy, p) ==
    LET code == IF ~fuzzy /\ {"sku", "barcode"} \intersect shelf[p].hits # {} THEN 0 ELSE 1
    IN <<code, -shelf[p].rank, -shelf[p].born, p>>
(* productOrderBy: three of its orders end in the id and are total, the others  *)
(* leave equals to the database.                                                *)
SortKey(a, fuzzy, p) ==
    CASE a.sort = "price_asc" -> <<shelf[p].price>>
      [] a.sort = "price_desc" -> <<-shelf[p].price>>
      [] a.sort = "top_rated" -> TopRated(p)
      [] a.sort = "relevance" /\ a.term -> Relevance(fuzzy, p)
      [] OTHER -> <<-shelf[p].born>>
Precedes(k, l) == \E i \in 1..Len(k) : k[i] < l[i] /\ \A j \in 1..(i - 1) : k[j] = l[j]
(* The sequences of a set that an ORDER BY allows, key being what it looks at; and *)
(* the only one there is if it tells all rows apart.                            *)
Sorted(S, key) ==
    {s \in [1..Cardinality(S) -> S] :
        \A i, j \in 1..Cardinality(S) : i < j => s[i] # s[j] /\ ~Precedes(key[s[j]], key[s[i]])}
InOrder(S, key) == CHOOSE s \in Sorted(S, key) : TRUE
Window(s, limit, offset) ==
    SubSeq(s, offset + 1, IF Len(s) < offset + limit THEN Len(s) ELSE offset + limit)
UpTo(limit, s) == Window(s, limit, 0)
-----------------------------------------------------------------------------
(* The three sources of Related, each for what the ones before left open. visto: *)
(* of its rows, each product once, without what was shown already.              *)
Fresh(rows, seen, limit) ==
    LET new == {i \in DOMAIN rows : rows[i] \notin seen /\ \A j \in 1..(i - 1) : rows[j] # rows[i]}
        order == InOrder(new, [i \in new |-> <<i>>])
    IN  UpTo(limit, [n \in 1..Cardinality(new) |-> rows[order[n]]])
OnShow(S) == {q \in S : shelf[q].status = "published"}
Together(p, limit) ==
    LET often == {q \in Goods : PairCount[p][q] >= MinPair}
        candidates == UpTo(limit * 4, InOrder(often, [q \in often |-> <<-PairCount[p][q], q>>]))
        shown == OnShow(ToSet(candidates))
    IN  UpTo(limit, InOrder(shown, [q \in shown |-> <<-PairCount[p][q], -shelf[q].score, q>>]))
TopOf(S) == InOrder(S, [q \in S |-> TopRated(q)])
(* Two products per rule; one that two rules name comes twice out of the query. *)
Complements(p, limit) ==
    LET named == {w \in (DOMAIN Rules) \X Goods :
                    w[2] \in ToSet(UpTo(2, TopOf(OnShow(Rules[w[1]] \ {p}))))}
        rows == InOrder(named, [w \in named |-> <<w[1], -shelf[w[2]].score, w[2]>>])
    IN  UpTo(limit * 3, [n \in 1..Cardinality(named) |-> rows[n][2]])
SameCategory(p, limit) ==
    UpTo(limit * 3, TopOf(OnShow({q \in Goods \ {p} : shelf[q].aisle = shelf[p].aisle})))
Related(p, limit, complementsFail) ==
    LET one == Fresh(Together(p, limit), {p}, limit)
        left == limit - Len(one)
        two == IF complementsFail \/ left = 0 THEN << >>
               ELSE Fresh(Complements(p, left), {p} \union ToSet(one), left)
        rest == left - Len(two)
        three == IF rest = 0 THEN << >>
                 ELSE Fresh(SameCategory(p, rest), {p} \union ToSet(one \o two), rest)
    IN one \o two \o three
-----------------------------------------------------------------------------
NoVisitor == [step |-> "away"]
ShopInit == /\ shelf \in Shelves
            /\ visitor = NoVisitor /\ changes = 0

(* The detail page: of an unknown, a draft or an archived product, the same 404.*)
OpenProduct(a) ==
    /\ visitor.step = "away" /\ a.op = "product"
    /\ \E fail \in BOOLEAN :
         visitor' = [step |-> "read", ask |-> a, quiet |-> TRUE, fuzzy |-> FALSE, total |-> 0,
                     found |-> shelf[a.product].status = "published",
                     seen |-> IF shelf[a.product].status = "published"
                              THEN Related(a.product, a.limit, fail) ELSE << >>]
    /\ UNCHANGED <<shelf, changes>>
OpenListing(a) ==
    /\ visitor.step = "away" /\ a.op = "list"
    /\ visitor' = [step |-> "count", ask |-> a, quiet |-> TRUE, fuzzy |-> FALSE, total |-> 0,
                   page |-> 1, seen |-> << >>]
    /\ UNCHANGED <<shelf, changes>>
(* The count of a page; where a search term finds nothing, a second count of    *)
(* what resembles it, which takes over only if there is any.                    *)
CountHits ==
    /\ visitor.step = "count"
    /\ LET a == visitor.ask  n == Cardinality(PageHits(a, FALSE))
       IN visitor' = [visitor EXCEPT !.total = n, !.fuzzy = FALSE,
                                     !.step = IF n = 0 /\ a.term THEN "fuzzy" ELSE "page"]
    /\ UNCHANGED <<shelf, changes>>
CountFuzzy ==
    /\ visitor.step = "fuzzy"
    /\ LET n == Cardinality(PageHits(visitor.ask, TRUE))
       IN visitor' = [visitor EXCEPT !.total = n, !.fuzzy = n > 0, !.step = "page"]
    /\ UNCHANGED <<shelf, changes>>
(* The rows of the page; the visitor goes on to the next while there is one. *)
ReadPage ==
    /\ visitor.step = "page"
    /\ LET a == visitor.ask
           size == PerPage(a)
           last == visitor.page * size >= visitor.total
           hits == PageHits(a, visitor.fuzzy)
       IN \E s \in Sorted(hits, [p \in hits |-> SortKey(a, visitor.fuzzy, p)]) :
            visitor' = [visitor EXCEPT
                          !.seen = @ \o Window(s, size, (visitor.page - 1) * size),
                          !.step = IF last THEN "read" ELSE "count",
                          !.page = IF last THEN @ ELSE @ + 1]
    /\ UNCHANGED <<shelf, changes>>
LeaveShop == /\ visitor.step # "away" /\ visitor' = NoVisitor
         /\ UNCHANGED <<shelf, changes>>

(* The catalogue changes under the visitor. *)
ChangeShelf(p) ==
    /\ changes < MaxShelfChanges /\ changes' = changes + 1
    /\ shelf' = [shelf EXCEPT ![p].status = IF @ = "published" THEN "archived" ELSE "published"]
    /\ visitor' = IF visitor.step = "away" THEN visitor ELSE [visitor EXCEPT !.quiet = FALSE]

ShopNext == \/ \E a \in ShopAsks : OpenProduct(a) \/ OpenListing(a)
            \/ CountHits \/ CountFuzzy \/ ReadPage \/ LeaveShop
            \/ \E p \in Goods : ChangeShelf(p)
ShopSpec == ShopInit /\ [][ShopNext]_shopVars
-----------------------------------------------------------------------------
(* Every variable holds a value of its kind. *)
ShopTypeOK ==
    /\ \A p \in Goods : shelf[p].status \in {"draft", "published", "archived"}
    /\ visitor.step \in {"away", "count", "fuzzy", "page", "read"}
    /\ visitor.step # "away" => ToSet(visitor.seen) \subseteq Goods
    /\ changes \in 0..MaxShelfChanges

(* Nothing is shown twice or kept back. Whoever reads all pages of a listing    *)
(* whose order is total, of a catalogue left alone, has read every product it   *)
(* finds, once, and what only resembles the term only if nothing matches it;    *)
(* the related products are on sale, all different, and other than the one on   *)
(* the page.                                                                    *)
TotalOrder(a) == a.sort = "top_rated" \/ (a.sort = "relevance" /\ a.term)
ShownOnce(s, S) == IsInjective(s) /\ ToSet(s) = S
NothingIsShownTwice ==
    visitor.step = "read" /\ visitor.quiet =>
        IF visitor.ask.op = "list"
        THEN TotalOrder(visitor.ask) =>
                /\ ShownOnce(visitor.seen, PageHits(visitor.ask, visitor.fuzzy))
                /\ Len(visitor.seen) = visitor.total
                /\ visitor.fuzzy => PageHits(visitor.ask, FALSE) = {}
        ELSE /\ IsInjective(visitor.seen) /\ Len(visitor.seen) <= visitor.ask.limit
             /\ \A p \in ToSet(visitor.seen) :
                    p # visitor.ask.product /\ shelf[p].status = "published"
=============================================================================
