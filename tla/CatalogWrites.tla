------------------------------ MODULE CatalogWrites ------------------------------
(* Everybody who writes a product row of the catalogue: the commit of an import *)
(* batch (admin_import.go, ingest/commit.go), the old CSV import and the        *)
(* product editor (admin_product.go), the stock clerk (stock.go) and the shop   *)
(* that sells. None of the editors locks what it read; the database refuses a   *)
(* published product whose price nobody reviewed.                               *)
EXTENDS ImportPlan, Sequences

CONSTANTS Skus, Hands,   \* products; requests of administrators
          Batches,       \* import batches
          Sheets,        \* files: [rows, profile, supplier]
          Patches,       \* bodies of PATCH: [price, stock, status]
          NewProducts,   \* bodies of POST:  [price, cost, stock, status]
          CsvRows,       \* rows of the old import: [price, cost, stock, status, supplied]
          MaxWrites      \* writes to product rows in one behaviour

ASSUME CatalogAssumption ==
    /\ MaxWrites \in Nat /\ None \notin Hands /\ "none" \notin Skus
    /\ \A f \in Sheets :
         /\ f.rows \in Seq(SheetRow(Skus))
         /\ \A i \in DOMAIN f.rows : f.rows[i].sku = "" => f.rows[i].unreadable
    /\ Patches \subseteq [price : Cell, stock : Cell, status : STRING]
    /\ NewProducts \subseteq [price : Nat, cost : Cell, stock : Nat, status : STRING]
    /\ CsvRows \subseteq [price : Nat, cost : Cell, stock : Cell, status : STRING,
                         supplied : BOOLEAN]

VARIABLES product,  \* products, by SKU
          batch,    \* import_batches with its rows and its plan
          work,     \* what each request read and has still to do
          paper,    \* product_price_history: the price it ends at, and whether it is a chain
          books,    \* stock_movements added up, with what the shop sold and imports brought
          disturbed,     \* history: SKUs written while somebody else held an older reading
          writes

rowVars == <<product, paper, books, disturbed, writes>>
catalogVars == <<rowVars, batch, work>>

Resting == [job |-> "none", sku |-> "none"]
NoBatch == [status |-> "none"]
(* Products the catalogue begins with: none, or one of the supplier on sale.    *)
OnSale == [status |-> "published", reviewed |-> TRUE, supplied |-> TRUE,
           price |-> 2, cost |-> None, stock |-> 2]
CatalogInit ==
    /\ product \in [Skus -> {Absent, OnSale}] /\ batch = [b \in Batches |-> NoBatch]
    /\ work = [h \in Hands |-> Resting]
    /\ paper = [s \in Skus |-> [told |-> IF product[s] = Absent THEN 0 ELSE 2, chained |-> TRUE]]
    /\ books = [s \in Skus |-> IF product[s] = Absent THEN 0 ELSE 2] /\ disturbed = {} /\ writes = 0

Exists(s) == product[s] # Absent
Units(s) == IF Exists(s) THEN product[s].stock ELSE 0
MayPublish(p) == p.status # "published" \/ p.reviewed   \* products_published_needs_review

(* A write by h to the row of s, and what it adds to the books at once. Whoever *)
(* else has read s and not finished is about to act on an old reading.          *)
HoldsReading(h, s) == work[h].sku = s
Record(s, old, new) ==
    paper' = [paper EXCEPT ![s] = [told |-> new, chained |-> @.chained /\ old = @.told]]
Write(h, s, p, booked) ==
    /\ writes < MaxWrites /\ writes' = writes + 1
    /\ product' = [product EXCEPT ![s] = p]
    /\ books' = [books EXCEPT ![s] = @ + booked]
    /\ disturbed' = IF \E g \in Hands \ {h} : HoldsReading(g, s) THEN disturbed \union {s} ELSE disturbed
Do(h, state) == work' = [work EXCEPT ![h] = state]
Rest(h) == Do(h, Resting)
-----------------------------------------------------------------------------
(* CreateBatch and ImportSINAPI: the dry run. Nothing is written to products.   *)
DryRun(b, sheet) ==
    /\ batch[b] = NoBatch
    /\ batch' = [batch EXCEPT ![b] =
         [status |-> "validated", sheet |-> sheet,
          plan |-> PlanRows(sheet.rows, product, sheet.profile),
          missing |-> IF sheet.supplier THEN MissingSKUs(sheet.rows, product, sheet.profile) ELSE {}]]
    /\ UNCHANGED <<rowVars, work>>

(* CommitBatch: the status is read and nothing is locked, so two requests may   *)
(* commit one batch. Only rows to create or update are written, in order.       *)
NextRow(b, i) ==
    LET todo == {j \in i..Len(batch[b].plan) : batch[b].plan[j] \in {"create", "update"}}
    IN IF todo = {} THEN 0 ELSE CHOOSE j \in todo : \A k \in todo : j <= k
Commit(b, i) == [job |-> "commit", sku |-> "none", batch |-> b, row |-> NextRow(b, i)]
StartCommit(h, b) ==
    /\ work[h] = Resting /\ batch[b].status = "validated"
    /\ Do(h, Commit(b, 1))
    /\ UNCHANGED <<rowVars, batch>>

RowOf(h) == batch[work[h].batch].sheet.rows[work[h].row]
ProfileOf(h) == batch[work[h].batch].sheet.profile
(* upsertRow, one transaction per row: it reads the row without locking it ...  *)
ReadRow(h) ==
    /\ work[h].job = "commit" /\ work[h].sku = "none" /\ work[h].row # 0
    /\ Do(h, [job |-> "upsert", sku |-> RowOf(h).sku, batch |-> work[h].batch,
              row |-> work[h].row, seen |-> product[RowOf(h).sku]])
    /\ UNCHANGED <<rowVars, batch>>

(* ... and then inserts, or updates what it finds with the columns it has: the  *)
(* price is one of them when the reading found no product. The flag only ever   *)
(* goes down.                                                                   *)
Given(value, otherwise) == IF value = None THEN otherwise ELSE value
Flag(cur, eff) == cur.reviewed /\ eff.reviewed
Upserted(h) ==
    LET row == RowOf(h)
        seen == work[h].seen
        cur == product[row.sku]
        eff == EffectiveStatus(row, seen.status, ProfileOf(h))
        supplier == batch[work[h].batch].sheet.supplier
        price == IF seen = Absent THEN Given(row.price, 0) ELSE row.price
    IN IF cur = Absent
       THEN [status |-> eff.status, reviewed |-> eff.reviewed, supplied |-> supplier,
             price |-> price, cost |-> row.cost, stock |-> Given(row.stock, 0)]
       ELSE [status |-> eff.status, reviewed |-> Flag(cur, eff),
             supplied |-> cur.supplied \/ supplier, price |-> Given(price, cur.price),
             cost |-> Given(row.cost, cur.cost), stock |-> Given(row.stock, cur.stock)]

WriteRow(h) ==
    LET s == work[h].sku
        seen == work[h].seen
        p == Upserted(h)
        old == IF seen = Absent THEN 0 ELSE seen.price
        new == IF Has(RowOf(h), "price") THEN RowOf(h).price ELSE old
    IN /\ work[h].job = "upsert"
       /\ Do(h, Commit(work[h].batch, work[h].row + 1))
       /\ UNCHANGED batch
       /\ \/ /\ MayPublish(p)
             /\ Write(h, s, p, p.stock - Units(s))
             /\ IF seen = Absent \/ new # old \/ Given(RowOf(h).cost, seen.cost) # seen.cost
                THEN Record(s, old, new) ELSE UNCHANGED paper
          \/ /\ ~MayPublish(p) /\ UNCHANGED rowVars   \* the row fails, the batch goes on

(* After the rows, what the sheet no longer has is archived, never deleted. The *)
(* batch has failed, for good, when that statement fails, with its rows written, *)
(* or the one before the rows that looks for the seller.                        *)
CloseBatch(h, gone, status) ==
    /\ work[h].job = "commit"
    /\ product' = [s \in Skus |-> IF s \in gone /\ product[s].supplied
                                  THEN [product[s] EXCEPT !.status = "archived"] ELSE product[s]]
    /\ batch' = [batch EXCEPT ![work[h].batch].status = status]
    /\ Rest(h)
    /\ UNCHANGED <<paper, books, disturbed, writes>>
FinishCommit(h) ==
    /\ CloseBatch(h, batch[work[h].batch].missing, "committed")
    /\ work[h].row = 0
FailCommit(h) ==
    /\ CloseBatch(h, {}, "failed")
    /\ \/ work[h].row = NextRow(work[h].batch, 1)
       \/ work[h].row = 0 /\ batch[work[h].batch].missing # {}
-----------------------------------------------------------------------------
(* Create: the insert, and the trail after it. A product is born reviewed.      *)
CreateProduct(h, s, new) ==
    /\ work[h] = Resting /\ ~Exists(s)
    /\ Write(h, s, [status |-> new.status, reviewed |-> TRUE, supplied |-> FALSE,
                    price |-> new.price, cost |-> new.cost, stock |-> new.stock], new.stock)
    /\ Do(h, [job |-> "trail", sku |-> s, seen |-> [price |-> 0, stock |-> 0],
              change |-> [price |-> new.price, stock |-> None]])
    /\ UNCHANGED <<batch, paper>>

(* Patch: three steps, none in a transaction. It reads the product to know      *)
(* what changes from what to what, writes absolute values, then the trail: the  *)
(* price history, and a movement for the stock as far as it knows.              *)
ReadForAudit(h, s, change) ==
    /\ work[h] = Resting /\ Exists(s)
    /\ Do(h, [job |-> "patch", sku |-> s, seen |-> product[s], change |-> change])
    /\ UNCHANGED <<rowVars, batch>>
Patched(h) ==
    LET c == work[h].change
        cur == product[work[h].sku]
    IN [cur EXCEPT !.price = Given(c.price, @), !.stock = Given(c.stock, @),
                   !.status = IF c.status = "none" THEN @ ELSE c.status]
WritePatch(h) ==
    /\ work[h].job = "patch"
    /\ UNCHANGED <<batch, paper>>
    /\ \/ /\ MayPublish(Patched(h))
          /\ Write(h, work[h].sku, Patched(h), 0)
          /\ Do(h, [work[h] EXCEPT !.job = "trail"])
       \/ /\ ~MayPublish(Patched(h))
          /\ Rest(h) /\ UNCHANGED <<product, books, disturbed, writes>>
\* Mutant: the movement is the number that was typed.
WriteTrailTyped(h) ==
    LET s == work[h].sku
        c == work[h].change
    IN /\ work[h].job = "trail"
       /\ books' = [books EXCEPT ![s] = @ + Given(c.stock, 0)]
       /\ Record(s, work[h].seen.price, Given(c.price, work[h].seen.price))
       /\ Rest(h)
       /\ UNCHANGED <<product, disturbed, writes, batch>>
WriteTrail(h) ==
    LET s == work[h].sku
        c == work[h].change
        seen == work[h].seen
    IN /\ work[h].job = "trail"
       /\ books' = IF Given(c.stock, seen.stock) = seen.stock THEN books
                   ELSE [books EXCEPT ![s] = @ + c.stock - seen.stock]
       /\ IF Given(c.price, seen.price) = seen.price THEN UNCHANGED paper
          ELSE Record(s, seen.price, c.price)
       /\ Rest(h)
       /\ UNCHANGED <<product, disturbed, writes, batch>>

(* A process that dies leaves a batch half written and still validated, or a    *)
(* product without its trail.                                                   *)
Die(h) ==
    /\ work[h].job \in {"commit", "trail"}
    /\ disturbed' = IF work[h].job = "trail" THEN disturbed \union {work[h].sku} ELSE disturbed
    /\ Rest(h)
    /\ UNCHANGED <<product, paper, books, writes, batch>>

ArchiveProduct(s) ==
    /\ Exists(s) /\ product[s].status # "archived"
    /\ product' = [product EXCEPT ![s].status = "archived"]
    /\ UNCHANGED <<paper, books, disturbed, writes, batch, work>>

(* Import: the old CSV import, one transaction per row, published unless the    *)
(* row says otherwise. A sheet without costs or supplier keeps them; one without *)
(* stock says zero.                                                             *)
ReadCsvRow(h, s, row) ==
    /\ work[h] = Resting
    /\ Do(h, [job |-> "csv", sku |-> s, seen |-> product[s], change |-> row])
    /\ UNCHANGED <<rowVars, batch>>
WriteCsvRow(h) ==
    LET s == work[h].sku
        row == work[h].change
        seen == work[h].seen
        old == IF seen = Absent THEN 0 ELSE seen.price
        p == [status |-> IF row.status = "none" THEN "published" ELSE row.status,
              reviewed |-> Exists(s) => product[s].reviewed,
              supplied |-> (Exists(s) /\ product[s].supplied) \/ row.supplied, price |-> row.price,
              cost |-> IF Exists(s) THEN Given(row.cost, product[s].cost) ELSE row.cost,
              stock |-> Given(row.stock, 0)]
    IN /\ work[h].job = "csv" /\ Rest(h)
       /\ UNCHANGED <<batch>>
       /\ \/ /\ MayPublish(p)
             /\ Write(h, s, p, p.stock - Units(s))
             /\ IF seen = Absent \/ row.price # old \/ Given(row.cost, seen.cost) # seen.cost
                THEN Record(s, old, row.price) ELSE UNCHANGED paper
          \/ /\ ~MayPublish(p) /\ UNCHANGED <<product, books, disturbed, paper, writes>>
-----------------------------------------------------------------------------
(* The shop takes units by what it finds; so does the stock clerk, with a       *)
(* movement in the same transaction.                                            *)
SellOne(s) ==
    /\ Exists(s) /\ product[s].status = "published" /\ product[s].stock > 0
    /\ Write(None, s, [product[s] EXCEPT !.stock = @ - 1], -1)
    /\ UNCHANGED <<batch, work, paper>>
AdjustStock(s, delta) ==
    /\ Exists(s) /\ product[s].stock + delta >= 0
    /\ Write(None, s, [product[s] EXCEPT !.stock = @ + delta], delta)
    /\ UNCHANGED <<batch, work, paper>>

CatalogNext ==
    \/ \E b \in Batches : (\E f \in Sheets : DryRun(b, f)) \/ (\E h \in Hands : StartCommit(h, b))
    \/ \E h \in Hands : \/ ReadRow(h) \/ WriteRow(h) \/ FinishCommit(h) \/ FailCommit(h)
                        \/ WritePatch(h) \/ WriteTrail(h) \/ WriteCsvRow(h) \/ Die(h)
    \/ \E h \in Hands, s \in Skus : \/ \E c \in Patches : ReadForAudit(h, s, c)
                                    \/ \E n \in NewProducts : CreateProduct(h, s, n)
                                    \/ \E r \in CsvRows : ReadCsvRow(h, s, r)
    \/ \E s \in Skus : ArchiveProduct(s) \/ SellOne(s) \/ \E d \in {-1, 1} : AdjustStock(s, d)
CatalogSpec == CatalogInit /\ [][CatalogNext]_catalogVars
-----------------------------------------------------------------------------
(* Every variable holds a value of its kind. *)
CatalogTypeOK ==
    /\ \A s \in Skus : Exists(s) => product[s].stock \in Nat /\ product[s].price \in Nat /\ MayPublish(product[s])
    /\ \A b \in Batches : batch[b].status \in {"none", "validated", "committed", "failed"}
    /\ writes \in 0..MaxWrites /\ disturbed \subseteq Skus

(* A product whose edits never overlapped has papers that tell the truth: its   *)
(* price history is a chain that ends at its price, and its movements, with     *)
(* what the shop sold and what imports and new products brought, make its       *)
(* stock. (When they overlap both break: the PATCH writes back what it read.)   *)
QuietPapersAreExact ==
    \A s \in Skus \ disturbed :
        (\A h \in Hands : work[h].job = "trail" => work[h].sku # s) =>
            /\ Exists(s) => paper[s].told = product[s].price
            /\ paper[s].chained
            /\ Units(s) = books[s]

(* pipeline.go:640, "rodar o mesmo arquivo duas vezes tem que dar o mesmo      *)
(* resultado": a row that was committed on the product its writer had read is  *)
(* skipped when its sheet is planned again, whatever else happened since the   *)
(* dry run. Not so a row with a column that is not compared (`others`), or with *)
(* a status the commit did not grant: it is planned as an update every time.   *)
ReimportChangesNothing ==
    [][\A h \in Hands :
          /\ WriteRow(h) /\ MayPublish(Upserted(h)) /\ work[h].seen = product[work[h].sku]
          /\ Verdict(RowOf(h), work[h].seen, ProfileOf(h)) \in {"create", "update"}
          /\ ~RowOf(h).others /\ RowOf(h).status \in {"none", Upserted(h).status}
          => Verdict(RowOf(h), product'[work[h].sku], ProfileOf(h)) = "skip"]_catalogVars
=============================================================================
