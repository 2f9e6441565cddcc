------------------------------- MODULE ImportPlan -------------------------------
(* The dry run of a supplier's sheet: what committing it would do to each row,  *)
(* decided on the catalogue as it is now (services/catalog-service/internal/    *)
(* ingest). Prices and quantities are whole numbers; of the other columns only  *)
(* their presence is kept.                                                      *)
EXTENDS Integers, FiniteSets

None == -1
(* A cell with a number in it, never a negative one, or an empty cell.          *)
Cell == Nat \union {None}
Absent == [status |-> "absent"]

(* One row of a sheet as mapRow and validateRow leave it. A cell with content   *)
(* that does not parse, a row with no name or no SKU, a unit that is labour:    *)
(* unreadable. A cell left empty is a field the row does not have.              *)
SheetRow(skus) ==
    [sku : skus \union {""}, unreadable : BOOLEAN, category : {"none", "known", "unknown"},
     price : Cell, cost : Cell, stock : Cell, status : STRING, others : BOOLEAN]
Has(row, field) == row[field] # None

(* Options of a profile; the limits are the default ones.                       *)
Profile == [kind : {"import", "sinapi"}, publishOnImport : BOOLEAN, archiveMissing : BOOLEAN,
            allowPriceBelowCost : BOOLEAN, priceColumn : BOOLEAN]
DropLimit == 30
RiseLimit == 300

(* The price lock: an update whose price moves too far waits for a human eye.   *)
MovesTooFar(price, old) ==
    /\ old > 0
    /\ \/ (price - old) * 100 < -DropLimit * old
       \/ (price - old) * 100 > RiseLimit * old

(* So does a sale price below the cost, the sheet's or else the product's.      *)
BelowCost(row, known, profile) ==
    LET cost == IF Has(row, "cost") THEN row.cost ELSE known
    IN /\ Has(row, "price") /\ ~profile.allowPriceBelowCost
       /\ cost > 0 /\ row.price < cost

Changes(row, p) ==
    \/ row.others
    \/ \E f \in {"price", "cost", "stock"} : Has(row, f) /\ row[f] # p[f]
    \/ row.status # "none" /\ row.status # p.status

(* decide, for a row that could be read.                                        *)
Verdict(row, p, profile) ==
    IF row.category = "unknown" \/ (row.category = "none" /\ p = Absent) THEN "reject"
    ELSE IF p = Absent
    THEN IF row.price \in {None, 0} /\ profile.priceColumn THEN "review"
         ELSE IF BelowCost(row, None, profile) THEN "review" ELSE "create"
    ELSE IF Has(row, "price") /\ MovesTooFar(row.price, p.price) THEN "review"
         ELSE IF BelowCost(row, p.cost, profile) THEN "review"
         ELSE IF Changes(row, p) THEN "update" ELSE "skip"

(* The second row of a SKU in one file is rejected, whatever it says.           *)
Repeats(file, i) == \E j \in 1..(i - 1) : file[j].sku = file[i].sku /\ ~file[j].unreadable
PlanRows(file, catalogue, profile) ==
    [i \in DOMAIN file |->
        IF file[i].unreadable \/ Repeats(file, i) THEN "reject"
        ELSE Verdict(file[i], catalogue[file[i].sku], profile)]

(* What the supplier has on sale and did not send, read only when the profile   *)
(* archives: a row that is rejected still counts as sent.                       *)
MissingSKUs(file, catalogue, profile) ==
    IF ~profile.archiveMissing THEN {}
    ELSE {s \in DOMAIN catalogue \ {file[i].sku : i \in DOMAIN file} :
            catalogue[s] # Absent /\ catalogue[s].supplied /\ catalogue[s].status # "archived"}

(* effectiveStatus: what the commit makes of the status and of the flag that    *)
(* says a human saw the price. old is the status the row had, or "absent".      *)
Reviewed(row, profile) == profile.kind # "sinapi" /\ Has(row, "price") /\ row.price > 0
Requested(row, old, profile) ==
    IF row.status # "none" THEN row.status
    ELSE IF old # "absent" THEN old
    ELSE IF profile.publishOnImport THEN "published" ELSE "draft"
EffectiveStatus(row, old, profile) ==
    LET asked == Requested(row, old, profile)
        priced == Reviewed(row, profile)
        shown == IF asked = "published" /\ ~priced THEN "draft" ELSE asked
    IN IF old = "published" /\ shown # "archived" /\ (priced \/ profile.kind # "sinapi")
       THEN [status |-> "published", reviewed |-> TRUE]
       ELSE [status |-> shown, reviewed |-> priced]
=============================================================================
