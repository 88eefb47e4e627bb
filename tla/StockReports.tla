----------------------------- MODULE StockReports -----------------------------
(***************************************************************************)
(* The stock, valuation, low stock and movement reports                    *)
(* (reports/stock_purchase.py), as of today, over the stock engine and the *)
(* variant form, which can give a variant another SKU.  None reads a       *)
(* balance that has movements: the stock reports show, for each position   *)
(* and each SKU the position has had movements under, what the newest of   *)
(* them snapshots; the movement report adds up the deltas of them all.     *)
(* Unit costs belong to the accounting modules.                            *)
(***************************************************************************)
EXTENDS Inventory

CONSTANT Skus       \* SKUs a variant can have

ASSUME ReportAssumption == IsFiniteSet(Skus) /\ Skus # {} /\ IsFiniteSet(Variants)

VARIABLES
    skuOf,          \* ProductVariant.sku
    shown           \* shown[k][s]: the quantities after the newest movement of k whose
                    \* sku_snapshot is s

reportVars == <<bal, ledger, cache, skuOf, shown>>

\* post_save of the variant form: the SKU is another than that of every other variant,
\* and the stock typed in is reconciled.
SaveVariantForm(v, sku, desired) ==
    /\ \A other \in Variants \ {v} : skuOf[other] # sku
    /\ skuOf' = [skuOf EXCEPT ![v] = sku]
    /\ ReconcileCatalogStock(v, desired)

\* _movement_snapshot: the movements of a step carry the SKU the variant has by then.
\* A movement changes a quantity, so the keys it concerns are those whose sums change.
Labelled ==
    shown' = [k \in Keys |->
        IF ledger'[k] = ledger[k] THEN shown[k]
        ELSE [s \in DOMAIN shown[k] \cup {skuOf'[k[2]]} |->
                IF s = skuOf'[k[2]]
                THEN [onHand |-> ledger'[k].qtyAfter, reserved |-> ledger'[k].resAfter]
                ELSE shown[k][s]]]

ReportInit ==
    /\ InvInit
    /\ skuOf \in [Variants -> Skus]
    /\ \A v, other \in Variants : v # other => skuOf[v] # skuOf[other]
    /\ shown = [k \in Keys |-> [s \in {} |-> [onHand |-> 0, reserved |-> 0]]]

ReportNext ==
    /\ \/ InvNext /\ UNCHANGED skuOf
       \/ \E v \in Variants, sku \in Skus, desired \in 0 .. MaxQty :
             SaveVariantForm(v, sku, desired)
    /\ Labelled

ReportSpec == ReportInit /\ [][ReportNext]_reportVars

-----------------------------------------------------------------------------
(* The reports *)

\* _historical_stock_rows: the SKUs position k is listed under, and what it says there;
\* a balance without any movement is listed once, as it is.
ListedUnder(k)   == IF DOMAIN shown[k] = {} THEN {skuOf[k[2]]} ELSE DOMAIN shown[k]
ListedRow(k, s)  == IF s \in DOMAIN shown[k] THEN shown[k][s] ELSE bal[k]

OnHandAt(k, s)   == IF s \in ListedUnder(k) THEN ListedRow(k, s).onHand ELSE 0
ReservedAt(k, s) == IF ListedRow(k, s).reserved <= OnHandAt(k, s)
                    THEN ListedRow(k, s).reserved ELSE OnHandAt(k, s)
AvailableAt(k, s) == Larger(OnHandAt(k, s) - ReservedAt(k, s), 0)

\* What the rows of position k add up to.
ReportedOnHand(k)    == Total([s \in Skus |-> OnHandAt(k, s)], MaxQty)
ReportedAvailable(k) == Total([s \in Skus |-> AvailableAt(k, s)], MaxQty)

\* The positions of _stock_report with low_only, for a threshold of the rows.
LowPositions(threshold) ==
    {k \in Keys : \E s \in ListedUnder(k) : AvailableAt(k, s) <= threshold}

MaxListed == MaxQty * Cardinality(Skus)

\* _valuation_report: units on hand in a warehouse.
ValuedOnHand(w) == Total([v \in Variants |-> ReportedOnHand(<<w, v>>)], MaxListed)

\* _movement_report: Net Quantity of a warehouse over all dates.
NetQuantity(w) == Total([v \in Variants |-> ledger[<<w, v>>].qty], MaxQty)

\* The positions of a variant in the stock report.
ReportedStock(v) == Total([w \in Warehouses |-> ReportedAvailable(<<w, v>>)], MaxListed)

-----------------------------------------------------------------------------
(* Properties *)

ListedOnce(k) == \E s \in Skus : ListedUnder(k) = {s}

\* Four accounts of one stock agree, though each is kept by itself, as long as no
\* position has movements under two SKUs: the positions of the stock report add up to
\* the figure the storefront sells from, the valuation has the units the movement
\* report nets, and a position is listed as low exactly when no more than the threshold
\* can be promised from it.  A position with movements under a former SKU keeps that
\* row: the reports then count too much, and never too little.
StockReportTrue ==
    /\ \A v \in Variants :
          /\ ReportedStock(v) >= cache[v]
          /\ (\A w \in Warehouses : ListedOnce(<<w, v>>)) => ReportedStock(v) = cache[v]
    /\ \A w \in Warehouses :
          /\ ValuedOnHand(w) >= NetQuantity(w)
          /\ (\A v \in Variants : ListedOnce(<<w, v>>)) => ValuedOnHand(w) = NetQuantity(w)
    /\ \A threshold \in 0 .. MaxQty, k \in Keys :
          /\ Available(bal, k) <= threshold => k \in LowPositions(threshold)
          /\ ListedOnce(k) /\ k \in LowPositions(threshold) => Available(bal, k) <= threshold
=============================================================================
