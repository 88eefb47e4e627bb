----------------------------- MODULE Purchasing ------------------------------
(***************************************************************************)
(* Purchase orders, goods receipts, supplier payments and supplier         *)
(* returns, purchasing/services.py, with the stock, the serialized units   *)
(* and the accounts payable they move.                                     *)
(*                                                                         *)
(* Every service locks the order row first and then its item rows, so a    *)
(* service is one step.  The journals its rows cause (accounting/          *)
(* signals.py) are posted inside the same transaction and are kept as what *)
(* they add to the payable account for each order; the journal page        *)
(* (backoffice/accounting_views.py) may reverse any of them, which no page *)
(* of the order learns of.  An order has at most one item per variant      *)
(* (uniq_purchase_variant).                                                *)
(***************************************************************************)
EXTENDS SerialUnits

CONSTANTS
    Purchases,
    Cost,           \* Cost[v]: the unit cost an order states for v
    MaxCost,        \* bound: of a unit cost
    Charges,        \* shipping_cost + other_cost - discount_amount of a form
    MaxLoad         \* bound: purchases (twice), units, claims and reversed
                    \* journals in use at once

ASSUME PurchasingAssumption ==
    /\ IsFiniteSet(Purchases) /\ IsFiniteSet(Variants)
    /\ MaxCost \in Nat
    /\ Cost \in [Variants -> 0 .. MaxCost]
    /\ Charges \subseteq Int
    /\ MaxLoad \in Nat

VARIABLES
    po,             \* PurchaseOrder with its items, paid: its PurchasePayments
    payable,        \* what the journals of the order add to accounts payable
    byHand,         \* what the journal of it that stands reversed had added, else 0
    origin          \* origin[u]: SerializedUnit.purchase_reference

purchaseVars == <<bal, ledger, cache, unit, claim, po, payable, byHand, origin>>

Empty == [v \in Variants |-> 0]
Plus(p, q) == [v \in Variants |-> p[v] + q[v]]
Minus(p, q) == [v \in Variants |-> p[v] - q[v]]

NoPurchase == [status |-> "absent", warehouse |-> Default, ordered |-> Empty,
               received |-> Empty, returned |-> Empty, charge |-> 0, paid |-> 0]

Value(items) == Total([v \in Variants |-> items[v] * Cost[v]], MaxQty * MaxCost)

GrandTotal(order) == Larger(0, Value(order.ordered) + order.charge)

\* Slip: what went back to the supplier is still owed.
OutstandingForgettingReturns(order) == Larger(0, GrandTotal(order) - order.paid)

\* outstanding_amount
Outstanding(order) ==
    Larger(0, GrandTotal(order) - order.paid - Value(order.returned))

Untouched(order) == order.received = Empty /\ order.paid = 0

Lines(limit) == {items \in [Variants -> 0 .. MaxQty] :
                    items # Empty /\ \A v \in Variants : items[v] <= limit[v]}

OfSku(units, v) == Cardinality({u \in units : Sku[u] = v})

-----------------------------------------------------------------------------
(* Services *)

\* save_purchase_order: the items are replaced as long as nothing was
\* received or paid; an ordered purchase may become a draft again.
SavePurchaseOrder(p, status, w, items, charge) ==
    /\ po[p].status \in {"absent", "draft", "ordered"}
    /\ Untouched(po[p])
    /\ status \in {"draft", "ordered"}
    /\ Value(items) + charge >= 0
    /\ po' = [po EXCEPT ![p] = [status |-> status, warehouse |-> w, ordered |-> items,
                                received |-> Empty, returned |-> Empty,
                                charge |-> charge, paid |-> 0]]
    /\ UNCHANGED <<bal, ledger, cache, unit, claim, payable, byHand, origin>>

\* Slip: an order is done once something of every item has come.
StatusAfterSome(order) ==
    IF \A v \in Variants : order.ordered[v] > 0 => order.received[v] > 0
    THEN "received" ELSE "partially_received"

\* The status after a receipt, and the journals it posts: the goods at cost,
\* and the charges once everything has come (post_purchase_overhead).
StatusAfter(order) ==
    IF \A v \in Variants : order.received[v] >= order.ordered[v]
    THEN "received" ELSE "partially_received"

ReceiptValue(order, items) ==
    Value(items) + (IF StatusAfter(order) = "received" THEN order.charge ELSE 0)

\* receive_purchase: items[v] units of every variant, some of them with their
\* serial numbers, which are registered against the stock that just came in; the
\* units already registered are counted for a serial number, not for a quantity.
ReceivePurchase(p, items, serials) ==
    LET order == [po[p] EXCEPT !.received = Plus(@, items)]
        after == [order EXCEPT !.status = StatusAfter(order)]
        k(v)  == <<order.warehouse, v>>
    IN
    /\ order.status \in {"ordered", "partially_received"}
    /\ items \in Lines(Minus(order.ordered, po[p].received))
    /\ serials \cap Registered = {}
    /\ \A v \in Variants :
          /\ OfSku(serials, v) <= items[v]
          /\ OfSku(serials, v) > 0 =>
                Cardinality(Tracked(k(v))) + OfSku(serials, v) <= bal[k(v)].onHand + items[v]
    /\ Post([j \in {k(v) : v \in {x \in Variants : items[x] > 0}} |-> Delta(items[j[2]], 0)])
    /\ unit' = [u \in Units |-> IF u \in serials
                                THEN [status |-> "available", warehouse |-> order.warehouse]
                                ELSE unit[u]]
    /\ origin' = [u \in Units |-> IF u \in serials THEN p ELSE origin[u]]
    /\ po' = [po EXCEPT ![p] = after]
    /\ payable' = [payable EXCEPT ![p] = @ + ReceiptValue(after, items)]
    /\ UNCHANGED <<claim, byHand>>

\* pay_purchase, also ahead of the delivery, and its mirror in the payment
\* ledger (record_supplier_payment) with its journal.
PayPurchase(p, amount) ==
    /\ po[p].status \in {"ordered", "partially_received", "received"}
    /\ amount > 0
    /\ amount <= Outstanding(po[p])
    /\ po' = [po EXCEPT ![p].paid = @ + amount]
    /\ payable' = [payable EXCEPT ![p] = @ - amount]
    /\ UNCHANGED <<bal, ledger, cache, unit, claim, byHand, origin>>

\* The units a return may name: received against this order and on its shelf.
Returnable(p) == {u \in Registered : /\ unit[u].warehouse = po[p].warehouse
                                     /\ origin[u] = p
                                     /\ unit[u].status = "available"}

\* Slip: the whole quantity leaves the stock besides the chosen units.
ReturnUnitsTwice(p, items, chosen) ==
    LET w == po[p].warehouse IN
    /\ po[p].status \in {"partially_received", "received"}
    /\ items \in Lines(Minus(po[p].received, po[p].returned))
    /\ chosen \subseteq Returnable(p)
    /\ \A v \in Variants : OfSku(chosen, v) <= items[v]
    /\ Post([j \in {<<w, v>> : v \in {x \in Variants : items[x] > 0}} |->
                Delta(-items[j[2]] - OfSku(chosen, j[2]), 0)])
    /\ unit' = [u \in Units |-> IF u \in chosen
                                THEN [unit[u] EXCEPT !.status = "supplier_returned"]
                                ELSE unit[u]]
    /\ po' = [po EXCEPT ![p].returned = Plus(@, items)]
    /\ payable' = [payable EXCEPT ![p] = @ - Value(items)]
    /\ UNCHANGED <<claim, byHand, origin>>

\* return_purchase: the chosen units leave one by one, the rest of the
\* quantity as untracked stock.
ReturnPurchase(p, items, chosen) ==
    LET w == po[p].warehouse
        bulk == [v \in Variants |-> items[v] - OfSku(chosen, v)]
    IN
    /\ po[p].status \in {"partially_received", "received"}
    /\ items \in Lines(Minus(po[p].received, po[p].returned))
    /\ chosen \subseteq Returnable(p)
    /\ \A v \in Variants : bulk[v] >= 0
    /\ Post([j \in {<<w, v>> : v \in {x \in Variants : items[x] > 0}} |->
                Delta(-OfSku(chosen, j[2]) - bulk[j[2]], 0)])
    /\ unit' = [u \in Units |-> IF u \in chosen
                                THEN [unit[u] EXCEPT !.status = "supplier_returned"]
                                ELSE unit[u]]
    /\ po' = [po EXCEPT ![p].returned = Plus(@, items)]
    /\ payable' = [payable EXCEPT ![p] = @ - Value(items)]
    /\ UNCHANGED <<claim, byHand, origin>>

\* Slip: the payments are not asked for.
CancelPaidPurchase(p) ==
    /\ po[p].status \in {"draft", "ordered", "cancelled"}
    /\ po[p].received = Empty
    /\ po' = [po EXCEPT ![p].status = "cancelled"]
    /\ UNCHANGED <<bal, ledger, cache, unit, claim, payable, byHand, origin>>

\* cancel_purchase
CancelPurchase(p) ==
    /\ po[p].status \in {"draft", "ordered", "cancelled"}
    /\ Untouched(po[p])
    /\ po' = [po EXCEPT ![p].status = "cancelled"]
    /\ UNCHANGED <<bal, ledger, cache, unit, claim, payable, byHand, origin>>

\* delete_draft_purchase
DeleteDraftPurchase(p) ==
    /\ po[p].status = "draft"
    /\ Untouched(po[p])
    /\ po' = [po EXCEPT ![p] = NoPurchase]
    /\ UNCHANGED <<bal, ledger, cache, unit, claim, payable, byHand, origin>>

\* What the journals of an order may have added, each by itself: a receipt and a
\* return of some units of an item, a payment, and the charges.
JournalsOf(p) ==
    (UNION {{n * Cost[v] : n \in 1 .. po[p].received[v]} : v \in Variants})
        \cup (UNION {{-n * Cost[v] : n \in 1 .. po[p].returned[v]} : v \in Variants})
        \cup {-n : n \in 1 .. po[p].paid}
        \cup {charge \in {po[p].charge} : po[p].status = "received"}

\* The journal page (journal_reverse): a posted journal of the order, or the reversal
\* that stands.  At most one stands at a time.
ReverseJournal(p, amount) ==
    /\ amount # 0
    /\ IF byHand[p] = 0 THEN amount \in JournalsOf(p) ELSE amount = -byHand[p]
    /\ payable' = [payable EXCEPT ![p] = @ - amount]
    /\ byHand' = [byHand EXCEPT ![p] = @ + amount]
    /\ UNCHANGED <<bal, ledger, cache, unit, claim, po, origin>>

\* The unit's page writes its purchase_reference with the rest of the form.
RegisterByHand(u, w, status, p) ==
    /\ RegisterSerialUnit(u, w, status)
    /\ origin' = [origin EXCEPT ![u] = p]
    /\ UNCHANGED <<po, payable, byHand>>

UpdateByHand(u, w, status, p) ==
    /\ UpdateSerialUnit(u, w, status)
    /\ origin' = [origin EXCEPT ![u] = p]
    /\ UNCHANGED <<po, payable, byHand>>

-----------------------------------------------------------------------------

PurchaseInit ==
    /\ UnitInit
    /\ po = [p \in Purchases |-> NoPurchase]
    /\ payable = [p \in Purchases |-> 0]
    /\ byHand = [p \in Purchases |-> 0]
    /\ origin = [u \in Units |-> "none"]

\* What a page can name: a purchase there is, or what the unit named before.
References(u) == {"none", origin[u]} \cup {p \in Purchases : po[p] # NoPurchase}

SaveOrder == \E p \in Purchases, s \in {"draft", "ordered"}, w \in Warehouses,
                items \in Lines([v \in Variants |-> MaxQty]), charge \in Charges :
                   SavePurchaseOrder(p, s, w, items, charge)
ReceiveOrder == \E p \in Purchases, serials \in SUBSET Units :
                   \E items \in Lines(po[p].ordered) : ReceivePurchase(p, items, serials)
PayOrder == \E p \in Purchases : \E amount \in 1 .. Outstanding(po[p]) : PayPurchase(p, amount)
ReturnOrder == \E p \in Purchases, chosen \in SUBSET Units :
                  \E items \in Lines(po[p].received) : ReturnPurchase(p, items, chosen)
CancelOrder == \E p \in Purchases : CancelPurchase(p)
DeleteOrder == \E p \in Purchases : DeleteDraftPurchase(p)
ReverseOne == \E p \in Purchases : \E amount \in JournalsOf(p) \cup {-byHand[p]} :
                 ReverseJournal(p, amount)
EditUnit == \E u \in Units, w \in Warehouses, s \in UnitStatuses : \E p \in References(u) :
               RegisterByHand(u, w, s, p) \/ UpdateByHand(u, w, s, p)

\* Purchases in use or still named by a unit, units, claims and reversed journals.
Load == 2 * Cardinality({p \in Purchases : po[p] # NoPurchase \/ \E u \in Units : origin[u] = p})
          + Cardinality(Registered)
          + Cardinality({c \in Claims : claim[c] # NoClaim})
          + Cardinality({p \in Purchases : byHand[p] # 0})

PurchaseStep ==
    \/ SaveOrder \/ ReceiveOrder \/ PayOrder \/ ReturnOrder \/ CancelOrder \/ DeleteOrder
    \/ EditUnit \/ ReverseOne
    \/ (Return \/ ClaimNext) /\ UNCHANGED <<po, payable, byHand, origin>>
    \/ OtherStock /\ UNCHANGED <<unit, claim, po, payable, byHand, origin>>

PurchaseNext == PurchaseStep /\ Load' <= MaxLoad

PurchaseSpec == PurchaseInit /\ [][PurchaseNext]_purchaseVars

\* Purchases the report leaves out.
Dropped(p) == po[p].status \in {"absent", "draft", "cancelled"}

\* _supplier_due_report of the one supplier, without an opening balance.
SupplierDue ==
    Larger(0, SumFunction([p \in Purchases |->
        IF Dropped(p) THEN 0 ELSE GrandTotal(po[p]) - Value(po[p].returned) - po[p].paid]))

-----------------------------------------------------------------------------
(* Properties *)

\* What an order has kept of variant v in row k.
KeptOf(p, k) ==
    IF po[p].warehouse = k[1] THEN po[p].received[k[2]] - po[p].returned[k[2]] ELSE 0
Kept(k) == Total([p \in Purchases |-> KeptOf(p, k)], MaxQty)

\* A purchase moves exactly the stock its items say, whichever of it travels as
\* serialized units and whichever as untracked quantity.
StockFollowsPurchase ==
    [][po' # po => \A k \in Keys : bal'[k].onHand - bal[k].onHand = Kept(k)' - Kept(k)]_purchaseVars

\* A unit never changes its status or its warehouse without its stock, and its
\* stock never moves without it, whichever page, claim, replacement or customer
\* return moves it; a receipt or a supplier return moves units and quantity
\* together (StockFollowsPurchase).
UnitsMoveWithStock == [][po' = po => UnitsTakeTheirStock]_purchaseVars

\* The account without what the journal page did to it.
Posted == [p \in Purchases |-> payable[p] + byHand[p]]

\* The purchase page, the supplier due report and the ledger agree.  A cancelled,
\* deleted or draft purchase has received, paid and left owing nothing, whatever was
\* cancelled, edited, received and paid in whatever order; once everything has come,
\* the outstanding_amount of an order is its balance in accounts payable, or zero
\* where returns after payment left the supplier owing; and when nothing is under way
\* the report says the supplier is due what accounts payable holds.  A journal reversed
\* by hand puts the page and the account apart by exactly that journal, whatever is
\* received, paid and returned meanwhile, until its reversal is reversed too.
OutstandingIsPayable ==
    /\ \A p \in Purchases : Dropped(p) => Untouched(po[p]) /\ payable[p] = 0
    /\ \A p \in Purchases :
          po[p].status = "received" => Outstanding(po[p]) = Larger(0, Posted[p])
    /\ (\A p \in Purchases : Dropped(p) \/ po[p].status = "received") =>
          SupplierDue = Larger(0, SumFunction(Posted))

\* The status tells what has come.
StatusTellsReceipts ==
    \A p \in Purchases :
        /\ po[p].status = "received" <=> po[p].received = po[p].ordered /\ po[p] # NoPurchase
        /\ po[p].status = "partially_received" <=>
              po[p].received # Empty /\ po[p].received # po[p].ordered
=============================================================================
