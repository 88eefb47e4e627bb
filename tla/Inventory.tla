------------------------------ MODULE Inventory ------------------------------
(***************************************************************************)
(* The stock engine, inventory/services.py and inventory/compat.py.        *)
(*                                                                         *)
(* A key <<w, v>> is the InventoryBalance row of variant v in warehouse w; *)
(* a row that get_or_create has not made yet is the row with two zeros.    *)
(* Every service runs in one database transaction that first locks, FOR    *)
(* UPDATE, the balance rows it writes joined with their variant row, so a  *)
(* service is one step here.                                               *)
(* The StockMovement table is kept as what its rows say together: per key, *)
(* the sum of the deltas and the quantity_after / reserved_after of the    *)
(* newest row.                                                             *)
(***************************************************************************)
EXTENDS Integers, Functions, Totals

CONSTANTS
    Warehouses,     \* the primary keys of the warehouses
    Default,        \* the warehouse get_default_warehouse returns
    Variants,       \* the product variants (SKUs)
    MaxQty          \* bound: no row ever holds more than MaxQty units

ASSUME InventoryAssumption ==
    /\ Warehouses \subseteq Nat /\ IsFiniteSet(Warehouses)
    /\ Default \in Warehouses
    /\ MaxQty \in Nat

VARIABLES
    bal,            \* InventoryBalance: on_hand and reserved_quantity of each key
    ledger,         \* StockMovement: what the rows of each key add up to
    cache           \* ProductVariant.stock_quantity

invVars == <<bal, ledger, cache>>

Keys == Warehouses \X Variants

Quantities == 1 .. MaxQty

-----------------------------------------------------------------------------
(* Balances, movements and the cached stock figure *)

Larger(a, b) == IF a >= b THEN a ELSE b

\* Slip: reserved units count as available.
AvailableUnreserved(b, k) == b[k].onHand

Available(b, k) == Larger(0, b[k].onHand - b[k].reserved)

VariantAvailable(b, v) ==
    Total([w \in Warehouses |-> Available(b, <<w, v>>)], MaxQty)

\* The balances b after on_hand of k moved by dq and reserved_quantity by dr.
Moved(b, k, dq, dr) ==
    [b EXCEPT ![k] = [onHand   |-> b[k].onHand + dq,
                      reserved |-> b[k].reserved + dr]]

Delta(dq, dr) == [qty |-> dq, res |-> dr]

\* Slip: the snapshot is taken before the row is written.
RecordedBefore(l, m, after) ==
    [qty      |-> l.qty + m.qty,
     res      |-> l.res + m.res,
     qtyAfter |-> after.onHand - m.qty,
     resAfter |-> after.reserved - m.res]

\* _create_movement: the ledger of a row once a movement m is appended that
\* snapshots the row as it is after the write.
Recorded(l, m, after) ==
    [qty      |-> l.qty + m.qty,
     res      |-> l.res + m.res,
     qtyAfter |-> after.onHand,
     resAfter |-> after.reserved]

\* Slip: the cached figure is computed before the rows are saved.
CommitSyncedFirst(b, moves) ==
    /\ bal' = b
    /\ ledger' = [k \in Keys |-> IF k \in DOMAIN moves
                                 THEN Recorded(ledger[k], moves[k], b[k])
                                 ELSE ledger[k]]
    /\ cache' = [v \in Variants |->
                    IF \E w \in Warehouses : <<w, v>> \in DOMAIN moves
                    THEN VariantAvailable(bal, v)
                    ELSE cache[v]]

\* The rows become b, each key of moves gets one movement, and the variants
\* of those keys get their cached stock recomputed from every warehouse.
Commit(b, moves) ==
    /\ bal' = b
    /\ ledger' = [k \in Keys |-> IF k \in DOMAIN moves
                                 THEN Recorded(ledger[k], moves[k], b[k])
                                 ELSE ledger[k]]
    /\ cache' = [v \in Variants |->
                    IF \E w \in Warehouses : <<w, v>> \in DOMAIN moves
                    THEN VariantAvailable(b, v)
                    ELSE cache[v]]

\* Slip: a release may go below zero.
RowAllowedUnsigned(row) == row.onHand >= 0 /\ row.reserved <= row.onHand

\* Slip: a reservation may exceed the stock.
RowAllowedOversold(row) == row.onHand >= 0 /\ row.reserved >= 0

\* What post_movement and the CHECK constraints of the table let a row hold.
RowAllowed(row) ==
    /\ row.onHand >= 0
    /\ row.reserved >= 0
    /\ row.reserved <= row.onHand

PostMovement(k, dq, dr) ==
    LET after == Moved(bal, k, dq, dr) IN
    /\ RowAllowed(after[k])
    /\ after[k].onHand <= MaxQty
    /\ Commit(after, [j \in {k} |-> Delta(dq, dr)])

-----------------------------------------------------------------------------
(* Operations *)

ReserveStock(k, n)       == PostMovement(k, 0, n)
ReleaseReservedStock(k, n) == PostMovement(k, 0, -n)
IssueReservedStock(k, n) == PostMovement(k, -n, -n)
StockIn(k, n)            == PostMovement(k, n, 0)
StockOut(k, n)           == PostMovement(k, -n, 0)

\* Slip: a count may go below what is reserved.
AdjustBelowReserved(k, actual) ==
    /\ actual # bal[k].onHand
    /\ Commit([bal EXCEPT ![k].onHand = actual],
              [j \in {k} |-> Delta(actual - bal[k].onHand, 0)])

\* Slip: the movement states the difference the wrong way round.
AdjustReversedDelta(k, actual) ==
    /\ actual >= bal[k].reserved
    /\ actual # bal[k].onHand
    /\ Commit([bal EXCEPT ![k].onHand = actual],
              [j \in {k} |-> Delta(bal[k].onHand - actual, 0)])

\* A counted quantity replaces on_hand; it may not go below the reservations.
AdjustStock(k, actual) ==
    /\ actual >= bal[k].reserved
    /\ actual # bal[k].onHand
    /\ Commit([bal EXCEPT ![k].onHand = actual],
              [j \in {k} |-> Delta(actual - bal[k].onHand, 0)])

\* The rows after items[v] units of every variant v went from one warehouse to
\* the other.
Transferred(from, to, items) ==
    [k \in Keys |->
        IF k[1] = from THEN [bal[k] EXCEPT !.onHand = @ - items[k[2]]]
        ELSE IF k[1] = to THEN [bal[k] EXCEPT !.onHand = @ + items[k[2]]]
        ELSE bal[k]]

TransferStock(from, to, items) ==
    LET sent  == {v \in Variants : items[v] > 0}
        after == Transferred(from, to, items)
    IN
    /\ from # to
    /\ sent # {}
    /\ \A v \in sent : Available(bal, <<from, v>>) >= items[v]
    /\ \A v \in sent : after[<<to, v>>].onHand <= MaxQty
    /\ Commit(after, [k \in {from, to} \X sent |->
                         Delta(IF k[1] = from THEN -items[k[2]] ELSE items[k[2]], 0)])

\* The order in which a reduction visits the rows: the default warehouse, then
\* by primary key.
Before(w, x) ==
    /\ w # x
    /\ w = Default \/ (x # Default /\ w < x)

\* Taking need units of v: each warehouse gives all it has available before
\* the next one gives anything.
Takes(v, need) ==
    {take \in [Warehouses -> 0 .. MaxQty] :
        /\ \A w \in Warehouses : take[w] <= Available(bal, <<w, v>>)
        /\ \A w, x \in Warehouses :
              Before(w, x) /\ take[x] > 0 => take[w] = Available(bal, <<w, v>>)
        /\ Total(take, MaxQty) = need}

\* post_save of a ProductVariant whose stock_quantity is desired: the
\* difference to the available stock becomes adjustment movements.
ReconcileCatalogStock(v, desired) ==
    LET available == VariantAvailable(bal, v)
        home      == <<Default, v>>
    IN
    \/ /\ desired = available
       /\ cache' = [cache EXCEPT ![v] = desired]
       /\ UNCHANGED <<bal, ledger>>
    \/ \E extra \in Quantities :
       /\ desired = available + extra
       /\ bal[home].onHand + extra <= MaxQty
       /\ Commit(Moved(bal, home, extra, 0), [k \in {home} |-> Delta(extra, 0)])
    \/ /\ desired < available
       /\ \E take \in Takes(v, available - desired) :
             Commit([k \in Keys |->
                        IF k[2] = v THEN [bal[k] EXCEPT !.onHand = @ - take[k[1]]]
                        ELSE bal[k]],
                    [k \in {w \in Warehouses : take[w] > 0} \X {v} |->
                        Delta(-take[k[1]], 0)])

-----------------------------------------------------------------------------

\* Nothing in stock, every variant bootstrapped (bootstrap_variant_stock).
InvInit ==
    /\ bal = [k \in Keys |-> [onHand |-> 0, reserved |-> 0]]
    /\ ledger = [k \in Keys |-> [qty |-> 0, res |-> 0, qtyAfter |-> 0, resAfter |-> 0]]
    /\ cache = [v \in Variants |-> VariantAvailable(bal, v)]

Reserve   == \E k \in Keys, n \in Quantities : ReserveStock(k, n)
Release   == \E k \in Keys, n \in Quantities : ReleaseReservedStock(k, n)
Issue     == \E k \in Keys, n \in Quantities : IssueReservedStock(k, n)
Receive   == \E k \in Keys, n \in Quantities : StockIn(k, n)
Remove    == \E k \in Keys, n \in Quantities : StockOut(k, n)
Adjust    == \E k \in Keys, actual \in 0 .. MaxQty : AdjustStock(k, actual)
Transfer  == \E from, to \in Warehouses, items \in [Variants -> 0 .. MaxQty] :
                TransferStock(from, to, items)
Reconcile == \E v \in Variants, desired \in 0 .. MaxQty : ReconcileCatalogStock(v, desired)

InvNext ==
    \/ Reserve \/ Release \/ Issue
    \/ Receive \/ Remove
    \/ Adjust \/ Transfer \/ Reconcile

InvSpec == InvInit /\ [][InvNext]_invVars

-----------------------------------------------------------------------------
(* Properties *)

\* Rows, ledger sums and cached figures have the types of their columns: the
\* quantities of a row are never negative.
TypeOK ==
    /\ bal \in [Keys -> [onHand : Nat, reserved : Nat]]
    /\ ledger \in [Keys -> [qty : Int, res : Int, qtyAfter : Nat, resAfter : Nat]]
    /\ DOMAIN cache = Variants

\* No operation, whichever of the five code paths writes the row, promises
\* more units than the warehouse holds (inventory_reserved_not_above_on_hand).
ReservedWithinOnHand ==
    \A k \in Keys : bal[k].reserved <= bal[k].onHand

\* The immutable ledger explains the stock: the deltas of the movements of a
\* row add up to the row, for the physical and for the reserved quantity.
LedgerExplainsBalance ==
    \A k \in Keys : /\ ledger[k].qty = bal[k].onHand
                    /\ ledger[k].res = bal[k].reserved

\* The newest movement of a row shows the row as it is: as-of reports that
\* read quantity_after and reserved_after agree with the balance.
SnapshotCurrent ==
    \A k \in Keys : /\ ledger[k].qtyAfter = bal[k].onHand
                    /\ ledger[k].resAfter = bal[k].reserved

\* The storefront's figure is the available stock of all warehouses: an
\* operation on one warehouse never publishes a figure that forgets another.
CacheFresh ==
    \A v \in Variants : cache[v] = VariantAvailable(bal, v)

\* Units of a variant over all warehouses.
TotalOnHand(v)   == Total([w \in Warehouses |-> bal[<<w, v>>].onHand], MaxQty)
TotalReserved(v) == Total([w \in Warehouses |-> bal[<<w, v>>].reserved], MaxQty)

\* Seen from outside the warehouses, the engine only promises, ships, receives
\* and writes off units, never more than are free.
Promise == INSTANCE StockPromise WITH
    physical <- [v \in Variants |-> TotalOnHand(v)],
    promised <- [v \in Variants |-> TotalReserved(v)]

ImplementsPromise == Promise!Spec
=============================================================================
