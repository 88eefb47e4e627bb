----------------------------- MODULE SalesOrders -----------------------------
(***************************************************************************)
(* Sales orders on top of the stock engine: sales/services.py, the POS     *)
(* wrapper sales/pos_services.py and the stock side of the checkout.       *)
(*                                                                         *)
(* Each service locks the order row, re-reads it, and posts the movements  *)
(* of all its items in the same transaction; an exception on any item      *)
(* rolls everything back, so a service is one step that either posts every *)
(* item or is disabled.  The step is computed as the code does it, rows    *)
(* first released and then reserved or issued, each stage having to be     *)
(* allowed.  Unit counts per variant are functions on Variants: an order   *)
(* has at most one item per variant (uniq_sales_order_variant).            *)
(***************************************************************************)
EXTENDS Inventory, OrderStatus

CONSTANTS
    Orders,
    MaxUnits        \* bound: no order lists more units in all

ASSUME SalesAssumption == IsFiniteSet(Orders)

VARIABLE orders     \* SalesOrder with its SalesOrderItem rows

salesVars == <<bal, ledger, cache, orders>>

Nothing == [v \in Variants |-> 0]
Less(p, q) == [v \in Variants |-> p[v] - q[v]]
More(p, q) == [v \in Variants |-> p[v] + q[v]]

NoOrder == [status |-> "absent", warehouse |-> Default,
            quantity |-> Nothing, reserved |-> Nothing, issued |-> Nothing]

\* What an order form can hold: at least one item, no line of zero units.
ItemRows == {items \in [Variants -> 0 .. MaxQty] :
                items # Nothing /\ SumFunction(items) <= MaxUnits}

-----------------------------------------------------------------------------
(* Stock movements of a whole order *)

\* The rows b after a movement of dq[v] and dr[v] for every variant v in w.
Shifted(b, w, dq, dr) ==
    [k \in Keys |->
        LET row == b[k] IN
        IF k[1] = w THEN [onHand   |-> row.onHand + dq[k[2]],
                          reserved |-> row.reserved + dr[k[2]]]
        ELSE row]

Allowed(b) == \A k \in Keys : RowAllowed(b[k])

\* Commit the rows b, the movements of each row stating its net difference.
Settle(b) ==
    Commit(b, [k \in {j \in Keys : b[j] # bal[j]} |->
                  Delta(b[k].onHand - bal[k].onHand, b[k].reserved - bal[k].reserved)])

\* _release_reserved: in the warehouse the order names now.
Released(b, order) ==
    Shifted(b, order.warehouse, Nothing, Less(Nothing, order.reserved))

\* What _reserve_remaining still has to reserve.
Remaining(order) == Less(Less(order.quantity, order.issued), order.reserved)

Reserved(b, order) == Shifted(b, order.warehouse, Nothing, Remaining(order))

\* What _issue_all_reserved still has to issue, out of the reservation.
Unissued(order) == Less(order.quantity, order.issued)

\* Slip: issuing gives the reservation back and ships nothing.
IssuedOnPaper(b, order) ==
    Shifted(b, order.warehouse, Nothing, Less(Nothing, Unissued(order)))

Issued(b, order) ==
    Shifted(b, order.warehouse, Less(Nothing, Unissued(order)),
                                Less(Nothing, Unissued(order)))

-----------------------------------------------------------------------------
(* Services *)

\* The order a save writes: new items, nothing of them reserved yet.
Saved(status, w, items) ==
    [status |-> status, warehouse |-> w,
     quantity |-> items, reserved |-> Nothing, issued |-> Nothing]

\* Slip: the old reservation is not released before the items are replaced.
SaveWithoutRelease(o, status, w, items) ==
    LET saved == Saved(status, w, items)
        taken == Reserved(bal, saved)
    IN
    /\ orders[o].status \in {"absent"} \cup Editable
    /\ \/ /\ status = "draft"
          /\ orders' = [orders EXCEPT ![o] = saved]
          /\ Settle(bal)
       \/ /\ status = "pending"
          /\ Allowed(taken)
          /\ orders' = [orders EXCEPT ![o] = [saved EXCEPT !.reserved = items]]
          /\ Settle(taken)

\* save_sales_order, for a new order or an editable one: the reservation is
\* released in the old warehouse, the items are replaced, and a pending order
\* reserves the new items in the new warehouse.
SaveSalesOrder(o, status, w, items) ==
    LET released == Released(bal, orders[o])
        saved    == Saved(status, w, items)
        taken    == Reserved(released, saved)
    IN
    /\ orders[o].status \in {"absent"} \cup Editable
    /\ Allowed(released)
    /\ \/ /\ status = "draft"
          /\ orders' = [orders EXCEPT ![o] = saved]
          /\ Settle(released)
       \/ /\ status = "pending"
          /\ Allowed(taken)
          /\ orders' = [orders EXCEPT ![o] = [saved EXCEPT !.reserved = items]]
          /\ Settle(taken)

\* transition_order to a status that holds stock.
MoveToReserving(o, new) ==
    LET order == orders[o]
        taken == Reserved(bal, order)
    IN
    /\ new \in Reserving \cap AllowedTransitions[order.status]
    /\ Allowed(taken)
    /\ orders' = [orders EXCEPT ![o] =
                     [order EXCEPT !.status = new,
                                   !.reserved = More(@, Remaining(order))]]
    /\ Settle(taken)

\* transition_order to COMPLETED: reserve what is missing, then issue it all.
CompleteOrder(o) ==
    LET order   == orders[o]
        taken   == Reserved(bal, order)
        shipped == Issued(taken, order)
    IN
    /\ "completed" \in AllowedTransitions[order.status]
    /\ Allowed(taken)
    /\ Allowed(shipped)
    /\ orders' = [orders EXCEPT ![o] =
                     [order EXCEPT !.status = "completed",
                                   !.reserved = Less(More(@, Remaining(order)), Unissued(order)),
                                   !.issued = More(@, Unissued(order))]]
    /\ Settle(shipped)

\* Slip: the items keep the reservation that was released.
CancelKeepingItems(o) ==
    LET released == Released(bal, orders[o]) IN
    /\ "cancelled" \in AllowedTransitions[orders[o].status]
    /\ orders[o].issued = Nothing
    /\ Allowed(released)
    /\ orders' = [orders EXCEPT ![o].status = "cancelled"]
    /\ Settle(released)

CancelOrder(o) ==
    LET order    == orders[o]
        released == Released(bal, order)
    IN
    /\ "cancelled" \in AllowedTransitions[order.status]
    /\ order.issued = Nothing
    /\ Allowed(released)
    /\ orders' = [orders EXCEPT ![o] =
                     [order EXCEPT !.status = "cancelled", !.reserved = Nothing]]
    /\ Settle(released)

DeleteDraftOrder(o) ==
    /\ orders[o].status = "draft"
    /\ orders[o].reserved = Nothing
    /\ orders' = [orders EXCEPT ![o] = NoOrder]
    /\ UNCHANGED invVars

\* complete_pos_sale: save as PENDING, then CONFIRMED, then COMPLETED, in one
\* transaction.  _held_order tests for DRAFT before the row is locked, so what
\* counts is the test of save_sales_order under the lock.
CompletePosSale(o, w, items) ==
    LET released == Released(bal, orders[o])
        sold     == Saved("completed", w, items)
        taken    == Reserved(released, sold)
        shipped  == Issued(taken, sold)
    IN
    /\ orders[o].status \in {"absent"} \cup Editable
    /\ Allowed(released)
    /\ Allowed(taken)
    /\ Allowed(shipped)
    /\ orders' = [orders EXCEPT ![o] = [sold EXCEPT !.issued = items]]
    /\ Settle(shipped)

-----------------------------------------------------------------------------

SalesInit ==
    /\ InvInit
    /\ orders = [o \in Orders |-> NoOrder]

Save     == \E o \in Orders, s \in Editable, w \in Warehouses, items \in ItemRows :
                SaveSalesOrder(o, s, w, items)
Move     == \E o \in Orders, s \in Reserving : MoveToReserving(o, s)
Complete == \E o \in Orders : CompleteOrder(o)
Cancel   == \E o \in Orders : CancelOrder(o)
Delete   == \E o \in Orders : DeleteDraftOrder(o)
PosSale  == \E o \in Orders, w \in Warehouses, items \in ItemRows :
                CompletePosSale(o, w, items)

\* Purchasing, stock counts, transfers and catalog edits run beside the sales.
OtherStock == (Receive \/ Remove \/ Adjust \/ Transfer \/ Reconcile) /\ UNCHANGED orders

SalesNext ==
    \/ Save \/ Move \/ Complete \/ Cancel \/ Delete \/ PosSale
    \/ OtherStock

SalesSpec == SalesInit /\ [][SalesNext]_salesVars

-----------------------------------------------------------------------------
(* Properties *)

OrderType ==
    [status    : Statuses,
     warehouse : Warehouses,
     quantity  : [Variants -> Nat],
     reserved  : [Variants -> Nat],
     issued    : [Variants -> Nat]]

\* Orders and their items have the types of their columns: no item ever holds
\* a negative reservation or a negative issue.
SalesTypeOK == orders \in [Orders -> OrderType]

Agrees(order) ==
    /\ order.status \in {"absent", "draft", "cancelled"} =>
          order.reserved = Nothing /\ order.issued = Nothing
    /\ order.status \in Reserving =>
          order.reserved = order.quantity /\ order.issued = Nothing
    /\ order.status = "completed" =>
          order.reserved = Nothing /\ order.issued = order.quantity

\* The status of an order says exactly what its items hold: drafts and
\* cancelled orders nothing, orders on their way the full quantity reserved,
\* completed ones the full quantity issued and nothing reserved any more.
StatusMatchesStock == \A o \in Orders : Agrees(orders[o])

\* Units of v that an order, and that all orders together, hold in w.
Holds(order, w, v) == IF order.warehouse = w THEN order.reserved[v] ELSE 0

HeldByOrders(w, v) == Total([o \in Orders |-> Holds(orders[o], w, v)], MaxQty)

\* No reservation leaks: a row is reserved by exactly the units its orders
\* hold, through edits that change items and warehouse, cancels and deletes.
ReservationsBacked ==
    \A w \in Warehouses, v \in Variants : bal[<<w, v>>].reserved = HeldByOrders(w, v)

\* A confirmed or processing order can always be completed: nothing that runs
\* in between (counts, transfers, catalog edits, other orders) can take the
\* stock it was promised.
CompletionNeverBlocked ==
    \A o \in Orders :
        orders[o].status \in {"confirmed", "processing"} =>
            /\ Allowed(Reserved(bal, orders[o]))
            /\ Allowed(Issued(Reserved(bal, orders[o]), orders[o]))

\* Sold is sold: no order that issued stock is edited, reopened, cancelled or
\* deleted afterwards.
SoldStaysSold ==
    [][\A o \in Orders : orders[o].issued # Nothing => orders'[o] = orders[o]]_salesVars

\* Units of v that leave w when an order completes.
Sells(order, w, v) ==
    IF order.status = "completed" /\ order.warehouse = w THEN order.quantity[v] ELSE 0

\* Units leave the shelf for an order exactly when it becomes completed, and
\* exactly as many as it lists: any other step of an order moves nothing.
OnlyCompletionShips ==
    [][\A o \in Orders : orders'[o] # orders[o] =>
        \A w \in Warehouses, v \in Variants :
            bal[<<w, v>>].onHand - bal'[<<w, v>>].onHand = Sells(orders'[o], w, v)]_salesVars
=============================================================================
