-------------------------- MODULE SalesOrdersProofs --------------------------
(***************************************************************************)
(* Proofs about sales orders, for any number of orders, variants and       *)
(* warehouses.  Two arguments: the record each service writes keeps the    *)
(* agreement of status and item quantities, and the rows each service      *)
(* settles keep the invariant of the stock engine, so the results of       *)
(* InventoryProofs hold while orders run.                                  *)
(*                                                                         *)
(* Then about the checkout and the counter, for any number of requests,    *)
(* tokens, held carts and coupon limits.  Placing and deleting an order    *)
(* and the sale of a cart are sales services and the coupon page is none,  *)
(* so both implement the sales specification and inherit its theorems;     *)
(* what is new is the bond of requests, redemptions and held carts to the  *)
(* orders they belong to.                                                  *)
(***************************************************************************)
EXTENDS Checkout, PosTerminal, InventoryProofs

\* Inductive: what a service reserves or issues is computed from quantity,
\* reserved and issued, which only the agreement with the status ties together.
SalesIInv == IInv /\ SalesTypeOK /\ StatusMatchesStock

Amounts == [Variants -> Nat]
Changes == [Variants -> Int]

\* Vectors of unit counts: what _reserve_remaining and _issue_all_reserved
\* subtract and add.
LEMMA Vectors ==
    /\ Nothing \in Amounts
    /\ Amounts \subseteq Changes
    /\ \A p, q \in Changes : Less(p, q) \in Changes /\ More(p, q) \in Changes
    /\ \A p \in Amounts : /\ Less(p, Nothing) = p
                          /\ More(Nothing, p) = p
                          /\ More(p, Nothing) = p
                          /\ Less(p, p) = Nothing
<1>1. Nothing \in Amounts /\ Amounts \subseteq Changes
  BY DEF Amounts, Changes, Nothing
<1>2. \A p, q \in Changes : Less(p, q) \in Changes /\ More(p, q) \in Changes
  BY DEF Changes, Less, More
<1>3. ASSUME NEW p \in Amounts
      PROVE  /\ Less(p, Nothing) = p
             /\ More(Nothing, p) = p
             /\ More(p, Nothing) = p
             /\ Less(p, p) = Nothing
  <2>1. p = [v \in Variants |-> p[v]] /\ \A v \in Variants : p[v] \in Nat
    BY DEF Amounts
  <2> QED
    BY <2>1 DEF Less, More, Nothing
<1> QED
  BY <1>1, <1>2, <1>3

\* What an order that agrees with its status still has to reserve and to issue.
LEMMA Outstanding ==
    ASSUME NEW order \in OrderType, Agrees(order)
    PROVE  /\ order.status = "draft" => Remaining(order) = order.quantity
           /\ order.status \in Reserving => Remaining(order) = Nothing
           /\ order.status \in Editable \cup Reserving => Unissued(order) = order.quantity
<1>1. order.quantity \in Amounts /\ order.status \in Statuses
  BY DEF OrderType, Amounts
<1>2. Less(order.quantity, Nothing) = order.quantity /\ Less(order.quantity, order.quantity) = Nothing
  BY <1>1, Vectors
<1> QED
  BY <1>2 DEF Agrees, Remaining, Unissued, Editable, Reserving

\* Writing one order that agrees with its status.
LEMMA WriteOrder ==
    ASSUME SalesTypeOK, StatusMatchesStock, NEW o \in Orders,
           NEW x \in OrderType, Agrees(x), orders' = [orders EXCEPT ![o] = x]
    PROVE  SalesTypeOK' /\ StatusMatchesStock'
  BY DEF SalesTypeOK, StatusMatchesStock

\* The rows an order moves are rows again, of integers until they are allowed.
LEMMA ShiftedType ==
    ASSUME NEW b \in [Keys -> [onHand : Int, reserved : Int]],
           NEW w, NEW dq \in Changes, NEW dr \in Changes
    PROVE  Shifted(b, w, dq, dr) \in [Keys -> [onHand : Int, reserved : Int]]
<1>1. ASSUME NEW k \in Keys
      PROVE  /\ b[k] \in [onHand : Int, reserved : Int]
             /\ dq[k[2]] \in Int /\ dr[k[2]] \in Int
  BY DEF Keys, Changes
<1> QED
  BY <1>1 DEF Shifted

\* Settling allowed rows is a justified commit of the stock engine.
LEMMA SettlePreserves ==
    ASSUME IInv, NEW b \in [Keys -> [onHand : Int, reserved : Int]], Allowed(b), Settle(b)
    PROVE  IInv'
<1> DEFINE moves == [k \in {j \in Keys : b[j] # bal[j]} |->
                        Delta(b[k].onHand - bal[k].onHand, b[k].reserved - bal[k].reserved)]
<1>1. ASSUME NEW k \in Keys
      PROVE  /\ b[k] \in Rows
             /\ b[k].reserved <= b[k].onHand
  BY DEF Allowed, RowAllowed, Rows
<1>2. ASSUME NEW k \in DOMAIN moves
      PROVE  /\ moves[k] \in [qty : Int, res : Int]
             /\ b[k].onHand = bal[k].onHand + moves[k].qty
             /\ b[k].reserved = bal[k].reserved + moves[k].res
  <2>1. moves[k] = [qty |-> b[k].onHand - bal[k].onHand, res |-> b[k].reserved - bal[k].reserved]
    BY DEF Delta
  <2>2. /\ bal[k].onHand \in Nat /\ bal[k].reserved \in Nat
        /\ b[k].onHand \in Int /\ b[k].reserved \in Int
    BY DEF IInv, TypeOK
  <2> QED
    BY <2>1, <2>2
<1>3. b \in [Keys -> Rows]
  BY <1>1
<1>4. \A k \in Keys : k \notin DOMAIN moves => b[k] = bal[k]
  OBVIOUS
<1>5. Commit(b, moves)
  BY DEF Settle
<1> HIDE DEF moves
<1>6. DOMAIN moves \subseteq Keys
  BY DEF moves
<1>7. Justified(b, moves)
  BY <1>1, <1>2, <1>3, <1>4, <1>6 DEF Justified
<1> QED
  BY <1>5, <1>7, CommitPreserves

-----------------------------------------------------------------------------

\* Facts about an order that every step below starts from.
LEMMA OrderFacts ==
    ASSUME SalesIInv, NEW o \in Orders
    PROVE  /\ orders[o] \in OrderType /\ Agrees(orders[o])
           /\ bal \in [Keys -> [onHand : Int, reserved : Int]]
           /\ Released(bal, orders[o]) \in [Keys -> [onHand : Int, reserved : Int]]
           /\ Nothing \in Changes
<1>1. orders[o] \in OrderType /\ Agrees(orders[o])
  BY DEF SalesIInv, SalesTypeOK, StatusMatchesStock
<1>2. bal \in [Keys -> [onHand : Int, reserved : Int]]
  BY DEF SalesIInv, IInv, TypeOK
<1>3. Nothing \in Changes /\ Less(Nothing, orders[o].reserved) \in Changes
  <2>1. orders[o].reserved \in Changes
    BY <1>1 DEF OrderType, Changes
  <2> QED
    BY <2>1, Vectors
<1>4. Released(bal, orders[o]) \in [Keys -> [onHand : Int, reserved : Int]]
  BY <1>2, <1>3, ShiftedType DEF Released
<1> QED
  BY <1>1, <1>2, <1>3, <1>4

\* Reserving and issuing keep rows of integers, whatever rows they start from.
LEMMA ReservedType ==
    ASSUME NEW b \in [Keys -> [onHand : Int, reserved : Int]], NEW order \in OrderType
    PROVE  /\ Reserved(b, order) \in [Keys -> [onHand : Int, reserved : Int]]
           /\ Issued(b, order) \in [Keys -> [onHand : Int, reserved : Int]]
<1>1. /\ order.quantity \in Changes /\ order.issued \in Changes
      /\ order.reserved \in Changes /\ Nothing \in Changes
  BY Vectors DEF OrderType, Amounts
<1>2. Remaining(order) \in Changes /\ Less(Nothing, Unissued(order)) \in Changes
  BY <1>1, Vectors DEF Remaining, Unissued
<1> QED
  BY <1>1, <1>2, ShiftedType DEF Reserved, Issued

\* save_sales_order: the release of the old items and the reservation of the
\* new ones end in rows the engine allows.
LEMMA SavePreserves ==
    ASSUME SalesIInv, NEW o \in Orders, NEW status \in Editable,
           NEW w \in Warehouses, NEW items \in Amounts,
           SaveSalesOrder(o, status, w, items)
    PROVE  SalesIInv'
<1> DEFINE released == Released(bal, orders[o])
           saved == Saved(status, w, items)
           taken == Reserved(released, saved)
<1>1. saved \in OrderType
  BY Vectors DEF Saved, OrderType, Amounts, Editable, Statuses
<1>2. CASE /\ status = "draft"
           /\ orders' = [orders EXCEPT ![o] = saved]
           /\ Settle(released)
  <2>1. Agrees(saved)
    BY <1>2 DEF Saved, Agrees, Reserving
  <2>2. SalesTypeOK' /\ StatusMatchesStock'
    BY <1>1, <1>2, <2>1, WriteOrder DEF SalesIInv
  <2>3. IInv'
    BY <1>2, OrderFacts, SettlePreserves DEF SaveSalesOrder, SalesIInv
  <2> QED
    BY <2>2, <2>3 DEF SalesIInv
<1>3. CASE /\ status = "pending"
           /\ Allowed(taken)
           /\ orders' = [orders EXCEPT ![o] = [saved EXCEPT !.reserved = items]]
           /\ Settle(taken)
  <2>1. [saved EXCEPT !.reserved = items] \in OrderType
    BY <1>1 DEF Saved, OrderType, Amounts
  <2>2. Agrees([saved EXCEPT !.reserved = items])
    BY <1>3 DEF Saved, Agrees, Reserving
  <2>3. SalesTypeOK' /\ StatusMatchesStock'
    BY <1>3, <2>1, <2>2, WriteOrder DEF SalesIInv
  <2>4. taken \in [Keys -> [onHand : Int, reserved : Int]]
    BY <1>1, OrderFacts, ReservedType
  <2>5. IInv'
    BY <1>3, <2>4, SettlePreserves DEF SalesIInv
  <2> QED
    BY <2>3, <2>5 DEF SalesIInv
<1> QED
  BY <1>2, <1>3 DEF SaveSalesOrder

\* transition_order to a reserving status.
LEMMA MovePreserves ==
    ASSUME SalesIInv, NEW o \in Orders, NEW new, MoveToReserving(o, new)
    PROVE  SalesIInv'
<1> DEFINE order == orders[o]
           x == [order EXCEPT !.status = new, !.reserved = More(@, Remaining(order))]
<1>1. /\ order \in OrderType /\ Agrees(order)
      /\ new \in Reserving /\ new \in AllowedTransitions[order.status]
      /\ orders' = [orders EXCEPT ![o] = x]
      /\ Allowed(Reserved(bal, order)) /\ Settle(Reserved(bal, order))
  BY OrderFacts DEF MoveToReserving
<1>2. order.status \in {"draft"} \cup Reserving
  BY <1>1 DEF AllowedTransitions, OrderType, Statuses, Editable, Reserving
<1>3. /\ order.quantity \in Amounts /\ order.reserved \in Amounts
      /\ order.issued = Nothing
  BY <1>1, <1>2 DEF OrderType, Amounts, Agrees
<1>4. More(order.reserved, Remaining(order)) = order.quantity
  <2>1. CASE order.status = "draft"
    BY <1>1, <1>3, <2>1, Outstanding, Vectors DEF Agrees
  <2>2. CASE order.status \in Reserving
    BY <1>1, <1>3, <2>2, Outstanding, Vectors DEF Agrees
  <2> QED
    BY <1>2, <2>1, <2>2
<1>5. x = [order EXCEPT !.status = new, !.reserved = order.quantity]
  BY <1>4
<1>6. x \in OrderType /\ Agrees(x)
  BY <1>1, <1>3, <1>5 DEF OrderType, Amounts, Statuses, Agrees, Reserving
<1>7. SalesTypeOK' /\ StatusMatchesStock'
  BY <1>1, <1>6, WriteOrder DEF SalesIInv
<1>8. IInv'
  BY <1>1, OrderFacts, ReservedType, SettlePreserves DEF SalesIInv
<1> QED
  BY <1>7, <1>8 DEF SalesIInv

\* transition_order to COMPLETED.
LEMMA CompletePreserves ==
    ASSUME SalesIInv, NEW o \in Orders, CompleteOrder(o)
    PROVE  SalesIInv'
<1> DEFINE order == orders[o]
           taken == Reserved(bal, order)
           x == [order EXCEPT !.status = "completed",
                              !.reserved = Less(More(@, Remaining(order)), Unissued(order)),
                              !.issued = More(@, Unissued(order))]
<1>1. /\ order \in OrderType /\ Agrees(order)
      /\ "completed" \in AllowedTransitions[order.status]
      /\ orders' = [orders EXCEPT ![o] = x]
      /\ Allowed(Issued(taken, order)) /\ Settle(Issued(taken, order))
  BY OrderFacts DEF CompleteOrder
<1>2. order.status \in Reserving
  BY <1>1 DEF AllowedTransitions, OrderType, Statuses, Editable, Reserving
<1>3. /\ order.quantity \in Amounts /\ order.reserved = order.quantity
      /\ order.issued = Nothing
  BY <1>1, <1>2 DEF OrderType, Amounts, Agrees
<1>4. Remaining(order) = Nothing /\ Unissued(order) = order.quantity
  BY <1>1, <1>2, Outstanding
<1>5. /\ Less(More(order.reserved, Remaining(order)), Unissued(order)) = Nothing
      /\ More(order.issued, Unissued(order)) = order.quantity
  BY <1>3, <1>4, Vectors
<1>6. x = [order EXCEPT !.status = "completed", !.reserved = Nothing,
                        !.issued = order.quantity]
  BY <1>5
<1>7. x \in OrderType /\ Agrees(x)
  BY <1>1, <1>3, <1>6, Vectors DEF OrderType, Amounts, Statuses, Agrees, Reserving
<1>8. SalesTypeOK' /\ StatusMatchesStock'
  BY <1>1, <1>7, WriteOrder DEF SalesIInv
<1>9. IInv'
  <2>1. taken \in [Keys -> [onHand : Int, reserved : Int]]
    BY <1>1, OrderFacts, ReservedType
  <2>2. Issued(taken, order) \in [Keys -> [onHand : Int, reserved : Int]]
    BY <1>1, <2>1, ReservedType
  <2> QED
    BY <1>1, <2>2, SettlePreserves DEF SalesIInv
<1> QED
  BY <1>8, <1>9 DEF SalesIInv

\* transition_order to CANCELLED.
LEMMA CancelPreserves ==
    ASSUME SalesIInv, NEW o \in Orders, CancelOrder(o)
    PROVE  SalesIInv'
<1> DEFINE order == orders[o]
           x == [order EXCEPT !.status = "cancelled", !.reserved = Nothing]
<1>1. /\ order \in OrderType /\ order.issued = Nothing
      /\ orders' = [orders EXCEPT ![o] = x]
      /\ Allowed(Released(bal, order)) /\ Settle(Released(bal, order))
  BY OrderFacts DEF CancelOrder
<1>2. x \in OrderType /\ Agrees(x)
  BY <1>1, Vectors DEF OrderType, Amounts, Statuses, Agrees, Reserving
<1>3. SalesTypeOK' /\ StatusMatchesStock'
  BY <1>1, <1>2, WriteOrder DEF SalesIInv
<1>4. IInv'
  BY <1>1, OrderFacts, SettlePreserves DEF SalesIInv
<1> QED
  BY <1>3, <1>4 DEF SalesIInv

\* delete_draft_order.
LEMMA DeletePreserves ==
    ASSUME SalesIInv, NEW o \in Orders, DeleteDraftOrder(o)
    PROVE  SalesIInv'
<1>1. NoOrder \in OrderType /\ Agrees(NoOrder)
  BY InventoryAssumption, Vectors DEF NoOrder, OrderType, Amounts, Statuses, Agrees, Reserving
<1>2. SalesTypeOK' /\ StatusMatchesStock'
  BY <1>1, WriteOrder DEF DeleteDraftOrder, SalesIInv
<1>3. IInv'
  BY DEF DeleteDraftOrder, SalesIInv, invVars, IInv, TypeOK, ReservedWithinOnHand,
         LedgerExplainsBalance, SnapshotCurrent, CacheFresh, VariantAvailable, Available
<1> QED
  BY <1>2, <1>3 DEF SalesIInv

\* complete_pos_sale: three services in one transaction.
LEMMA PosSalePreserves ==
    ASSUME SalesIInv, NEW o \in Orders, NEW w \in Warehouses, NEW items \in Amounts,
           CompletePosSale(o, w, items)
    PROVE  SalesIInv'
<1> DEFINE released == Released(bal, orders[o])
           sold == Saved("completed", w, items)
           shipped == Issued(Reserved(released, sold), sold)
           x == [sold EXCEPT !.issued = items]
<1>1. sold \in OrderType
  BY Vectors DEF Saved, OrderType, Amounts, Statuses
<1>2. x \in OrderType /\ Agrees(x)
  BY <1>1 DEF Saved, OrderType, Amounts, Agrees, Reserving
<1>3. /\ orders' = [orders EXCEPT ![o] = x]
      /\ Allowed(shipped) /\ Settle(shipped)
  BY DEF CompletePosSale
<1>4. SalesTypeOK' /\ StatusMatchesStock'
  BY <1>2, <1>3, WriteOrder DEF SalesIInv
<1>5. IInv'
  <2>1. Reserved(released, sold) \in [Keys -> [onHand : Int, reserved : Int]]
    BY <1>1, OrderFacts, ReservedType
  <2>2. shipped \in [Keys -> [onHand : Int, reserved : Int]]
    BY <1>1, <2>1, ReservedType
  <2> QED
    BY <1>3, <2>2, SettlePreserves DEF SalesIInv
<1> QED
  BY <1>4, <1>5 DEF SalesIInv

-----------------------------------------------------------------------------

LEMMA SalesInitSalesIInv == SalesInit => SalesIInv
<1> SUFFICES ASSUME SalesInit PROVE SalesIInv
  OBVIOUS
<1>1. NoOrder \in OrderType /\ Agrees(NoOrder)
  BY InventoryAssumption, Vectors DEF NoOrder, OrderType, Amounts, Statuses, Agrees, Reserving
<1> QED
  BY <1>1, InvInitIInv DEF SalesInit, SalesIInv, SalesTypeOK, StatusMatchesStock

LEMMA SalesNextSalesIInv == SalesIInv /\ [SalesNext]_salesVars => SalesIInv'
<1> SUFFICES ASSUME SalesIInv, [SalesNext]_salesVars PROVE SalesIInv'
  OBVIOUS
<1>1. ItemRows \subseteq Amounts
  BY InventoryAssumption DEF ItemRows, Amounts
<1>2. CASE Save
  BY <1>1, <1>2, SavePreserves DEF Save
<1>3. CASE Move
  BY <1>3, MovePreserves DEF Move
<1>4. CASE Complete
  BY <1>4, CompletePreserves DEF Complete
<1>5. CASE Cancel
  BY <1>5, CancelPreserves DEF Cancel
<1>6. CASE Delete
  BY <1>6, DeletePreserves DEF Delete
<1>7. CASE PosSale
  BY <1>1, <1>7, PosSalePreserves DEF PosSale
<1>8. CASE OtherStock
  <2>1. IInv'
    BY <1>8, InvNextIInv DEF OtherStock, InvNext, SalesIInv
  <2> QED
    BY <1>8, <2>1 DEF OtherStock, SalesIInv, SalesTypeOK, StatusMatchesStock
<1>9. CASE UNCHANGED salesVars
  <2>1. UNCHANGED invVars /\ UNCHANGED orders
    BY <1>9 DEF salesVars, invVars
  <2>2. IInv'
    BY <2>1, InvNextIInv DEF SalesIInv
  <2> QED
    BY <2>1, <2>2 DEF SalesIInv, SalesTypeOK, StatusMatchesStock
<1> QED
  BY <1>2, <1>3, <1>4, <1>5, <1>6, <1>7, <1>8, <1>9 DEF SalesNext

\* The sales services, for any number of orders and interleaved with every
\* other stock operation, keep orders well typed and in agreement with the
\* units they hold.
THEOREM SalesStatusMatchesStock == SalesSpec => [](SalesTypeOK /\ StatusMatchesStock)
<1>1. SalesIInv => SalesTypeOK /\ StatusMatchesStock
  BY DEF SalesIInv
<1> QED
  BY <1>1, SalesInitSalesIInv, SalesNextSalesIInv, PTL DEF SalesSpec

\* The invariant of the stock engine survives multi-item orders: whatever
\* orders do, no row is promised beyond its units, the ledger explains every
\* row and the storefront figure is fresh.
THEOREM SalesKeepInventory ==
    SalesSpec => [](ReservedWithinOnHand /\ LedgerExplainsBalance /\ CacheFresh)
<1>1. SalesIInv => ReservedWithinOnHand /\ LedgerExplainsBalance /\ CacheFresh
  BY DEF SalesIInv, IInv
<1> QED
  BY <1>1, SalesInitSalesIInv, SalesNextSalesIInv, PTL DEF SalesSpec

\* No service writes a completed order.
LEMMA SoldIsKept ==
    ASSUME SalesIInv, SalesNext, NEW o \in Orders, orders[o].status = "completed"
    PROVE  orders'[o] = orders[o]
<1>1. orders \in [Orders -> OrderType]
  BY DEF SalesIInv, SalesTypeOK
<1>2. AllowedTransitions[orders[o].status] = {}
  BY DEF AllowedTransitions, Statuses
<1>3. CASE Save
  BY <1>1, <1>3 DEF Save, SaveSalesOrder, Editable
<1>4. CASE Move
  BY <1>1, <1>2, <1>4 DEF Move, MoveToReserving
<1>5. CASE Complete
  BY <1>1, <1>2, <1>5 DEF Complete, CompleteOrder
<1>6. CASE Cancel
  BY <1>1, <1>2, <1>6 DEF Cancel, CancelOrder
<1>7. CASE Delete
  BY <1>1, <1>7 DEF Delete, DeleteDraftOrder
<1>8. CASE PosSale
  BY <1>1, <1>8 DEF PosSale, CompletePosSale, Editable
<1>9. CASE OtherStock
  BY <1>9 DEF OtherStock
<1> QED
  BY <1>3, <1>4, <1>5, <1>6, <1>7, <1>8, <1>9 DEF SalesNext

\* An order that issued stock is never written again.
THEOREM SalesSoldStaysSold == SalesSpec => SoldStaysSold
<1>1. ASSUME SalesIInv, [SalesNext]_salesVars
      PROVE  [\A o \in Orders : orders[o].issued # Nothing => orders'[o] = orders[o]]_salesVars
  <2> SUFFICES ASSUME SalesNext, NEW o \in Orders, orders[o].issued # Nothing
               PROVE  orders'[o] = orders[o]
    BY <1>1
  <2>1. orders[o] \in OrderType /\ Agrees(orders[o])
    BY <1>1 DEF SalesIInv, SalesTypeOK, StatusMatchesStock
  <2>2. orders[o].status = "completed"
    BY <2>1 DEF Agrees, OrderType, Statuses, Editable, Reserving
  <2> QED
    BY <1>1, <2>2, SoldIsKept
<1> QED
  BY <1>1, SalesInitSalesIInv, SalesNextSalesIInv, PTL DEF SalesSpec, SoldStaysSold

-----------------------------------------------------------------------------
(* Reservations.  Each service of an order moves the reservation of a row by *)
(* what the order holds in it, before and after; the sum over the orders     *)
(* moves alike.                                                              *)

\* No line of an order is larger than a row can be.
QuantitiesBounded == \A o \in Orders : orders[o].quantity \in [Variants -> 0 .. MaxQty]

\* Inductive: ReservationsBacked needs the agreement of status and items, which
\* says what an order holds, and a bound on it, which the sum has.
BackedIInv == SalesIInv /\ QuantitiesBounded /\ ReservationsBacked

\* Rows of integers: what a service computes before they are allowed.
IntRows == [Keys -> [onHand : Int, reserved : Int]]

\* The order o became x, and rows moved by what it holds and sells.
OrderStep(o, x) ==
    /\ orders' = [orders EXCEPT ![o] = x]
    /\ x \in OrderType /\ Agrees(x) /\ x.quantity \in [Variants -> 0 .. MaxQty]
    /\ \A w \in Warehouses, v \in Variants :
          /\ bal'[<<w, v>>].reserved
               = bal[<<w, v>>].reserved - Holds(orders[o], w, v) + Holds(x, w, v)
          /\ bal[<<w, v>>].onHand - bal'[<<w, v>>].onHand = Sells(x, w, v)

\* The rows c are b with dq and dr added in the warehouse x and nowhere else.
RowsShift(c, b, x, dq, dr) ==
    \A w \in Warehouses, v \in Variants :
        /\ c[<<w, v>>].onHand = b[<<w, v>>].onHand + (IF x = w THEN dq[v] ELSE 0)
        /\ c[<<w, v>>].reserved = b[<<w, v>>].reserved + (IF x = w THEN dr[v] ELSE 0)

\* Moving an order's units shifts each row of its warehouse and no other.
LEMMA ShiftedRow ==
    ASSUME NEW b \in IntRows, NEW x, NEW dq \in Changes, NEW dr \in Changes
    PROVE  RowsShift(Shifted(b, x, dq, dr), b, x, dq, dr)
<1> SUFFICES ASSUME NEW w \in Warehouses, NEW v \in Variants
             PROVE  /\ Shifted(b, x, dq, dr)[<<w, v>>].onHand
                         = b[<<w, v>>].onHand + (IF x = w THEN dq[v] ELSE 0)
                    /\ Shifted(b, x, dq, dr)[<<w, v>>].reserved
                         = b[<<w, v>>].reserved + (IF x = w THEN dr[v] ELSE 0)
  BY DEF RowsShift
<1> DEFINE k == <<w, v>>
<1>1. k \in Keys /\ k[1] = w /\ k[2] = v
  BY DEF Keys
<1>2. b[k].onHand \in Int /\ b[k].reserved \in Int
  BY <1>1 DEF IntRows
<1>3. Shifted(b, x, dq, dr)[k]
        = IF w = x THEN [onHand |-> b[k].onHand + dq[v], reserved |-> b[k].reserved + dr[v]]
          ELSE b[k]
  BY <1>1 DEF Shifted
<1>4. dq[v] \in Int /\ dr[v] \in Int
  BY DEF Changes
<1>5. CASE x = w
  BY <1>2, <1>3, <1>4, <1>5
<1>6. CASE x # w
  BY <1>2, <1>3, <1>6
<1> QED
  BY <1>5, <1>6

\* What an order that agrees with its status holds is bounded.
LEMMA HoldsBounded ==
    ASSUME NEW x \in OrderType, Agrees(x), x.quantity \in [Variants -> 0 .. MaxQty],
           NEW w \in Warehouses, NEW v \in Variants
    PROVE  Holds(x, w, v) \in 0 .. MaxQty
<1>1. x.reserved = x.quantity \/ x.reserved = Nothing
  BY DEF Agrees, OrderType, Statuses, Editable, Reserving
<1>2. 0 \in 0 .. MaxQty
  BY InventoryAssumption
<1> QED
  BY <1>1, <1>2 DEF Holds, Nothing

\* What the orders hold together is what one of them holds and the rest; after
\* that one was written, it is what it holds now and the same rest.
LEMMA HeldSplits ==
    ASSUME SalesIInv, QuantitiesBounded, NEW o \in Orders,
           NEW w \in Warehouses, NEW v \in Variants
    PROVE  \E rest \in Nat :
             /\ HeldByOrders(w, v) = rest + Holds(orders[o], w, v)
             /\ \A x \in OrderType :
                   /\ Agrees(x)
                   /\ x.quantity \in [Variants -> 0 .. MaxQty]
                   /\ orders' = [orders EXCEPT ![o] = x]
                   => HeldByOrders(w, v)' = rest + Holds(x, w, v)
<1> DEFINE col == [p \in Orders |-> Holds(orders[p], w, v)]
           others == [p \in Orders |-> IF p = o THEN 0 ELSE col[p]]
           Only(n) == [p \in Orders |-> IF p = o THEN n ELSE 0]
<1>1. IsFiniteSet(Orders) /\ MaxQty \in Nat
  BY SalesAssumption, InventoryAssumption
<1>2. \A p \in Orders : Holds(orders[p], w, v) \in 0 .. MaxQty
  BY HoldsBounded DEF SalesIInv, SalesTypeOK, StatusMatchesStock, QuantitiesBounded
<1>3. others \in [Orders -> 0 .. MaxQty]
  BY <1>1, <1>2
<1>4. ASSUME NEW n \in 0 .. MaxQty, NEW c \in [Orders -> 0 .. MaxQty],
             c[o] = n, \A p \in Orders : p # o => c[p] = col[p]
      PROVE  Total(c, MaxQty) = Total(others, MaxQty) + n
  <2>1. Only(n) \in [Orders -> 0 .. MaxQty]
    BY <1>1
  <2>2. \A p \in Orders : c[p] = others[p] + Only(n)[p]
    BY <1>2, <1>4
  <2>3. Total(Only(n), MaxQty) = n
    BY <1>1, TotalSingle
  <2> HIDE DEF others, Only, col
  <2>4. Total(c, MaxQty) = Total(others, MaxQty) + Total(Only(n), MaxQty)
    BY <1>1, <1>3, <1>4, <2>1, <2>2, TotalAdds
  <2> QED
    BY <2>3, <2>4
<1>5. Total(others, MaxQty) \in Nat
  BY <1>1, <1>3, TotalNat
<1>6. HeldByOrders(w, v) = Total(others, MaxQty) + Holds(orders[o], w, v)
  <2>1. col \in [Orders -> 0 .. MaxQty] /\ col[o] = Holds(orders[o], w, v)
    BY <1>2
  <2> HIDE DEF others
  <2> QED
    BY <1>2, <1>4, <2>1 DEF HeldByOrders
<1>7. ASSUME NEW x \in OrderType, Agrees(x), x.quantity \in [Variants -> 0 .. MaxQty],
             orders' = [orders EXCEPT ![o] = x]
      PROVE  HeldByOrders(w, v)' = Total(others, MaxQty) + Holds(x, w, v)
  <2> DEFINE c == [p \in Orders |-> Holds(orders'[p], w, v)]
  <2>1. Holds(x, w, v) \in 0 .. MaxQty
    BY <1>7, HoldsBounded
  <2>2. orders'[o] = x /\ \A p \in Orders : p # o => orders'[p] = orders[p]
    BY <1>7 DEF SalesIInv, SalesTypeOK
  <2>3. \A p \in Orders : c[p] \in 0 .. MaxQty
    BY <1>2, <2>1, <2>2
  <2>4. c \in [Orders -> 0 .. MaxQty] /\ c[o] = Holds(x, w, v)
        /\ \A p \in Orders : p # o => c[p] = col[p]
    BY <2>2, <2>3
  <2> HIDE DEF others
  <2>5. Total(c, MaxQty) = Total(others, MaxQty) + Holds(x, w, v)
    BY <1>4, <2>1, <2>4
  <2> QED
    BY <2>5 DEF HeldByOrders
<1> QED
  BY <1>5, <1>6, <1>7

\* Row by row: the release gives back what the order holds, reserving takes
\* what it has left to reserve, issuing ships what it has left to issue.
LEMMA ReleasedRow ==
    ASSUME SalesIInv, NEW o \in Orders, NEW w \in Warehouses, NEW v \in Variants
    PROVE  /\ Released(bal, orders[o])[<<w, v>>].onHand = bal[<<w, v>>].onHand
           /\ Released(bal, orders[o])[<<w, v>>].reserved
                = bal[<<w, v>>].reserved - Holds(orders[o], w, v)
<1> DEFINE order == orders[o]
<1>1. order \in OrderType /\ bal \in IntRows
  BY OrderFacts DEF IntRows
<1>2. order.reserved \in [Variants -> Nat]
  BY <1>1 DEF OrderType
<1>3. Nothing \in Changes /\ Less(Nothing, order.reserved) \in Changes
  BY <1>2, Vectors DEF Amounts
<1>4. Nothing[v] = 0 /\ Less(Nothing, order.reserved)[v] = 0 - order.reserved[v]
  BY DEF Nothing, Less
<1>5. <<w, v>> \in Keys
  BY DEF Keys
<1>6. bal[<<w, v>>].onHand \in Int /\ bal[<<w, v>>].reserved \in Int /\ order.reserved[v] \in Nat
  BY <1>1, <1>2, <1>5 DEF IntRows
<1> HIDE DEF order
<1>7. RowsShift(Released(bal, order), bal, order.warehouse,
                Nothing, Less(Nothing, order.reserved))
  BY <1>1, <1>3, ShiftedRow DEF Released
<1>8. /\ Released(bal, order)[<<w, v>>].onHand
           = bal[<<w, v>>].onHand + (IF order.warehouse = w THEN Nothing[v] ELSE 0)
      /\ Released(bal, order)[<<w, v>>].reserved
           = bal[<<w, v>>].reserved
               + (IF order.warehouse = w THEN Less(Nothing, order.reserved)[v] ELSE 0)
  BY <1>7 DEF RowsShift
<1>9. CASE order.warehouse = w
  BY <1>4, <1>6, <1>8, <1>9 DEF Holds, order
<1>10. CASE order.warehouse # w
  BY <1>4, <1>6, <1>8, <1>10 DEF Holds, order
<1> QED
  BY <1>9, <1>10

LEMMA ReservedRow ==
    ASSUME NEW b \in IntRows, NEW x \in OrderType,
           NEW w \in Warehouses, NEW v \in Variants
    PROVE  /\ Reserved(b, x)[<<w, v>>].onHand = b[<<w, v>>].onHand
           /\ Reserved(b, x)[<<w, v>>].reserved
                = b[<<w, v>>].reserved + (IF x.warehouse = w THEN Remaining(x)[v] ELSE 0)
<1>1. Nothing \in Changes /\ Remaining(x) \in Changes
  BY Vectors DEF OrderType, Amounts, Remaining
<1>2. <<w, v>> \in Keys /\ Nothing[v] = 0
  BY DEF Keys, Nothing
<1>3. b[<<w, v>>].onHand \in Int
  BY <1>2 DEF IntRows
<1>4. RowsShift(Reserved(b, x), b, x.warehouse, Nothing, Remaining(x))
  BY <1>1, ShiftedRow DEF Reserved
<1>5. /\ Reserved(b, x)[<<w, v>>].onHand
           = b[<<w, v>>].onHand + (IF x.warehouse = w THEN Nothing[v] ELSE 0)
      /\ Reserved(b, x)[<<w, v>>].reserved
           = b[<<w, v>>].reserved + (IF x.warehouse = w THEN Remaining(x)[v] ELSE 0)
  BY <1>4 DEF RowsShift
<1> QED
  BY <1>2, <1>3, <1>5

LEMMA IssuedRow ==
    ASSUME NEW b \in IntRows, NEW x \in OrderType,
           NEW w \in Warehouses, NEW v \in Variants
    PROVE  /\ Issued(b, x)[<<w, v>>].onHand
                = b[<<w, v>>].onHand - (IF x.warehouse = w THEN Unissued(x)[v] ELSE 0)
           /\ Issued(b, x)[<<w, v>>].reserved
                = b[<<w, v>>].reserved - (IF x.warehouse = w THEN Unissued(x)[v] ELSE 0)
<1> DEFINE out == Less(Nothing, Unissued(x))
<1>1. Unissued(x) \in Changes /\ out \in Changes
  BY Vectors DEF OrderType, Amounts, Unissued
<1>2. <<w, v>> \in Keys /\ Unissued(x)[v] \in Int /\ out[v] = 0 - Unissued(x)[v]
  BY <1>1 DEF Keys, Less, Nothing, Changes
<1>3. b[<<w, v>>].onHand \in Int /\ b[<<w, v>>].reserved \in Int
  BY <1>2 DEF IntRows
<1> HIDE DEF out
<1>4. RowsShift(Issued(b, x), b, x.warehouse, out, out)
  BY <1>1, ShiftedRow DEF Issued, out
<1>5. /\ Issued(b, x)[<<w, v>>].onHand
           = b[<<w, v>>].onHand + (IF x.warehouse = w THEN out[v] ELSE 0)
      /\ Issued(b, x)[<<w, v>>].reserved
           = b[<<w, v>>].reserved + (IF x.warehouse = w THEN out[v] ELSE 0)
  BY <1>4 DEF RowsShift
<1> QED
  BY <1>2, <1>3, <1>5

\* Every service of an order is such a step.
LEMMA SaveStep ==
    ASSUME SalesIInv, NEW o \in Orders, NEW status \in Editable,
           NEW w \in Warehouses, NEW items \in [Variants -> 0 .. MaxQty],
           SaveSalesOrder(o, status, w, items)
    PROVE  \E x : OrderStep(o, x)
<1> DEFINE released == Released(bal, orders[o])
           saved == Saved(status, w, items)
           taken == Reserved(released, saved)
<1>1. items \in Amounts /\ released \in IntRows /\ bal \in IntRows
  BY OrderFacts, InventoryAssumption DEF Amounts, IntRows
<1>2. saved \in OrderType
  BY <1>1, Vectors DEF Saved, OrderType, Amounts, Editable, Statuses
<1>3. ASSUME NEW x \in Warehouses, NEW v \in Variants
      PROVE  /\ released[<<x, v>>].onHand = bal[<<x, v>>].onHand
             /\ released[<<x, v>>].reserved = bal[<<x, v>>].reserved - Holds(orders[o], x, v)
             /\ bal[<<x, v>>].onHand \in Int /\ released[<<x, v>>].reserved \in Int
  <2>1. <<x, v>> \in Keys
    BY DEF Keys
  <2> QED
    BY <1>1, <2>1, ReleasedRow DEF IntRows
<1>4. CASE status = "draft" /\ orders' = [orders EXCEPT ![o] = saved] /\ Settle(released)
  <2>1. Agrees(saved) /\ saved.quantity = items
    BY <1>4 DEF Saved, Agrees, Reserving
  <2>2. bal' = released
    BY <1>4 DEF Settle, Commit
  <2>3. \A x \in Warehouses, v \in Variants : Holds(saved, x, v) = 0 /\ Sells(saved, x, v) = 0
    BY <1>4 DEF Holds, Sells, Saved, Nothing
  <2> HIDE DEF saved, released
  <2>4. OrderStep(o, saved)
    BY <1>2, <1>3, <1>4, <2>1, <2>2, <2>3 DEF OrderStep
  <2> QED
    BY <2>4
<1>5. CASE /\ status = "pending"
           /\ orders' = [orders EXCEPT ![o] = [saved EXCEPT !.reserved = items]]
           /\ Settle(taken)
  <2> DEFINE x0 == [saved EXCEPT !.reserved = items]
  <2>1. x0 \in OrderType /\ Agrees(x0) /\ x0.quantity = items
    BY <1>1, <1>2, <1>5 DEF Saved, OrderType, Amounts, Agrees, Reserving
  <2>2. bal' = taken
    BY <1>5 DEF Settle, Commit
  <2>3. Remaining(saved) = items
    BY <1>1, Vectors DEF Saved, Remaining
  <2>4. ASSUME NEW x \in Warehouses, NEW v \in Variants
        PROVE  /\ taken[<<x, v>>].onHand = released[<<x, v>>].onHand
               /\ taken[<<x, v>>].reserved = released[<<x, v>>].reserved + Holds(x0, x, v)
               /\ Sells(x0, x, v) = 0
    <3>1. Holds(x0, x, v) = (IF w = x THEN items[v] ELSE 0) /\ Sells(x0, x, v) = 0
      BY <1>5 DEF Holds, Sells, Saved
    <3>2. saved.warehouse = w
      BY DEF Saved
    <3> HIDE DEF saved, released, x0
    <3> QED
      BY <1>1, <1>2, <2>3, <3>1, <3>2, ReservedRow
  <2> HIDE DEF taken, released, x0
  <2>5. OrderStep(o, x0)
    BY <1>3, <1>5, <2>1, <2>2, <2>4 DEF OrderStep, x0
  <2> QED
    BY <2>5
<1> QED
  BY <1>4, <1>5 DEF SaveSalesOrder

LEMMA MoveStep ==
    ASSUME SalesIInv, QuantitiesBounded, NEW o \in Orders, NEW new, MoveToReserving(o, new)
    PROVE  \E x : OrderStep(o, x)
<1> DEFINE order == orders[o]
           x0 == [order EXCEPT !.status = new, !.reserved = order.quantity]
<1>1. /\ order \in OrderType /\ Agrees(order) /\ bal \in IntRows
      /\ new \in Reserving /\ new \in AllowedTransitions[order.status]
      /\ bal' = Reserved(bal, order)
      /\ orders' = [orders EXCEPT ![o] =
                       [order EXCEPT !.status = new, !.reserved = More(@, Remaining(order))]]
      /\ order.quantity \in [Variants -> 0 .. MaxQty]
  BY OrderFacts DEF MoveToReserving, Settle, Commit, IntRows, QuantitiesBounded
<1>2. order.status \in {"draft"} \cup Reserving
  BY <1>1 DEF AllowedTransitions, OrderType, Statuses, Editable, Reserving
<1>3. /\ order.quantity \in Amounts /\ order.reserved \in Amounts
      /\ order.issued = Nothing
  BY <1>1, <1>2 DEF OrderType, Amounts, Agrees
<1>4. /\ order.status = "draft" => order.reserved = Nothing /\ Remaining(order) = order.quantity
      /\ order.status \in Reserving => order.reserved = order.quantity /\ Remaining(order) = Nothing
  BY <1>1, Outstanding DEF Agrees
<1>5. More(order.reserved, Remaining(order)) = order.quantity
  BY <1>2, <1>3, <1>4, Vectors
<1>6. orders' = [orders EXCEPT ![o] = x0]
  BY <1>1, <1>5
<1>7. x0 \in OrderType /\ Agrees(x0) /\ x0.quantity \in [Variants -> 0 .. MaxQty]
  BY <1>1, <1>3 DEF OrderType, Amounts, Statuses, Agrees, Reserving
<1>8. ASSUME NEW w \in Warehouses, NEW v \in Variants
      PROVE  /\ bal'[<<w, v>>].reserved
                  = bal[<<w, v>>].reserved - Holds(order, w, v) + Holds(x0, w, v)
             /\ bal[<<w, v>>].onHand - bal'[<<w, v>>].onHand = Sells(x0, w, v)
  <2>1. /\ bal'[<<w, v>>].onHand = bal[<<w, v>>].onHand
        /\ bal'[<<w, v>>].reserved
             = bal[<<w, v>>].reserved + (IF order.warehouse = w THEN Remaining(order)[v] ELSE 0)
    <3> HIDE DEF order
    <3> QED
      BY <1>1, ReservedRow
  <2>2. Holds(x0, w, v) = (IF order.warehouse = w THEN order.quantity[v] ELSE 0)
        /\ Sells(x0, w, v) = 0
    BY <1>1 DEF Holds, Sells, OrderType, Reserving
  <2>3. <<w, v>> \in Keys
    BY DEF Keys
  <2>4. bal[<<w, v>>].onHand \in Int /\ bal[<<w, v>>].reserved \in Int /\ order.quantity[v] \in Nat
    BY <1>1, <1>3, <2>3 DEF IntRows, Amounts
  <2>5. CASE order.status = "draft"
    BY <1>4, <2>1, <2>2, <2>4, <2>5 DEF Holds, Nothing
  <2>6. CASE order.status \in Reserving
    BY <1>4, <2>1, <2>2, <2>4, <2>6 DEF Holds, Nothing
  <2> QED
    BY <1>2, <2>5, <2>6
<1> HIDE DEF x0
<1>9. OrderStep(o, x0)
  BY <1>6, <1>7, <1>8 DEF OrderStep
<1> QED
  BY <1>9

LEMMA CompleteStep ==
    ASSUME SalesIInv, QuantitiesBounded, NEW o \in Orders, CompleteOrder(o)
    PROVE  \E x : OrderStep(o, x)
<1> DEFINE order == orders[o]
           taken == Reserved(bal, order)
           x0 == [order EXCEPT !.status = "completed", !.reserved = Nothing,
                               !.issued = order.quantity]
<1>1. /\ order \in OrderType /\ Agrees(order) /\ bal \in IntRows
      /\ "completed" \in AllowedTransitions[order.status]
      /\ bal' = Issued(taken, order)
      /\ orders' = [orders EXCEPT ![o] =
            [order EXCEPT !.status = "completed",
                          !.reserved = Less(More(@, Remaining(order)), Unissued(order)),
                          !.issued = More(@, Unissued(order))]]
      /\ order.quantity \in [Variants -> 0 .. MaxQty]
  BY OrderFacts DEF CompleteOrder, Settle, Commit, IntRows, QuantitiesBounded
<1>2. order.status \in Reserving
  BY <1>1 DEF AllowedTransitions, OrderType, Statuses, Editable, Reserving
<1>3. /\ order.quantity \in Amounts /\ order.reserved = order.quantity
      /\ order.issued = Nothing
  BY <1>1, <1>2 DEF OrderType, Amounts, Agrees
<1>4. Remaining(order) = Nothing /\ Unissued(order) = order.quantity
  BY <1>1, <1>2, Outstanding
<1>5. /\ Less(More(order.reserved, Remaining(order)), Unissued(order)) = Nothing
      /\ More(order.issued, Unissued(order)) = order.quantity
  BY <1>3, <1>4, Vectors
<1>6. orders' = [orders EXCEPT ![o] = x0]
  BY <1>1, <1>5
<1>7. x0 \in OrderType /\ Agrees(x0) /\ x0.quantity \in [Variants -> 0 .. MaxQty]
  BY <1>1, <1>3, Vectors DEF OrderType, Amounts, Statuses, Agrees, Reserving
<1>8. taken \in IntRows
  BY <1>1, ReservedType DEF IntRows
<1>9. ASSUME NEW w \in Warehouses, NEW v \in Variants
      PROVE  /\ bal'[<<w, v>>].reserved
                  = bal[<<w, v>>].reserved - Holds(order, w, v) + Holds(x0, w, v)
             /\ bal[<<w, v>>].onHand - bal'[<<w, v>>].onHand = Sells(x0, w, v)
  <2>1. /\ Holds(order, w, v) = (IF order.warehouse = w THEN order.quantity[v] ELSE 0)
        /\ Holds(x0, w, v) = 0
        /\ Sells(x0, w, v) = (IF order.warehouse = w THEN order.quantity[v] ELSE 0)
    BY <1>1, <1>3 DEF Holds, Sells, Nothing, OrderType
  <2>2. <<w, v>> \in Keys
    BY DEF Keys
  <2>3. bal[<<w, v>>].onHand \in Int /\ bal[<<w, v>>].reserved \in Int /\ order.quantity[v] \in Nat
    BY <1>1, <1>3, <2>2 DEF IntRows, Amounts
  <2> HIDE DEF order, taken, x0
  <2>4. /\ taken[<<w, v>>].onHand = bal[<<w, v>>].onHand
        /\ taken[<<w, v>>].reserved
             = bal[<<w, v>>].reserved + (IF order.warehouse = w THEN Remaining(order)[v] ELSE 0)
    BY <1>1, ReservedRow DEF taken
  <2>5. /\ bal'[<<w, v>>].onHand
             = taken[<<w, v>>].onHand - (IF order.warehouse = w THEN Unissued(order)[v] ELSE 0)
        /\ bal'[<<w, v>>].reserved
             = taken[<<w, v>>].reserved - (IF order.warehouse = w THEN Unissued(order)[v] ELSE 0)
    BY <1>1, <1>8, IssuedRow
  <2>6. Remaining(order)[v] = 0 /\ Unissued(order)[v] = order.quantity[v]
    BY <1>4 DEF Nothing
  <2> QED
    BY <2>1, <2>3, <2>4, <2>5, <2>6
<1> HIDE DEF x0
<1>10. OrderStep(o, x0)
  BY <1>6, <1>7, <1>9 DEF OrderStep
<1> QED
  BY <1>10

LEMMA CancelStep ==
    ASSUME SalesIInv, QuantitiesBounded, NEW o \in Orders, CancelOrder(o)
    PROVE  \E x : OrderStep(o, x)
<1> DEFINE order == orders[o]
           x0 == [order EXCEPT !.status = "cancelled", !.reserved = Nothing]
<1>1. /\ order \in OrderType /\ order.issued = Nothing /\ bal \in IntRows
      /\ orders' = [orders EXCEPT ![o] = x0]
      /\ bal' = Released(bal, order)
      /\ order.quantity \in [Variants -> 0 .. MaxQty]
  BY OrderFacts DEF CancelOrder, Settle, Commit, IntRows, QuantitiesBounded
<1>2. x0 \in OrderType /\ Agrees(x0) /\ x0.quantity \in [Variants -> 0 .. MaxQty]
  BY <1>1, Vectors DEF OrderType, Amounts, Statuses, Agrees, Reserving
<1>3. ASSUME NEW w \in Warehouses, NEW v \in Variants
      PROVE  /\ bal'[<<w, v>>].reserved
                  = bal[<<w, v>>].reserved - Holds(order, w, v) + Holds(x0, w, v)
             /\ bal[<<w, v>>].onHand - bal'[<<w, v>>].onHand = Sells(x0, w, v)
  <2>1. Holds(x0, w, v) = 0 /\ Sells(x0, w, v) = 0
    BY <1>1 DEF Holds, Sells, Nothing, OrderType
  <2>2. <<w, v>> \in Keys
    BY DEF Keys
  <2>3. bal[<<w, v>>].onHand \in Int /\ bal[<<w, v>>].reserved \in Int /\ Holds(order, w, v) \in Int
    BY <1>1, <2>2 DEF IntRows, Holds, OrderType
  <2>4. /\ bal'[<<w, v>>].onHand = bal[<<w, v>>].onHand
        /\ bal'[<<w, v>>].reserved = bal[<<w, v>>].reserved - Holds(order, w, v)
    BY <1>1, ReleasedRow
  <2> QED
    BY <2>1, <2>3, <2>4
<1> HIDE DEF x0
<1>4. OrderStep(o, x0)
  BY <1>1, <1>2, <1>3 DEF OrderStep
<1> QED
  BY <1>4

LEMMA DeleteStep ==
    ASSUME SalesIInv, NEW o \in Orders, DeleteDraftOrder(o)
    PROVE  \E x : OrderStep(o, x)
<1>1. /\ NoOrder \in OrderType /\ Agrees(NoOrder)
      /\ NoOrder.quantity \in [Variants -> 0 .. MaxQty]
  BY InventoryAssumption, Vectors
     DEF NoOrder, OrderType, Amounts, Statuses, Agrees, Reserving, Nothing
<1>2. orders' = [orders EXCEPT ![o] = NoOrder] /\ bal' = bal /\ orders[o].reserved = Nothing
  BY DEF DeleteDraftOrder, invVars
<1>3. ASSUME NEW w \in Warehouses, NEW v \in Variants
      PROVE  /\ bal'[<<w, v>>].reserved
                  = bal[<<w, v>>].reserved - Holds(orders[o], w, v) + Holds(NoOrder, w, v)
             /\ bal[<<w, v>>].onHand - bal'[<<w, v>>].onHand = Sells(NoOrder, w, v)
  <2>1. Holds(orders[o], w, v) = 0 /\ Holds(NoOrder, w, v) = 0 /\ Sells(NoOrder, w, v) = 0
    BY <1>2 DEF Holds, Sells, Nothing, NoOrder
  <2>2. <<w, v>> \in Keys
    BY DEF Keys
  <2>3. bal[<<w, v>>].onHand \in Int /\ bal[<<w, v>>].reserved \in Int
    BY <2>2 DEF SalesIInv, IInv, TypeOK
  <2> QED
    BY <1>2, <2>1, <2>3
<1>4. OrderStep(o, NoOrder)
  BY <1>1, <1>2, <1>3 DEF OrderStep
<1> QED
  BY <1>4

LEMMA PosSaleStep ==
    ASSUME SalesIInv, NEW o \in Orders, NEW w \in Warehouses,
           NEW items \in [Variants -> 0 .. MaxQty], CompletePosSale(o, w, items)
    PROVE  \E x : OrderStep(o, x)
<1> DEFINE released == Released(bal, orders[o])
           sold == Saved("completed", w, items)
           taken == Reserved(released, sold)
           x0 == [sold EXCEPT !.issued = items]
<1>1. items \in Amounts /\ released \in IntRows /\ bal \in IntRows
  BY OrderFacts, InventoryAssumption DEF Amounts, IntRows
<1>2. sold \in OrderType
  BY <1>1, Vectors DEF Saved, OrderType, Amounts, Statuses
<1>3. x0 \in OrderType /\ Agrees(x0) /\ x0.quantity = items
  BY <1>1, <1>2 DEF Saved, OrderType, Amounts, Agrees, Reserving
<1>4. orders' = [orders EXCEPT ![o] = x0] /\ bal' = Issued(taken, sold)
  BY DEF CompletePosSale, Settle, Commit
<1>5. taken \in IntRows
  BY <1>1, <1>2, ReservedType DEF IntRows
<1>6. Remaining(sold) = items /\ Unissued(sold) = items /\ sold.warehouse = w
  BY <1>1, Vectors DEF Saved, Remaining, Unissued
<1>7. ASSUME NEW x \in Warehouses, NEW v \in Variants
      PROVE  /\ bal'[<<x, v>>].reserved
                  = bal[<<x, v>>].reserved - Holds(orders[o], x, v) + Holds(x0, x, v)
             /\ bal[<<x, v>>].onHand - bal'[<<x, v>>].onHand = Sells(x0, x, v)
  <2>1. Holds(x0, x, v) = 0 /\ Sells(x0, x, v) = (IF w = x THEN items[v] ELSE 0)
    BY DEF Holds, Sells, Nothing, Saved
  <2>2. <<x, v>> \in Keys
    BY DEF Keys
  <2>3. /\ bal[<<x, v>>].onHand \in Int /\ bal[<<x, v>>].reserved \in Int
        /\ released[<<x, v>>].reserved \in Int /\ items[v] \in Nat
    BY <1>1, <2>2 DEF IntRows, Amounts
  <2>4. /\ released[<<x, v>>].onHand = bal[<<x, v>>].onHand
        /\ released[<<x, v>>].reserved = bal[<<x, v>>].reserved - Holds(orders[o], x, v)
    BY ReleasedRow
  <2> HIDE DEF released, sold, taken, x0
  <2>5. /\ taken[<<x, v>>].onHand = released[<<x, v>>].onHand
        /\ taken[<<x, v>>].reserved
             = released[<<x, v>>].reserved + (IF sold.warehouse = x THEN Remaining(sold)[v] ELSE 0)
    BY <1>1, <1>2, ReservedRow DEF taken
  <2>6. /\ bal'[<<x, v>>].onHand
             = taken[<<x, v>>].onHand - (IF sold.warehouse = x THEN Unissued(sold)[v] ELSE 0)
        /\ bal'[<<x, v>>].reserved
             = taken[<<x, v>>].reserved - (IF sold.warehouse = x THEN Unissued(sold)[v] ELSE 0)
    BY <1>2, <1>4, <1>5, IssuedRow
  <2> QED
    BY <1>6, <2>1, <2>3, <2>4, <2>5, <2>6
<1> HIDE DEF x0
<1>8. OrderStep(o, x0)
  BY <1>3, <1>4, <1>7 DEF OrderStep
<1> QED
  BY <1>8

\* A step of one order keeps the sum of the reservations equal to the rows.
LEMMA OrderStepBacked ==
    ASSUME BackedIInv, NEW o \in Orders, NEW x, OrderStep(o, x)
    PROVE  QuantitiesBounded' /\ ReservationsBacked'
<1>1. QuantitiesBounded'
  BY DEF OrderStep, BackedIInv, QuantitiesBounded, SalesIInv, SalesTypeOK
<1>2. ASSUME NEW w \in Warehouses, NEW v \in Variants
      PROVE  bal'[<<w, v>>].reserved = HeldByOrders(w, v)'
  <2>1. PICK rest \in Nat :
          /\ HeldByOrders(w, v) = rest + Holds(orders[o], w, v)
          /\ \A y \in OrderType :
                /\ Agrees(y)
                /\ y.quantity \in [Variants -> 0 .. MaxQty]
                /\ orders' = [orders EXCEPT ![o] = y]
                => HeldByOrders(w, v)' = rest + Holds(y, w, v)
    BY HeldSplits DEF BackedIInv
  <2>2. HeldByOrders(w, v)' = rest + Holds(x, w, v)
    BY <2>1 DEF OrderStep
  <2>3. Holds(x, w, v) \in Nat /\ Holds(orders[o], w, v) \in Nat
    BY DEF OrderStep, Holds, OrderType, BackedIInv, SalesIInv, SalesTypeOK
  <2>4. bal[<<w, v>>].reserved = HeldByOrders(w, v)
    BY DEF BackedIInv, ReservationsBacked
  <2>5. bal'[<<w, v>>].reserved
          = bal[<<w, v>>].reserved - Holds(orders[o], w, v) + Holds(x, w, v)
    BY DEF OrderStep
  <2> HIDE DEF HeldByOrders
  <2> QED
    BY <2>1, <2>2, <2>3, <2>4, <2>5
<1>3. ReservationsBacked'
  BY <1>2 DEF ReservationsBacked
<1> QED
  BY <1>1, <1>3

\* In every step either one order moves as above, or no order and no
\* reservation changes.
LEMMA SalesSteps ==
    ASSUME BackedIInv, SalesNext
    PROVE  \/ \E o \in Orders : \E x : OrderStep(o, x)
           \/ /\ UNCHANGED orders
              /\ \A k \in Keys : bal'[k].reserved = bal[k].reserved
<1> USE DEF BackedIInv
<1>1. \A items \in ItemRows : items \in [Variants -> 0 .. MaxQty]
  BY DEF ItemRows
<1>2. CASE Save
  BY <1>1, <1>2, SaveStep DEF Save
<1>3. CASE Move
  BY <1>3, MoveStep DEF Move
<1>4. CASE Complete
  BY <1>4, CompleteStep DEF Complete
<1>5. CASE Cancel
  BY <1>5, CancelStep DEF Cancel
<1>6. CASE Delete
  BY <1>6, DeleteStep DEF Delete
<1>7. CASE PosSale
  BY <1>1, <1>7, PosSaleStep DEF PosSale
<1>8. CASE OtherStock
  BY <1>8, StockWorkSparesReservations DEF OtherStock, SalesIInv
<1> QED
  BY <1>2, <1>3, <1>4, <1>5, <1>6, <1>7, <1>8 DEF SalesNext

LEMMA SalesInitBacked == SalesInit => BackedIInv
<1> SUFFICES ASSUME SalesInit PROVE BackedIInv
  OBVIOUS
<1>1. SalesIInv
  BY SalesInitSalesIInv
<1>2. QuantitiesBounded
  BY InventoryAssumption DEF SalesInit, QuantitiesBounded, NoOrder, Nothing
<1>3. ASSUME NEW w \in Warehouses, NEW v \in Variants
      PROVE  bal[<<w, v>>].reserved = HeldByOrders(w, v)
  <2> DEFINE col == [o \in Orders |-> Holds(orders[o], w, v)]
  <2>1. \A o \in Orders : Holds(orders[o], w, v) = 0
    BY DEF SalesInit, NoOrder, Nothing, Holds
  <2>2. UnitsOf(col, MaxQty) = {}
    BY <2>1, InventoryAssumption DEF UnitsOf
  <2>3. Total(col, MaxQty) = 0
    BY <2>2, FS_EmptySet DEF Total
  <2>4. <<w, v>> \in Keys /\ bal[<<w, v>>].reserved = 0
    BY DEF SalesInit, InvInit, Keys
  <2> QED
    BY <2>3, <2>4 DEF HeldByOrders
<1>4. ReservationsBacked
  BY <1>3 DEF ReservationsBacked
<1> QED
  BY <1>1, <1>2, <1>4 DEF BackedIInv

LEMMA SalesNextBacked == BackedIInv /\ [SalesNext]_salesVars => BackedIInv'
<1> SUFFICES ASSUME BackedIInv, [SalesNext]_salesVars PROVE BackedIInv'
  OBVIOUS
<1>1. SalesIInv'
  BY SalesNextSalesIInv DEF BackedIInv
<1>2. ASSUME UNCHANGED orders, \A k \in Keys : bal'[k].reserved = bal[k].reserved
      PROVE  QuantitiesBounded' /\ ReservationsBacked'
  <2>1. \A w \in Warehouses, v \in Variants : HeldByOrders(w, v)' = HeldByOrders(w, v)
    BY <1>2 DEF HeldByOrders
  <2>2. \A w \in Warehouses, v \in Variants : <<w, v>> \in Keys
    BY DEF Keys
  <2>3. ReservationsBacked'
    BY <1>2, <2>1, <2>2 DEF BackedIInv, ReservationsBacked
  <2>4. QuantitiesBounded'
    BY <1>2 DEF BackedIInv, QuantitiesBounded
  <2> QED
    BY <2>3, <2>4
<1>3. CASE UNCHANGED salesVars
  BY <1>1, <1>2, <1>3 DEF salesVars, BackedIInv
<1>4. CASE SalesNext
  BY <1>1, <1>2, <1>4, SalesSteps, OrderStepBacked DEF BackedIInv
<1> QED
  BY <1>3, <1>4

\* No reservation leaks and none is counted twice, for any number of orders,
\* whatever edits, cancels and deletes run.
THEOREM SalesReservationsBacked == SalesSpec => []ReservationsBacked
<1>1. BackedIInv => ReservationsBacked
  BY DEF BackedIInv
<1> QED
  BY <1>1, SalesInitBacked, SalesNextBacked, PTL DEF SalesSpec

\* A confirmed order can be completed at once: its units are in its warehouse,
\* reserved, and all the reservations of the others fit beside them.
THEOREM SalesCompletionNeverBlocked == SalesSpec => []CompletionNeverBlocked
<1>1. ASSUME BackedIInv PROVE CompletionNeverBlocked
  <2> SUFFICES ASSUME NEW o \in Orders, orders[o].status \in {"confirmed", "processing"},
                      NEW k \in Keys
               PROVE  /\ RowAllowed(Reserved(bal, orders[o])[k])
                      /\ RowAllowed(Issued(Reserved(bal, orders[o]), orders[o])[k])
    BY DEF CompletionNeverBlocked, Allowed
  <2> DEFINE order == orders[o]
             taken == Reserved(bal, order)
             shipped == Issued(taken, order)
  <2>1. PICK w \in Warehouses, v \in Variants : k = <<w, v>>
    BY DEF Keys
  <2>2. order \in OrderType /\ Agrees(order) /\ bal \in IntRows
    BY <1>1, OrderFacts DEF BackedIInv, IntRows
  <2>3. order.status \in Reserving
    BY DEF Reserving
  <2>4. order.reserved = order.quantity /\ order.quantity \in Amounts
    BY <2>2, <2>3 DEF Agrees, OrderType, Amounts
  <2>5. Remaining(order)[v] = 0 /\ Unissued(order)[v] = order.quantity[v]
    BY <2>2, <2>3, Outstanding DEF Nothing
  <2>6. taken \in IntRows
    BY <2>2, ReservedType DEF IntRows
  <2>7. Holds(order, w, v) = (IF order.warehouse = w THEN order.quantity[v] ELSE 0)
        /\ order.quantity[v] \in Nat
    BY <2>4 DEF Holds, Amounts
  <2>8. Holds(order, w, v) <= bal[k].reserved
    <3>1. PICK rest \in Nat : HeldByOrders(w, v) = rest + Holds(orders[o], w, v)
      BY <1>1, HeldSplits DEF BackedIInv
    <3>2. bal[<<w, v>>].reserved = HeldByOrders(w, v)
      BY <1>1 DEF BackedIInv, ReservationsBacked
    <3> HIDE DEF HeldByOrders, order
    <3> QED
      BY <2>1, <2>7, <3>1, <3>2 DEF order
  <2>9. bal[k].onHand \in Nat /\ bal[k].reserved \in Nat /\ bal[k].reserved <= bal[k].onHand
    BY <1>1 DEF BackedIInv, SalesIInv, IInv, TypeOK, ReservedWithinOnHand
  <2> HIDE DEF order, taken, shipped
  <2>10. /\ taken[k].onHand = bal[k].onHand
         /\ taken[k].reserved
              = bal[k].reserved + (IF order.warehouse = w THEN Remaining(order)[v] ELSE 0)
    BY <2>1, <2>2, ReservedRow DEF taken
  <2>11. /\ shipped[k].onHand
              = taken[k].onHand - (IF order.warehouse = w THEN Unissued(order)[v] ELSE 0)
         /\ shipped[k].reserved
              = taken[k].reserved - (IF order.warehouse = w THEN Unissued(order)[v] ELSE 0)
    BY <2>1, <2>2, <2>6, IssuedRow DEF shipped
  <2>12. taken[k].onHand = bal[k].onHand /\ taken[k].reserved = bal[k].reserved
    BY <2>5, <2>9, <2>10
  <2>13. /\ shipped[k].onHand = bal[k].onHand - Holds(order, w, v)
         /\ shipped[k].reserved = bal[k].reserved - Holds(order, w, v)
    BY <2>5, <2>7, <2>9, <2>11, <2>12
  <2>14. RowAllowed(taken[k]) /\ RowAllowed(shipped[k])
    BY <2>7, <2>8, <2>9, <2>12, <2>13 DEF RowAllowed
  <2> QED
    BY <2>14 DEF taken, shipped, order
<1> QED
  BY <1>1, SalesInitBacked, SalesNextBacked, PTL DEF SalesSpec

\* Units leave the shelf for an order when it completes, and only then.
THEOREM SalesOnlyCompletionShips == SalesSpec => OnlyCompletionShips
<1>1. ASSUME BackedIInv, [SalesNext]_salesVars
      PROVE  [\A o \in Orders : orders'[o] # orders[o] =>
                \A w \in Warehouses, v \in Variants :
                    bal[<<w, v>>].onHand - bal'[<<w, v>>].onHand
                      = Sells(orders'[o], w, v)]_salesVars
  <2> SUFFICES ASSUME SalesNext, NEW o \in Orders, orders'[o] # orders[o],
                      NEW w \in Warehouses, NEW v \in Variants
               PROVE  bal[<<w, v>>].onHand - bal'[<<w, v>>].onHand = Sells(orders'[o], w, v)
    BY <1>1
  <2>1. PICK p \in Orders : \E x : OrderStep(p, x)
    BY <1>1, SalesSteps
  <2>2. PICK x : OrderStep(p, x)
    BY <2>1
  <2>3. p = o /\ orders'[o] = x
    BY <1>1, <2>2 DEF OrderStep, BackedIInv, SalesIInv, SalesTypeOK
  <2> QED
    BY <2>2, <2>3 DEF OrderStep
<1> QED
  BY <1>1, SalesInitBacked, SalesNextBacked, PTL DEF SalesSpec, OnlyCompletionShips

-----------------------------------------------------------------------------
(* Checkout *)

Coupons == [active : BOOLEAN, limit : Nat, count : Nat]

\* Inductive.  An order that a request placed, or that redeemed the coupon,
\* still exists: this is what the test for the order's absence relies on.
CheckoutInv ==
    /\ SalesIInv
    /\ DOMAIN request = Requests
    /\ coupon \in Coupons
    /\ form \in Nat \cup {NotLoaded}
    /\ IsFiniteSet(redeemed) /\ redeemed \subseteq Orders
    /\ \A o \in redeemed : orders[o].status # "absent"
    /\ \A r \in Requests : request[r] = "placed" => orders[TokenOf[r]].status # "absent"
    /\ \A r, q \in Requests :
          request[r] = "placed" /\ request[q] = "placed" /\ TokenOf[r] = TokenOf[q] => r = q
    /\ CouponCountsRedemptions

\* Checkout and dashboard move orders as the sales services do.
LEMMA CheckoutSteps == CheckoutNext => [SalesNext]_salesVars
<1> SUFFICES ASSUME CheckoutNext PROVE [SalesNext]_salesVars
  OBVIOUS
<1>1. ASSUME NEW r \in Requests, NEW items \in Carts, NEW withCoupon \in BOOLEAN,
             PlaceOrder(r, items, withCoupon)
      PROVE  SalesNext
  <2>1. SaveSalesOrder(TokenOf[r], "pending", Default, items)
    BY <1>1 DEF PlaceOrder
  <2>2. Save
    BY <2>1, CheckoutAssumption, InventoryAssumption DEF Save, Carts, Editable
  <2> QED
    BY <2>2 DEF SalesNext
<1>2. ASSUME NEW o \in Orders, DeleteUnredeemed(o) PROVE SalesNext
  BY <1>2 DEF DeleteUnredeemed, SalesNext, Delete
<1>3. CASE Checkouts
  BY <1>1, <1>3 DEF Checkouts, LookForOrder, RefuseOrder, salesVars, invVars
<1>4. CASE CouponPages
  BY <1>4 DEF CouponPages, LoadCoupon, ToggleCoupon, SaveCoupon, salesVars, invVars
<1>5. CASE Dashboard
  BY <1>2, <1>5 DEF Dashboard, SalesNext
<1> QED
  BY <1>3, <1>4, <1>5 DEF CheckoutNext

\* Only a deletion makes an order absent.
LEMMA OrdersStay ==
    ASSUME SalesIInv, Save \/ Move \/ Complete \/ Cancel \/ PosSale \/ OtherStock,
           NEW o \in Orders, orders[o].status # "absent"
    PROVE  orders'[o].status # "absent"
<1>1. orders \in [Orders -> OrderType]
  BY DEF SalesIInv, SalesTypeOK
<1>2. CASE Save
  <2>1. PICK p \in Orders, s \in Editable, w \in Warehouses, items \in ItemRows :
           SaveSalesOrder(p, s, w, items)
    BY <1>2 DEF Save
  <2>2. PICK x : orders' = [orders EXCEPT ![p] = x] /\ x.status = s
    BY <2>1 DEF SaveSalesOrder, Saved
  <2> QED
    BY <1>1, <2>2 DEF Editable
<1>3. CASE Move
  <2>1. PICK p \in Orders, s \in Reserving : MoveToReserving(p, s)
    BY <1>3 DEF Move
  <2> DEFINE x == [orders[p] EXCEPT !.status = s,
                                    !.reserved = More(@, Remaining(orders[p]))]
  <2>2. orders' = [orders EXCEPT ![p] = x]
    BY <2>1 DEF MoveToReserving
  <2>3. x.status = s
    BY <1>1 DEF OrderType
  <2> HIDE DEF x
  <2> QED
    BY <1>1, <2>2, <2>3 DEF Reserving
<1>4. CASE Complete
  <2>1. PICK p \in Orders : CompleteOrder(p)
    BY <1>4 DEF Complete
  <2> DEFINE order == orders[p]
             x == [order EXCEPT !.status = "completed",
                       !.reserved = Less(More(@, Remaining(order)), Unissued(order)),
                       !.issued = More(@, Unissued(order))]
  <2>2. orders' = [orders EXCEPT ![p] = x]
    BY <2>1 DEF CompleteOrder
  <2>3. x.status = "completed"
    BY <1>1 DEF OrderType
  <2> HIDE DEF x
  <2> QED
    BY <1>1, <2>2, <2>3
<1>5. CASE Cancel
  <2>1. PICK p \in Orders : CancelOrder(p)
    BY <1>5 DEF Cancel
  <2> DEFINE x == [orders[p] EXCEPT !.status = "cancelled", !.reserved = Nothing]
  <2>2. orders' = [orders EXCEPT ![p] = x]
    BY <2>1 DEF CancelOrder
  <2>3. x.status = "cancelled"
    BY <1>1 DEF OrderType
  <2> HIDE DEF x
  <2> QED
    BY <1>1, <2>2, <2>3
<1>6. CASE PosSale
  <2>1. PICK p \in Orders, w \in Warehouses, items \in ItemRows : CompletePosSale(p, w, items)
    BY <1>6 DEF PosSale
  <2> DEFINE x == [Saved("completed", w, items) EXCEPT !.issued = items]
  <2>2. orders' = [orders EXCEPT ![p] = x]
    BY <2>1 DEF CompletePosSale
  <2>3. x.status = "completed"
    BY DEF Saved
  <2> HIDE DEF x
  <2> QED
    BY <1>1, <2>2, <2>3
<1>7. CASE OtherStock
  BY <1>7 DEF OtherStock
<1> QED
  BY <1>2, <1>3, <1>4, <1>5, <1>6, <1>7

\* place_checkout_order: the order was absent, so no other request placed it
\* and no redemption belongs to it.
LEMMA PlacePreserves ==
    ASSUME CheckoutInv, NEW r \in Requests, NEW items \in Carts, NEW withCoupon \in BOOLEAN,
           PlaceOrder(r, items, withCoupon)
    PROVE  CheckoutInv'
<1> DEFINE o == TokenOf[r]
<1> USE DEF CheckoutInv
<1>1. o \in Orders /\ orders \in [Orders -> OrderType]
  BY CheckoutAssumption DEF SalesIInv, SalesTypeOK
<1>2. SalesIInv'
  <2>1. CheckoutNext
    BY DEF CheckoutNext, Checkouts
  <2> QED
    BY <2>1, CheckoutSteps, SalesNextSalesIInv
<1>3. orders[o].status = "absent"
  BY DEF PlaceOrder, Placeable, NoOrder
<1>4. PICK x : orders' = [orders EXCEPT ![o] = x] /\ x.status = "pending"
  BY DEF PlaceOrder, SaveSalesOrder, Saved
<1>5. request' = [request EXCEPT ![r] = "placed"] /\ form' = form /\ overwritten' = overwritten
  BY DEF PlaceOrder
<1>6. \A p \in Orders : orders[p].status # "absent" \/ p = o => orders'[p].status # "absent"
  BY <1>1, <1>4
<1>7. /\ \A q \in Requests : request'[q] = "placed" => orders'[TokenOf[q]].status # "absent"
      /\ \A q, p \in Requests :
            request'[q] = "placed" /\ request'[p] = "placed" /\ TokenOf[q] = TokenOf[p] => q = p
      /\ DOMAIN request' = Requests
  <2>1. \A q \in Requests : TokenOf[q] \in Orders
    BY CheckoutAssumption
  <2>2. \A q \in Requests : request'[q] = "placed" <=> q = r \/ request[q] = "placed"
    BY <1>5
  <2>3. \A q \in Requests : request[q] = "placed" => TokenOf[q] # o
    BY <1>3
  <2> QED
    BY <1>5, <1>6, <2>1, <2>2, <2>3
<1>8. /\ coupon' \in Coupons
      /\ IsFiniteSet(redeemed') /\ redeemed' \subseteq Orders
      /\ \A p \in redeemed' : orders'[p].status # "absent"
      /\ CouponCountsRedemptions'
  <2>1. CASE ~withCoupon
    <3>1. coupon' = coupon /\ redeemed' = redeemed
      BY <2>1 DEF PlaceOrder
    <3> QED
      BY <1>5, <1>6, <3>1 DEF CouponCountsRedemptions
  <2>2. CASE withCoupon
    <3> DEFINE count == coupon.count
               limit == coupon.limit
    <3>1. redeemed' = redeemed \cup {o} /\ coupon' = [coupon EXCEPT !.count = @ + 1]
      BY <2>2 DEF PlaceOrder, RedeemCoupon
    <3>2. count < limit
      BY <2>2 DEF PlaceOrder, CouponUsable
    <3>3. o \notin redeemed
      BY <1>3
    <3>4. coupon' \in Coupons /\ coupon'.count = count + 1 /\ coupon'.limit = limit
          /\ count \in Nat /\ limit \in Nat
      BY <3>1 DEF Coupons
    <3>5. IsFiniteSet(redeemed') /\ Cardinality(redeemed') = Cardinality(redeemed) + 1
      BY <3>1, <3>3, FS_AddElement
    <3>6. \A p \in redeemed' : orders'[p].status # "absent"
      BY <1>1, <1>6, <3>1
    <3> HIDE DEF count, limit
    <3>7. CouponCountsRedemptions'
      BY <1>5, <3>2, <3>4, <3>5 DEF CouponCountsRedemptions, count, limit
    <3> QED
      BY <1>1, <3>1, <3>4, <3>5, <3>6, <3>7
  <2> QED
    BY <2>1, <2>2
<1> QED
  BY <1>2, <1>5, <1>7, <1>8

\* delete_draft_order: the protected relation keeps the redemptions' orders,
\* and a request whose order went is no longer one that placed it.
LEMMA DeletePlacedPreserves ==
    ASSUME CheckoutInv, NEW o \in Orders, DeleteUnredeemed(o)
    PROVE  CheckoutInv'
<1> USE DEF CheckoutInv
<1>1. orders \in [Orders -> OrderType]
  BY DEF SalesIInv, SalesTypeOK
<1>2. SalesIInv'
  <2>1. CheckoutNext
    BY DEF CheckoutNext, Dashboard
  <2> QED
    BY <2>1, CheckoutSteps, SalesNextSalesIInv
<1>3. /\ \A p \in Orders : p # o => orders'[p] = orders[p]
      /\ o \notin redeemed
      /\ UNCHANGED couponVars
  BY <1>1 DEF DeleteUnredeemed, DeleteDraftOrder
<1>4. /\ DOMAIN request' = Requests
      /\ \A r \in Requests :
            request'[r] = "placed" <=> request[r] = "placed" /\ TokenOf[r] # o
  BY DEF DeleteUnredeemed
<1>5. CouponCountsRedemptions' /\ coupon' = coupon /\ redeemed' = redeemed /\ form' = form
  BY <1>3 DEF couponVars, CouponCountsRedemptions
<1>6. \A r \in Requests : TokenOf[r] \in Orders
  BY CheckoutAssumption
<1>7. \A p \in redeemed' : orders'[p].status # "absent"
  BY <1>3, <1>5
<1>8. \A r \in Requests : request'[r] = "placed" => orders'[TokenOf[r]].status # "absent"
  BY <1>3, <1>4, <1>6
<1> QED
  BY <1>2, <1>4, <1>5, <1>7, <1>8

-----------------------------------------------------------------------------

LEMMA CheckoutInitInv == CheckoutInit => CheckoutInv
<1> SUFFICES ASSUME CheckoutInit PROVE CheckoutInv
  OBVIOUS
<1>1. SalesIInv
  BY SalesInitSalesIInv DEF CheckoutInit
<1>2. IsFiniteSet(redeemed) /\ redeemed \subseteq Orders /\ Cardinality(redeemed) = 0
  BY FS_EmptySet DEF CheckoutInit
<1>3. coupon \in Coupons /\ coupon.count = 0 /\ 0 <= coupon.limit
  <2>1. coupon \in [active : {TRUE}, limit : Limits, count : {0}]
    BY DEF CheckoutInit
  <2>2. coupon.count = 0 /\ coupon.limit \in Nat
    BY <2>1, CheckoutAssumption
  <2>3. coupon \in Coupons
    <3>1. {TRUE} \subseteq BOOLEAN /\ Limits \subseteq Nat /\ {0} \subseteq Nat
      BY CheckoutAssumption
    <3> QED
      BY <2>1, <3>1, Zenon DEF Coupons
  <2> QED
    BY <2>2, <2>3
<1>4. CouponCountsRedemptions
  BY <1>2, <1>3 DEF CouponCountsRedemptions
<1> QED
  BY <1>1, <1>2, <1>3, <1>4 DEF CheckoutInit, CheckoutInv

LEMMA CheckoutNextInv == CheckoutInv /\ [CheckoutNext]_checkoutVars => CheckoutInv'
<1> SUFFICES ASSUME CheckoutInv, [CheckoutNext]_checkoutVars PROVE CheckoutInv'
  OBVIOUS
<1> USE DEF CheckoutInv
<1>1. SalesIInv'
  <2>1. CASE CheckoutNext
    BY <2>1, CheckoutSteps, SalesNextSalesIInv
  <2>2. CASE UNCHANGED checkoutVars
    <3>1. UNCHANGED salesVars
      BY <2>2 DEF checkoutVars, salesVars
    <3> QED
      BY <3>1, SalesNextSalesIInv
  <2> QED
    BY <2>1, <2>2
<1>2. ASSUME NEW r \in Requests, NEW answer \in {"new", "returned", "refused"},
             request' = [request EXCEPT ![r] = answer], UNCHANGED <<orders, couponVars>>
      PROVE  CheckoutInv'
  <2>1. DOMAIN request' = Requests
        /\ \A q \in Requests : request'[q] = "placed" => request[q] = "placed"
    BY <1>2
  <2>2. /\ coupon' = coupon /\ redeemed' = redeemed /\ form' = form /\ overwritten' = overwritten
        /\ orders' = orders
    BY <1>2 DEF couponVars
  <2>3. CouponCountsRedemptions'
    BY <2>2 DEF CouponCountsRedemptions
  <2> QED
    BY <1>1, <2>1, <2>2, <2>3
<1>3. CASE Checkouts
  <2>1. ASSUME NEW r \in Requests, LookForOrder(r) PROVE CheckoutInv'
    <3>1. PICK answer \in {"new", "returned", "refused"} :
             request' = [request EXCEPT ![r] = answer]
      BY <2>1 DEF LookForOrder
    <3>2. UNCHANGED <<orders, couponVars>>
      BY <2>1 DEF LookForOrder
    <3> QED
      BY <1>2, <3>1, <3>2
  <2>2. ASSUME NEW r \in Requests, NEW items \in Carts, NEW withCoupon \in BOOLEAN,
               RefuseOrder(r, items, withCoupon)
        PROVE  CheckoutInv'
    BY <1>2, <2>2 DEF RefuseOrder
  <2> QED
    BY <1>3, <2>1, <2>2, PlacePreserves DEF Checkouts
<1>4. CASE CouponPages
  <2>1. request' = request /\ redeemed' = redeemed /\ orders' = orders
    BY <1>4 DEF CouponPages, LoadCoupon, ToggleCoupon, SaveCoupon
  <2>2. coupon \in Coupons /\ coupon.count \in Nat /\ coupon.limit \in Nat
    BY DEF Coupons
  <2>3. ASSUME coupon' \in Coupons, form' \in Nat \cup {NotLoaded}, CouponCountsRedemptions'
        PROVE  CheckoutInv'
    BY <1>1, <2>1, <2>3
  <2>4. CASE LoadCoupon
    BY <2>1, <2>2, <2>3, <2>4 DEF LoadCoupon, CouponCountsRedemptions
  <2>5. CASE ToggleCoupon
    <3>1. coupon' \in Coupons /\ coupon'.count = coupon.count /\ coupon'.limit = coupon.limit
      BY <2>2, <2>5 DEF ToggleCoupon, Coupons
    <3>2. form' = form /\ overwritten' = overwritten
      BY <2>5 DEF ToggleCoupon
    <3> QED
      BY <2>1, <2>3, <3>1, <3>2 DEF CouponCountsRedemptions
  <2>6. ASSUME NEW limit \in Limits, NEW active \in BOOLEAN, SaveCoupon(limit, active)
        PROVE  CheckoutInv'
    <3>1. form \in Nat /\ form <= limit /\ limit \in Nat
      BY <2>6, CheckoutAssumption DEF SaveCoupon
    <3>2. /\ coupon' = [active |-> active, limit |-> limit, count |-> form]
          /\ form' = NotLoaded
          /\ ~overwritten' => ~overwritten /\ form = coupon.count
      BY <2>6 DEF SaveCoupon
    <3>3. coupon' \in Coupons /\ coupon'.count = form /\ coupon'.limit = limit
      BY <3>1, <3>2 DEF Coupons
    <3>4. CouponCountsRedemptions'
      BY <2>1, <3>1, <3>2, <3>3 DEF CouponCountsRedemptions
    <3> QED
      BY <2>3, <3>2, <3>3, <3>4
  <2> QED
    BY <1>4, <2>4, <2>5, <2>6 DEF CouponPages
<1>5. CASE Dashboard
  <2>1. ASSUME Save \/ Move \/ Complete \/ Cancel \/ PosSale \/ OtherStock,
               UNCHANGED <<request, couponVars>>
        PROVE  CheckoutInv'
    <3>1. \A o \in Orders : orders[o].status # "absent" => orders'[o].status # "absent"
      BY <2>1, OrdersStay
    <3>2. /\ coupon' = coupon /\ redeemed' = redeemed /\ form' = form
          /\ overwritten' = overwritten /\ request' = request
      BY <2>1 DEF couponVars
    <3>3. CouponCountsRedemptions'
      BY <3>2 DEF CouponCountsRedemptions
    <3>4. \A r \in Requests : TokenOf[r] \in Orders
      BY CheckoutAssumption
    <3> QED
      BY <1>1, <3>1, <3>2, <3>3, <3>4
  <2> QED
    BY <1>5, <2>1, DeletePlacedPreserves DEF Dashboard
<1>6. CASE UNCHANGED checkoutVars
  BY <1>1, <1>6 DEF checkoutVars, CouponCountsRedemptions
<1> QED
  BY <1>3, <1>4, <1>5, <1>6 DEF CheckoutNext

\* Every run of the checkout is a run of the sales services, so that stock,
\* reservations and orders keep all that is proved of them.
THEOREM CheckoutImplementsSales == CheckoutSpec => SalesSpec
<1>1. CheckoutInit => SalesInit
  BY DEF CheckoutInit
<1>2. [CheckoutNext]_checkoutVars => [SalesNext]_salesVars
  BY CheckoutSteps DEF checkoutVars, salesVars
<1> QED
  BY <1>1, <1>2, PTL DEF CheckoutSpec, SalesSpec

\* However many requests carry one token and however they interleave, at most
\* one places the order.
THEOREM TokensPlaceOnce == CheckoutSpec => []OneOrderPerToken
<1>1. ASSUME CheckoutInv PROVE OneOrderPerToken
  <2> SUFFICES ASSUME NEW o \in Orders
               PROVE  Cardinality({r \in Requests : TokenOf[r] = o /\ request[r] = "placed"}) <= 1
    BY DEF OneOrderPerToken
  <2> DEFINE placing == {r \in Requests : TokenOf[r] = o /\ request[r] = "placed"}
  <2>1. CASE placing = {}
    BY <2>1, FS_EmptySet
  <2>2. CASE placing # {}
    <3>1. PICK r \in placing : TRUE
      BY <2>2
    <3>2. placing = {r}
      BY <1>1, <3>1 DEF CheckoutInv
    <3> HIDE DEF placing
    <3>3. Cardinality(placing) = 1
      BY <3>2, FS_Singleton
    <3> QED
      BY <3>3 DEF placing
  <2> QED
    BY <2>1, <2>2
<1> QED
  BY <1>1, CheckoutInitInv, CheckoutNextInv, PTL DEF CheckoutSpec

\* The usage count of the coupon is its redemptions and stays within the limit,
\* for any limits and any number of competing checkouts.
THEOREM CouponsWithinLimit == CheckoutSpec => []CouponCountsRedemptions
<1>1. CheckoutInv => CouponCountsRedemptions
  BY DEF CheckoutInv
<1> QED
  BY <1>1, CheckoutInitInv, CheckoutNextInv, PTL DEF CheckoutSpec

-----------------------------------------------------------------------------
(* The counter *)

\* A held cart is saved, completed or discarded as the sales services do it.
LEMMA TillSteps == PosNext => [SalesNext]_salesVars
<1> SUFFICES ASSUME PosNext PROVE [SalesNext]_salesVars
  OBVIOUS
<1>1. ASSUME NEW hold \in HoldIds, NEW o \in Orders, NEW w \in Warehouses,
             NEW items \in TillCarts,
             HoldPosOrder(hold, o, w, items) \/ CompleteAtTill(hold, o, w, items)
      PROVE  SalesNext
  BY <1>1 DEF HoldPosOrder, CompleteAtTill, TillCarts, SalesNext, Save, PosSale, Editable
<1>2. ASSUME NEW o \in Orders, DiscardPosHold(o) PROVE SalesNext
  BY <1>2 DEF DiscardPosHold, SalesNext, Delete
<1>3. CASE AtTill
  BY <1>1, <1>2, <1>3 DEF AtTill, ClearOrder, salesVars
<1>4. CASE Elsewhere
  BY <1>4 DEF Elsewhere
<1> QED
  BY <1>3, <1>4 DEF PosNext

\* Every run of a counter is a run of the sales services.
THEOREM TillImplementsSales == PosSpec => SalesSpec
<1>1. PosInit => SalesInit
  BY DEF PosInit
<1>2. [PosNext]_posVars => [SalesNext]_salesVars
  BY TillSteps DEF posVars, salesVars
<1> QED
  BY <1>1, <1>2, PTL DEF PosSpec, SalesSpec

\* Inductive: a sold order is never written again, which the agreement of its
\* status with its items and the transition table guarantee.
TillInv ==
    /\ SalesIInv
    /\ unanswered \in HoldIds
    /\ timesSold \in [Orders -> Nat]
    /\ OneSalePerHold

\* A step that counts the orders it completes, and no others, keeps the count; the
\* unanswered sale stays a sale.
LEMMA CountKept ==
    ASSUME TillInv, SalesNext \/ UNCHANGED salesVars,
           \A o \in Orders : timesSold'[o] = IF Sold(o) THEN timesSold[o] + 1 ELSE timesSold[o]
    PROVE  /\ \A o \in Orders : timesSold'[o] = IF orders'[o].status = "completed" THEN 1 ELSE 0
           /\ unanswered # NoHold => orders'[unanswered].status = "completed"
<1>1. ASSUME NEW o \in Orders, orders[o].status = "completed" PROVE orders'[o] = orders[o]
  <2>1. CASE SalesNext
    BY <1>1, <2>1, SoldIsKept DEF TillInv
  <2>2. CASE UNCHANGED salesVars
    BY <2>2 DEF salesVars
  <2> QED
    BY <2>1, <2>2
<1>2. ASSUME NEW o \in Orders
      PROVE  timesSold'[o] = IF orders'[o].status = "completed" THEN 1 ELSE 0
  <2>1. timesSold[o] = IF orders[o].status = "completed" THEN 1 ELSE 0
    BY DEF TillInv, OneSalePerHold
  <2>2. CASE orders[o].status = "completed"
    BY <1>1, <2>1, <2>2 DEF Sold
  <2>3. CASE orders[o].status # "completed"
    BY <2>1, <2>3 DEF Sold
  <2> QED
    BY <2>2, <2>3
<1>3. ASSUME unanswered # NoHold PROVE orders'[unanswered].status = "completed"
  <2>1. unanswered \in Orders /\ orders[unanswered].status = "completed"
    BY <1>3 DEF TillInv, HoldIds, OneSalePerHold
  <2> QED
    BY <1>1, <2>1
<1> QED
  BY <1>2, <1>3

\* The sale of a cart at the till is counted for the order it is written to.
LEMMA TillSaleCounts ==
    ASSUME TillInv, NEW hold \in HoldIds, NEW o \in Orders, NEW w \in Warehouses,
           NEW items \in TillCarts, CompleteAtTill(hold, o, w, items)
    PROVE  /\ CartOf(hold, o) = o
           /\ orders[o].status # "completed" /\ orders'[o].status = "completed"
           /\ timesSold' \in [Orders -> Nat]
           /\ \A p \in Orders : timesSold'[p] = IF Sold(p) THEN timesSold[p] + 1 ELSE timesSold[p]
<1>1. CartOf(hold, o) = o /\ orders[o].status # "completed"
  BY DEF CompleteAtTill, OrderOfCart, CartOf, Editable
<1>2. orders' = [orders EXCEPT ![o] = [Saved("completed", w, items) EXCEPT !.issued = items]]
  BY DEF CompleteAtTill, CompletePosSale
<1>3. orders'[o].status = "completed" /\ \A p \in Orders \ {o} : orders'[p] = orders[p]
  BY <1>2 DEF TillInv, SalesIInv, SalesTypeOK, Saved
<1>4. timesSold' = [timesSold EXCEPT ![o] = @ + 1]
  BY <1>1 DEF CompleteAtTill
<1>5. timesSold \in [Orders -> Nat]
  BY DEF TillInv
<1>6. timesSold' \in [Orders -> Nat]
  BY <1>4, <1>5
<1>7. timesSold'[o] = timesSold[o] + 1 /\ \A p \in Orders \ {o} : timesSold'[p] = timesSold[p]
  BY <1>4, <1>5
<1> QED
  BY <1>1, <1>3, <1>6, <1>7 DEF Sold

LEMMA PosNextInv == TillInv /\ [PosNext]_posVars => TillInv'
<1> SUFFICES ASSUME TillInv, [PosNext]_posVars PROVE TillInv'
  OBVIOUS
<1> DEFINE Counted == \A o \in Orders :
                        timesSold'[o] = IF Sold(o) THEN timesSold[o] + 1 ELSE timesSold[o]
           Right == \/ unanswered' = unanswered
                    \/ unanswered' = NoHold
                    \/ unanswered' \in Orders /\ orders'[unanswered'].status = "completed"
<1>1. SalesIInv' /\ (SalesNext \/ UNCHANGED salesVars)
  BY TillSteps, SalesNextSalesIInv DEF TillInv, posVars, salesVars
<1>2. timesSold \in [Orders -> Nat] /\ unanswered \in HoldIds
  BY DEF TillInv
<1>3. ASSUME NEW o \in Orders, orders'[o] = orders[o] \/ orders'[o].status # "completed"
      PROVE  ~Sold(o)
  BY <1>3 DEF Sold
<1>4. ASSUME NEW hold \in HoldIds, NEW o \in Orders, NEW w \in Warehouses,
             NEW items \in TillCarts, CompleteAtTill(hold, o, w, items)
      PROVE  timesSold' \in [Orders -> Nat] /\ Counted /\ Right
  <2>1. hold \in {o, NoHold} /\ (unanswered' = NoHold \/ unanswered' = hold)
    BY <1>4 DEF CompleteAtTill, OrderOfCart, Answered, Unanswered
  <2> QED
    BY <1>4, <2>1, TillSaleCounts
<1>5. ASSUME NEW hold \in HoldIds, NEW o \in Orders, NEW w \in Warehouses,
             NEW items \in TillCarts, HoldPosOrder(hold, o, w, items),
             UNCHANGED <<unanswered, timesSold>>
      PROVE  timesSold' \in [Orders -> Nat] /\ Counted /\ Right
  <2>1. \/ orders' = [orders EXCEPT ![o] = Saved("draft", w, items)]
        \/ "draft" = "pending"
    BY <1>5 DEF HoldPosOrder, SaveSalesOrder
  <2>2. \A p \in Orders : orders'[p] = orders[p] \/ orders'[p].status # "completed"
    BY <2>1 DEF TillInv, SalesIInv, SalesTypeOK, Saved
  <2> QED
    BY <1>2, <1>3, <1>5, <2>2
<1>6. ASSUME NEW o \in Orders, DiscardPosHold(o)
      PROVE  timesSold' \in [Orders -> Nat] /\ Counted /\ Right
  <2>1. orders' = [orders EXCEPT ![o] = NoOrder] /\ timesSold' = timesSold
    BY <1>6 DEF DiscardPosHold, DeleteDraftOrder
  <2>2. \A p \in Orders : orders'[p] = orders[p] \/ orders'[p].status # "completed"
    BY <2>1 DEF TillInv, SalesIInv, SalesTypeOK, NoOrder
  <2> QED
    BY <1>2, <1>3, <1>6, <2>1, <2>2 DEF DiscardPosHold
<1>7. ASSUME ClearOrder PROVE timesSold' \in [Orders -> Nat] /\ Counted /\ Right
  <2>1. \A p \in Orders : orders'[p] = orders[p]
    BY <1>7 DEF ClearOrder
  <2>2. \A p \in Orders : ~Sold(p)
    BY <1>3, <2>1
  <2>3. timesSold' = timesSold /\ unanswered' = NoHold
    BY <1>7 DEF ClearOrder
  <2> QED
    BY <1>2, <2>2, <2>3
<1>8. ASSUME AtTill PROVE timesSold' \in [Orders -> Nat] /\ Counted /\ Right
  <2> HIDE DEF Counted, Right
  <2> QED
    BY <1>4, <1>5, <1>6, <1>7, <1>8 DEF AtTill
<1>9. ASSUME Elsewhere PROVE timesSold' \in [Orders -> Nat] /\ Counted /\ Right
  <2>1. /\ timesSold' = [o \in Orders |-> IF Sold(o) THEN timesSold[o] + 1 ELSE timesSold[o]]
        /\ unanswered' = unanswered
    BY <1>9 DEF Elsewhere
  <2>2. Counted /\ Right
    BY <2>1
  <2>3. ASSUME NEW o \in Orders
        PROVE  (IF Sold(o) THEN timesSold[o] + 1 ELSE timesSold[o]) \in Nat
    BY <1>2
  <2>4. timesSold' \in [Orders -> Nat]
    BY <2>1, <2>3
  <2> QED
    BY <2>2, <2>4
<1>10. ASSUME UNCHANGED posVars PROVE timesSold' \in [Orders -> Nat] /\ Counted /\ Right
  <2>1. \A p \in Orders : orders'[p] = orders[p]
    BY <1>10 DEF posVars
  <2>2. \A p \in Orders : ~Sold(p)
    BY <1>3, <2>1
  <2>3. timesSold' = timesSold /\ unanswered' = unanswered
    BY <1>10 DEF posVars
  <2> QED
    BY <1>2, <2>2, <2>3
<1>11. timesSold' \in [Orders -> Nat] /\ Counted /\ Right
  <2> HIDE DEF Counted, Right
  <2> QED
    BY <1>8, <1>9, <1>10 DEF PosNext
<1> QED
  <2>1. /\ \A o \in Orders : timesSold'[o] = IF orders'[o].status = "completed" THEN 1 ELSE 0
        /\ unanswered # NoHold => orders'[unanswered].status = "completed"
    BY <1>1, <1>11, CountKept
  <2>2. unanswered' \in HoldIds
    BY <1>2, <1>11 DEF HoldIds
  <2>3. unanswered' # NoHold => orders'[unanswered'].status = "completed"
    BY <1>11, <2>1
  <2> QED
    BY <1>1, <1>11, <2>1, <2>2, <2>3 DEF TillInv, OneSalePerHold

\* However often a held cart is posted, held, completed and edited, from this counter
\* and from other pages, it is sold once at most, and as the order that holds it.
THEOREM HeldCartsSellOnce == PosSpec => []OneSalePerHold
<1>1. PosInit => TillInv
  <2>1. SUFFICES ASSUME PosInit PROVE TillInv
    OBVIOUS
  <2>2. SalesInit /\ unanswered = NoHold /\ timesSold = [o \in Orders |-> 0]
    BY <2>1 DEF PosInit
  <2>3. SalesIInv
    BY <2>2, SalesInitSalesIInv
  <2>4. \A o \in Orders : orders[o].status = "absent"
    BY <2>2 DEF SalesInit, NoOrder
  <2>5. OneSalePerHold
    BY <2>2, <2>4 DEF OneSalePerHold
  <2> QED
    BY <2>2, <2>3, <2>5 DEF TillInv, HoldIds
<1>2. TillInv => OneSalePerHold
  BY DEF TillInv
<1> QED
  BY <1>1, <1>2, PosNextInv, PTL DEF PosSpec
=============================================================================
