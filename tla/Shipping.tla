------------------------------ MODULE Shipping ------------------------------
(***************************************************************************)
(* The shipment of an order and the money its courier collects,            *)
(* shipping/services.py, on top of the order's payment ledger.             *)
(*                                                                         *)
(* An order has at most one shipment (a one-to-one column).  Every service *)
(* locks the shipment row, with the order row joined to it, so it is one   *)
(* step.  A settlement pays for several shipments of different orders in   *)
(* one transaction; what it does to one of them is SettleCOD.              *)
(***************************************************************************)
EXTENDS Payments

VARIABLES
    ship,           \* Shipment: status and COD columns
    codPayments     \* the payments that CODSettlementItem rows link to

shipVars == <<order, txn, ship, codPayments>>

\* The parcel is with the courier in one of these, or on its way back.
Outward == {"handed_over", "in_transit", "out_for_delivery", "delivered"}
Homeward == {"returning", "returned"}

\* ALLOWED_SHIPMENT_TRANSITIONS
ShipmentTransitions ==
    [none             |-> {},
     draft            |-> {"ready", "cancelled"},
     ready            |-> {"handed_over", "cancelled"},
     handed_over      |-> {"in_transit", "out_for_delivery", "delivered", "failed", "returning"},
     in_transit       |-> {"out_for_delivery", "delivered", "failed", "returning"},
     out_for_delivery |-> {"delivered", "failed", "returning"},
     failed           |-> {"out_for_delivery", "returning", "returned"},
     returning        |-> {"returned"},
     delivered        |-> {}, returned |-> {}, cancelled |-> {}]

ShipmentStatuses == DOMAIN ShipmentTransitions

\* Slip: a short collection that was settled counts as settled.
CODStatusOfSettled(expected, collected, settled) ==
    CASE expected = 0 -> "not_applicable"
      [] expected > 0 /\ collected = 0 -> "pending"
      [] expected > 0 /\ collected > 0 /\ settled >= collected -> "settled"
      [] expected > 0 /\ settled < collected /\ collected < expected -> "disputed"
      [] expected > 0 /\ collected = expected /\ 0 < settled /\ settled < collected -> "partially_settled"
      [] OTHER -> "collected"

\* _shipment_cod_status
CODStatusOf(expected, collected, settled) ==
    CASE expected = 0 -> "not_applicable"
      [] expected > 0 /\ collected = 0 -> "pending"
      [] 0 < collected /\ collected < expected -> "disputed"
      [] expected > 0 /\ collected = expected /\ settled >= collected -> "settled"
      [] expected > 0 /\ collected = expected /\ 0 < settled /\ settled < collected -> "partially_settled"
      [] OTHER -> "collected"

NoShipment == [status |-> "none", expected |-> 0, collected |-> 0, settled |-> 0,
               codStatus |-> "not_applicable"]

\* outstanding_amount of the order row.
OrderDue == Larger(Payable(order) - order.paid, 0)

-----------------------------------------------------------------------------
(* Services *)

CreateShipment(cod) ==
    /\ ship = NoShipment
    /\ order.status \in {"confirmed", "processing", "completed"}
    /\ cod <= OrderDue
    /\ ship' = [NoShipment EXCEPT !.status = "draft", !.expected = cod,
                                  !.codStatus = CODStatusOf(cod, 0, 0)]
    /\ UNCHANGED <<order, txn, codPayments>>

\* Slip: the order is completed when the parcel is delivered.
FulfilledOnDelivery(new) ==
    IF new = "delivered"
    THEN /\ order.status \in {"confirmed", "processing", "completed"}
         /\ order' = [order EXCEPT !.status = "completed"]
    ELSE UNCHANGED order

\* _complete_sales_fulfillment: the stock leaves when the courier has the parcel.
Fulfilled(new) ==
    IF new \in Outward
    THEN /\ order.status \in {"confirmed", "processing", "completed"}
         /\ order' = [order EXCEPT !.status = "completed"]
    ELSE UNCHANGED order

\* What a status change may record as collected: the amount given with the
\* delivery of a COD parcel, or the one recorded before when none is given.
Collected(new, given) ==
    IF new = "delivered" /\ ship.expected > 0
    THEN {c \in {given, ship.collected} : ship.collected <= c /\ 0 < c /\ c <= ship.expected}
    ELSE {ship.collected}

ChangeShipmentStatus(new, given) ==
    /\ new \in ShipmentTransitions[ship.status]
    /\ Fulfilled(new)
    /\ \E collected \in Collected(new, given) :
          ship' = [ship EXCEPT
              !.status = new,
              !.collected = collected,
              !.codStatus = IF new \in Homeward /\ ship.expected > 0 THEN "disputed"
                            ELSE CODStatusOf(ship.expected, collected, ship.settled)]
    /\ UNCHANGED <<txn, codPayments>>

\* Slip: each settlement is compared with the whole collection.
SettleAgain(p, amount) ==
    /\ ship.status = "delivered"
    /\ amount <= ship.collected
    /\ amount <= OrderDue
    /\ txn[p].status = "none"
    /\ txn' = [txn EXCEPT ![p] = [NewPayment("completed", amount) EXCEPT !.reconciled = TRUE]]
    /\ order' = Synced(order, txn')
    /\ codPayments' = codPayments \cup {p}
    /\ ship' = [ship EXCEPT !.settled = @ + amount,
                            !.codStatus = CODStatusOf(ship.expected, ship.collected, ship.settled + amount)]

\* post_cod_settlement for this shipment: a payment of the order, captured and
\* reconciled at once.
SettleCOD(p, amount) ==
    /\ ship.status = "delivered"
    /\ amount <= ship.collected - ship.settled
    /\ amount <= OrderDue
    /\ txn[p].status = "none"
    /\ txn' = [txn EXCEPT ![p] = [NewPayment("completed", amount) EXCEPT !.reconciled = TRUE]]
    /\ order' = Synced(order, txn')
    /\ codPayments' = codPayments \cup {p}
    /\ ship' = [ship EXCEPT !.settled = @ + amount,
                            !.codStatus = CODStatusOf(ship.expected, ship.collected, ship.settled + amount)]

-----------------------------------------------------------------------------

ShipInit ==
    /\ PayInit
    /\ ship = NoShipment
    /\ codPayments = {}

Ship   == \E cod \in 0 .. MaxAmount : CreateShipment(cod)
Track  == \E new \in ShipmentStatuses, given \in 0 .. MaxAmount : ChangeShipmentStatus(new, given)
Settle == \E p \in Slots, a \in Amounts : SettleCOD(p, a)

\* Beside the shipment, every service on the order and its payments runs.
ShipNext ==
    \/ Ship \/ Track \/ Settle
    \/ PayNext /\ UNCHANGED <<ship, codPayments>>

ShipSpec == ShipInit /\ [][ShipNext]_shipVars

-----------------------------------------------------------------------------
(* Properties *)

\* A parcel the courier has, had or brings back belongs to an order that is
\* completed, its stock issued: an order cancelled while the parcel was being
\* packed is never handed over.
HandedOverIsSold ==
    ship.status \notin {"none", "draft", "ready", "cancelled"} => order.status = "completed"

\* The courier's money is accounted for: no more is settled than collected, no
\* more collected than expected, and what is settled is the sum of the payments
\* that the settlements made, each recorded once.
CODExplained ==
    /\ ship.settled <= ship.collected
    /\ ship.collected <= ship.expected
    /\ ship.settled = Total([p \in Slots |-> IF p \in codPayments THEN txn[p].amount ELSE 0], MaxAmount)

\* The COD status tells the cases apart that need a person: a parcel whose
\* money is short or that comes back stays disputed, whatever is settled, and
\* SETTLED is said only when everything expected has arrived.
CODStatusHonest ==
    /\ ship.codStatus = "disputed" <=>
          \/ ship.status \in Homeward /\ ship.expected > 0
          \/ 0 < ship.collected /\ ship.collected < ship.expected
    /\ ship.codStatus = "settled" =>
          ship.settled = ship.expected /\ ship.expected > 0 /\ ship.status = "delivered"
=============================================================================
