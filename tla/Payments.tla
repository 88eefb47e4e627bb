------------------------------ MODULE Payments ------------------------------
(***************************************************************************)
(* The payment ledger of one sales order: payments/services.py, the        *)
(* compatibility receiver of payments/signals.py and the services of       *)
(* sales/services.py that write amount_paid.                               *)
(*                                                                         *)
(* Sale payments fill the rows Slots, a larger number being newer in the   *)
(* ledger order (transaction_date, id); a refund or reversal is kept with  *)
(* the payment it belongs to, as the amount refunded so far.  Every        *)
(* service that writes money locks the order row, so it is one step.       *)
(* A service that raises (an inactive method, a missing reference) rolls   *)
(* back: it is a step not taken.                                           *)
(***************************************************************************)
EXTENDS Integers, FiniteSets, OrderStatus, Totals

CONSTANTS
    Slots,          \* rows for sale payments, in ledger order
    MaxAmount       \* bound: no total and no payment is above it

ASSUME PaymentsAssumption ==
    /\ Slots \subseteq Nat
    /\ IsFiniteSet(Slots)
    /\ MaxAmount \in Nat

VARIABLES
    order,          \* SalesOrder: status, totals, cached amount_paid
    txn             \* PaymentTransaction: the sale payments

payVars == <<order, txn>>

Amounts == 1 .. MaxAmount

NewPayment(status, amount) ==
    [status |-> status, amount |-> amount, refunded |-> 0, reconciled |-> FALSE]

NoPayment == NewPayment("none", 0)

Larger(a, b) == IF a >= b THEN a ELSE b
Smaller(a, b) == IF a <= b THEN a ELSE b

Payable(o) == Larger(o.total - o.credit, 0)
\* The payments that count as money in: a reversed one, too, since its
\* reversal counts as money out.
Counts(payment) == payment.status \in {"completed", "reversed"}

\* Slip: only completed payments count as money in, while a reversal's refund
\* still counts as money out.
IncomingCompleted(t) ==
    Total([p \in Slots |-> IF t[p].status = "completed" THEN t[p].amount ELSE 0], MaxAmount)

\* sales_payment_totals of the ledger t.
Incoming(t) == Total([p \in Slots |-> IF Counts(t[p]) THEN t[p].amount ELSE 0], MaxAmount)
Outgoing(t) == Total([p \in Slots |-> t[p].refunded], MaxAmount)
Net(t) == Larger(Incoming(t) - Outgoing(t), 0)

Outstanding == Larger(Payable(order) - Net(txn), 0)

\* Slip: what was refunded before is forgotten.
RefundableInFull(payment) == IF Counts(payment) THEN payment.amount ELSE 0

\* refundable_amount of a payment that counts.
Refundable(payment) ==
    IF Counts(payment) THEN Larger(payment.amount - payment.refunded, 0) ELSE 0

-----------------------------------------------------------------------------
(* Payment status and synchronization *)

\* _derive_payment_status, from the cached amount.
DerivedStatus(o) ==
    CASE Payable(o) <= 0 /\ o.credit > 0 -> "refunded"
      [] ~(Payable(o) <= 0 /\ o.credit > 0) /\ o.paid <= 0 -> "unpaid"
      [] ~(Payable(o) <= 0 /\ o.credit > 0) /\ o.paid > 0 /\ o.paid >= Payable(o) -> "paid"
      [] OTHER -> "partial"

\* Slip: a payment of exactly the payable total leaves the order PARTIAL.
LedgerStatusStrict(o, t) ==
    CASE Payable(o) <= 0 /\ o.credit > 0 -> "refunded"
      [] ~(Payable(o) <= 0 /\ o.credit > 0) /\ Net(t) <= 0 ->
            IF Incoming(t) > 0 /\ Outgoing(t) > 0 THEN "refunded" ELSE "unpaid"
      [] ~(Payable(o) <= 0 /\ o.credit > 0) /\ Net(t) > Payable(o) -> "paid"
      [] OTHER -> "partial"

\* The status _sync_sales_order derives from the ledger.
LedgerStatus(o, t) ==
    CASE Payable(o) <= 0 /\ o.credit > 0 -> "refunded"
      [] ~(Payable(o) <= 0 /\ o.credit > 0) /\ Net(t) <= 0 ->
            IF Incoming(t) > 0 /\ Outgoing(t) > 0 THEN "refunded" ELSE "unpaid"
      [] ~(Payable(o) <= 0 /\ o.credit > 0) /\ Net(t) > 0 /\ Net(t) >= Payable(o) -> "paid"
      [] OTHER -> "partial"

\* Slip: amount_paid follows the money that came in, whatever was refunded.
SyncedToIncoming(o, t) ==
    [o EXCEPT !.paid = Smaller(Incoming(t), Payable(o)),
              !.payStatus = LedgerStatus(o, t)]

\* _sync_sales_order.  Its save runs the receiver, which finds nothing to
\* mirror as long as the ledger is not above the payable total; the one
\* service that syncs while it is above is in ReturnRefunds.
Synced(o, t) ==
    [o EXCEPT !.paid = Smaller(Net(t), Payable(o)),
              !.payStatus = LedgerStatus(o, t)]

-----------------------------------------------------------------------------
(* Ledger writes *)

\* A completed payment of amount in row p.
Captured(p, amount) ==
    /\ txn[p].status = "none"
    /\ txn' = [txn EXCEPT ![p] = NewPayment("completed", amount)]

\* The ways the receiver splits a refund of need over the payments: the newest
\* refundable one gives all it has before an older one gives anything.
NewestFirst(need) ==
    {take \in [Slots -> 0 .. MaxAmount] :
        /\ \A p \in Slots : take[p] <= Refundable(txn[p])
        /\ \A p, q \in Slots : p < q /\ take[p] > 0 => take[q] = Refundable(txn[q])
        /\ Total(take, MaxAmount) = need}

Refunded(take) == txn' = [p \in Slots |-> [txn[p] EXCEPT !.refunded = @ + take[p]]]

\* mirror_legacy_sales_paid_amount: the ledger follows an amount_paid that was
\* written directly, by a payment or by refunds of the difference.
\* The capture refuses draft and cancelled orders and never overpays.
Mirror(status, desired) ==
    \/ /\ desired = Net(txn)
       /\ UNCHANGED txn
    \/ \E p \in Slots :
       /\ desired > Net(txn)
       /\ status \notin {"draft", "cancelled"}
       /\ desired - Net(txn) <= Outstanding
       /\ Captured(p, desired - Net(txn))
    \/ /\ desired < Net(txn)
       /\ \E take \in NewestFirst(Net(txn) - desired) :
             Refunded(take)

-----------------------------------------------------------------------------
(* Services *)

CapturePayment(p, amount) ==
    /\ order.status \notin {"draft", "cancelled"}
    /\ amount <= Outstanding
    /\ Captured(p, amount)
    /\ order' = Synced(order, txn')

\* capture_sales_payment with status PENDING or FAILED: no money has moved.
RegisterPayment(p, amount, status) ==
    /\ order.status \notin {"draft", "cancelled"}
    /\ txn[p].status = "none"
    /\ txn' = [txn EXCEPT ![p] = NewPayment(status, amount)]
    /\ UNCHANGED order

CompletePendingPayment(p) ==
    /\ txn[p].status = "pending"
    /\ txn[p].amount <= Outstanding
    /\ txn' = [txn EXCEPT ![p].status = "completed"]
    /\ order' = Synced(order, txn')

FailPendingPayment(p) ==
    /\ txn[p].status = "pending"
    /\ txn' = [txn EXCEPT ![p].status = "failed"]
    /\ UNCHANGED order

RefundPayment(p, amount) ==
    /\ Counts(txn[p])
    /\ amount <= Refundable(txn[p])
    /\ txn' = [txn EXCEPT ![p].refunded = @ + amount]
    /\ order' = Synced(order, txn')

ReversePayment(p) ==
    /\ txn[p].status = "completed"
    /\ ~txn[p].reconciled
    /\ Refundable(txn[p]) = txn[p].amount
    /\ txn' = [txn EXCEPT ![p].status = "reversed", ![p].refunded = @ + txn[p].amount]
    /\ order' = Synced(order, txn')

\* A disputed payment is not a reconciled one.
ReconcilePayment(p, reconciled) ==
    /\ txn[p].status # "none"
    /\ txn' = [txn EXCEPT ![p].reconciled = reconciled]
    /\ UNCHANGED order

\* update_order_payment: the amount is written to the order, the receiver
\* mirrors it, and a ledger write syncs the order again.
UpdateOrderPayment(desired) ==
    /\ order.status # "cancelled"
    /\ desired <= Payable(order)
    /\ Mirror(order.status, desired)
    /\ order' = IF desired = Net(txn)
                THEN [order EXCEPT !.paid = desired,
                                   !.payStatus = DerivedStatus([order EXCEPT !.paid = desired])]
                ELSE Synced(order, txn')

\* Slip: the amount is not compared with the new total.
EditUnchecked(status, total, desired) ==
    LET edited == [order EXCEPT !.status = status, !.total = total, !.paid = desired] IN
    /\ order.status \in Editable
    /\ Mirror(status, desired)
    /\ order' = [edited EXCEPT !.payStatus = DerivedStatus(edited)]

\* save_sales_order of an editable order: the header with amount_paid is saved
\* and mirrored first, against the old total; then the items give a new total.
EditOrder(status, total, desired) ==
    LET edited == [order EXCEPT !.status = status, !.total = total, !.paid = desired] IN
    /\ order.status \in Editable
    /\ Mirror(status, desired)
    /\ desired <= Payable(edited)
    /\ order' = [edited EXCEPT !.payStatus = DerivedStatus(edited)]

\* transition_order; whether the stock allows it is SalesOrders' matter.
TransitionOrder(new) ==
    /\ new \in AllowedTransitions[order.status]
    /\ order' = [order EXCEPT !.status = new]
    /\ UNCHANGED txn

-----------------------------------------------------------------------------

\* A new order; the payment columns have their defaults.
PayInit ==
    /\ \E status \in Editable, total \in 0 .. MaxAmount :
          order = [status |-> status, total |-> total, credit |-> 0,
                   paid |-> 0, payStatus |-> "unpaid"]
    /\ txn = [p \in Slots |-> NoPayment]

Capture    == \E p \in Slots, a \in Amounts : CapturePayment(p, a)
Register   == \E p \in Slots, a \in Amounts, s \in {"pending", "failed"} : RegisterPayment(p, a, s)
CompletePending == \E p \in Slots : CompletePendingPayment(p)
Fail       == \E p \in Slots : FailPendingPayment(p)
Refund     == \E p \in Slots, a \in Amounts : RefundPayment(p, a)
Reversal   == \E p \in Slots : ReversePayment(p)
Reconcile  == \E p \in Slots, r \in BOOLEAN : ReconcilePayment(p, r)
Update     == \E desired \in 0 .. MaxAmount : UpdateOrderPayment(desired)
Edit       == \E s \in Editable, total, desired \in 0 .. MaxAmount : EditOrder(s, total, desired)
Transition == \E new \in Statuses : TransitionOrder(new)

PayNext ==
    \/ Capture \/ Register \/ CompletePending \/ Fail
    \/ Refund \/ Reversal \/ Reconcile
    \/ Update \/ Edit \/ Transition

PaySpec == PayInit /\ [][PayNext]_payVars

-----------------------------------------------------------------------------
(* Properties *)

PayStatuses == {"unpaid", "partial", "paid", "refunded"}

Order == [status : Statuses, total : Nat, credit : Nat, paid : Nat, payStatus : PayStatuses]

Payment == [status : {"none", "pending", "completed", "failed", "reversed"},
            amount : 0 .. MaxAmount, refunded : Nat, reconciled : BOOLEAN]

\* Types of the columns; the cached amount is never negative.
PayTypeOK == order \in Order /\ txn \in [Slots -> Payment]

WithinPayment(payment) ==
    /\ payment.refunded <= payment.amount
    /\ ~Counts(payment) => payment.refunded = 0
    /\ payment.status = "reversed" => payment.refunded = payment.amount

\* No payment is given back more than once over: refunds from the dashboard,
\* reversals and refunds mirrored from the order share one allowance; what
\* never came in is never given back, and a reversal is of the whole payment.
RefundsWithinPayment == \A p \in Slots : WithinPayment(txn[p])

PaidFits(o, t) ==
    /\ o.paid = Incoming(t) - Outgoing(t)
    /\ o.paid <= Payable(o)

\* amount_paid is what the ledger says, never more than is payable: the two
\* truths do not drift apart, through edits, mirrored writes and reversals.
CacheMatchesLedger == PaidFits(order, txn)

StatusFits(o, t) ==
    /\ o.payStatus = "paid" <=> o.paid > 0 /\ o.paid >= Payable(o)
    /\ o.payStatus = "partial" <=> o.paid > 0 /\ o.paid < Payable(o)
    /\ o.payStatus = "refunded" => Outgoing(t) > 0 \/ o.credit > 0

\* The payment status, written by three services with two different rules,
\* always fits the amounts; REFUNDED is said only when money or credit went back.
StatusSaysPaid == StatusFits(order, txn)

\* What the two aggregates of the ledger say is what its payments say one by
\* one: the net amount is exactly what is still refundable on some payment, so
\* no part of it can get stuck on a row that refuses the refund.
NetIsRefundable ==
    Net(txn) = Total([p \in Slots |-> Refundable(txn[p])], MaxAmount)
=============================================================================
