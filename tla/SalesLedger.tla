----------------------------- MODULE SalesLedger -----------------------------
(***************************************************************************)
(* The journals of sales orders and their payments: post_sales_order and   *)
(* post_payment_transaction of accounting/services.py, the receivers of    *)
(* accounting/signals.py and the services of payments/services.py whose    *)
(* saves reach them.                                                       *)
(*                                                                         *)
(* The receivers run on every save, not on the change of a status: whoever *)
(* saves a COMPLETED order or a COMPLETED or REVERSED payment posts its    *)
(* journals again, and relies on the source key to post them once.  A save *)
(* that finds a cost where there was none before posts that journal late.  *)
(* A payment pays the whole order, and an order is paid or returned;       *)
(* Payments and ReturnRefunds model the amounts.                           *)
(***************************************************************************)
EXTENDS Costing

CONSTANTS
    Orders,
    DateOf,         \* DateOf[o]: order_date, the month of its journals
    Terms,          \* Terms[o]: units issued, subtotal, discount, shipping of o
    Receipts,       \* PaymentTransactions of sales, with their reversals
    OrderOf,        \* OrderOf[p]: the order of payment p
    Returns,        \* SalesReturns
    ReturnOf        \* ReturnOf[r]: the order of return r

ASSUME SalesLedgerAssumption ==
    /\ DateOf \in [Orders -> Months]
    /\ Terms \in [Orders -> [units : Nat, subtotal : Nat, discount : Nat, shipping : Nat]]
    /\ OrderOf \in [Receipts -> Orders]
    /\ IsFiniteSet(Returns)
    /\ ReturnOf \in [Returns -> Orders]

VARIABLES
    completed,      \* orders that are COMPLETED
    receipt,        \* PaymentTransaction: status and transaction_date
    returned        \* SalesReturn: credit_total, restocked_total, completed_date

saleVars == <<completed, receipt, returned>>

RevenueKey(o) == <<"revenue", o, 0>>
CostKey(o) == <<"cost", o, 0>>
ReceiptKey(p) == <<"payment", p, 0>>
ReversalKey(p) == <<"payment", p, 1>>
CreditKey(r) == <<"credit", r, 0>>
RestockKey(r) == <<"restock", r, 0>>

NoReceipt == [status |-> "absent", month |-> 0]
NotReturned == [credit |-> 0, restocked |-> 0, month |-> 0]

ReturnsOf(o) == {r \in Returns : ReturnOf[r] = o /\ returned[r] # NotReturned}

Positive(n) == IF n > 0 THEN n ELSE 0

GrandTotal(o) == Positive(Terms[o].subtotal - Terms[o].discount + Terms[o].shipping)

\* Slip: the debits of a journal are not compared with its credits.
AnyBalance(o) == o \in Orders

\* The two credit lines of the revenue journal; post_journal refuses one that
\* is not balanced, which it is not when the discount exceeds the subtotal.
ProductRevenue(o) == Positive(Terms[o].subtotal - Terms[o].discount)
Balanced(o) == GrandTotal(o) = 0 \/ GrandTotal(o) = ProductRevenue(o) + Terms[o].shipping

\* sales_order_cogs
OrderCost(o) == Terms[o].units * WeightedCost(DateOf[o])

\* The net of sales_payment_totals, by what it counts.
Paid(o) == \E p \in Receipts : OrderOf[p] = o /\ receipt[p].status = "completed"

\* post_sales_order: revenue, and the cost there is at the moment.
OrderEntries(o) ==
    Worth(RevenueKey(o), GrandTotal(o), DateOf[o]) ++ Worth(CostKey(o), OrderCost(o), DateOf[o])

\* The journals a save of the order posts.
SaleEntries(o) == IF o \in completed THEN OrderEntries(o) ELSE <<>>

\* The journals a save of the payment posts.
ReceiptEntries(p, m) == Journal(ReceiptKey(p), GrandTotal(OrderOf[p]), m)

\* post_sales_return: the credit, and the cost of what goes back on the shelf,
\* as of the date of the order.
ReturnEntries(r, credit, restocked, m) ==
    Worth(CreditKey(r), credit, m)
        ++ Worth(RestockKey(r), restocked * WeightedCost(DateOf[ReturnOf[r]]), m)

-----------------------------------------------------------------------------

\* transition_order to COMPLETED.
CompleteSale(o) ==
    /\ o \notin completed
    /\ Balanced(o)
    /\ Posts(OrderEntries(o))
    /\ completed' = completed \cup {o}
    /\ UNCHANGED <<receipt, returned, goodsVars>>

\* capture_sales_payment as PENDING: neither saved order nor journal.
CapturePending(p, m) ==
    /\ receipt[p] = NoReceipt
    /\ receipt' = [receipt EXCEPT ![p] = [status |-> "pending", month |-> m]]
    /\ UNCHANGED <<completed, returned, goodsVars, ledgerVars>>

\* capture_sales_payment as COMPLETED: the payment is saved, then its order.
CapturePayment(p, m) ==
    /\ receipt[p] = NoReceipt
    /\ ~Paid(OrderOf[p])
    /\ Posts(ReceiptEntries(p, m) ++ SaleEntries(OrderOf[p]))
    /\ receipt' = [receipt EXCEPT ![p] = [status |-> "completed", month |-> m]]
    /\ UNCHANGED <<completed, returned, goodsVars>>

\* complete_pending_payment: the journal has the date of the pending payment.
CompletePending(p) ==
    /\ receipt[p].status = "pending"
    /\ ~Paid(OrderOf[p])
    /\ Posts(ReceiptEntries(p, receipt[p].month) ++ SaleEntries(OrderOf[p]))
    /\ receipt' = [receipt EXCEPT ![p].status = "completed"]
    /\ UNCHANGED <<completed, returned, goodsVars>>

\* fail_pending_payment
FailPending(p) ==
    /\ receipt[p].status = "pending"
    /\ receipt' = [receipt EXCEPT ![p].status = "failed"]
    /\ UNCHANGED <<completed, returned, goodsVars, ledgerVars>>

\* Slip: the reversal is booked under the key of the payment.
ReverseUnderSameKey(p, m) ==
    /\ receipt[p].status = "completed"
    /\ Posts(ReceiptEntries(p, m) ++ SaleEntries(OrderOf[p]))
    /\ receipt' = [receipt EXCEPT ![p].status = "reversed"]
    /\ UNCHANGED <<completed, returned, goodsVars>>

\* reverse_sales_payment: the reversal is saved, then the payment as REVERSED,
\* then the order.
ReversePayment(p, m) ==
    /\ receipt[p].status = "completed"
    /\ Posts(Journal(ReversalKey(p), GrandTotal(OrderOf[p]), m)
             ++ ReceiptEntries(p, receipt[p].month) ++ SaleEntries(OrderOf[p]))
    /\ receipt' = [receipt EXCEPT ![p].status = "reversed"]
    /\ UNCHANGED <<completed, returned, goodsVars>>

\* reconcile_payment, and sync_sales_order_payment of the modules that change
\* what the order is owed: a save that books nothing new.
ReconcilePayment(p) ==
    /\ receipt[p].status \in {"completed", "reversed"}
    /\ Posts(ReceiptEntries(p, receipt[p].month))
    /\ UNCHANGED <<saleVars, goodsVars>>

SaveOrder(o) ==
    /\ Posts(SaleEntries(o))
    /\ UNCHANGED <<saleVars, goodsVars>>

\* complete_sales_return: sync_sales_order_payment saves the order, whose journals
\* are posted before those of the return.
CompleteReturn(r, credit, restocked, m) ==
    LET o == ReturnOf[r] IN
    /\ o \in completed
    /\ returned[r] = NotReturned
    /\ credit + restocked > 0
    /\ credit + Sum([x \in ReturnsOf(o) |-> returned[x].credit]) <= GrandTotal(o)
    /\ restocked + Sum([x \in ReturnsOf(o) |-> returned[x].restocked]) <= Terms[o].units
    /\ Posts(ReturnEntries(r, credit, restocked, m) ++ SaleEntries(o))
    /\ returned' = [returned EXCEPT ![r] = [credit |-> credit, restocked |-> restocked, month |-> m]]
    /\ UNCHANGED <<completed, receipt, goodsVars>>

-----------------------------------------------------------------------------

SaleInit ==
    /\ completed = {}
    /\ receipt = [p \in Receipts |-> NoReceipt]
    /\ returned = [r \in Returns |-> NotReturned]

SaleNext ==
    \/ \E o \in Orders : CompleteSale(o) \/ SaveOrder(o)
    \/ \E p \in Receipts : CompletePending(p) \/ FailPending(p) \/ ReconcilePayment(p)
    \/ \E p \in Receipts, m \in Months : CapturePending(p, m) \/ CapturePayment(p, m)
                                            \/ ReversePayment(p, m)
    \/ \E r \in Returns, m \in Months :
          \E credit \in 0 .. GrandTotal(ReturnOf[r]), restocked \in 0 .. Terms[ReturnOf[r]].units :
             CompleteReturn(r, credit, restocked, m)

-----------------------------------------------------------------------------
(* Properties *)

\* Every sale, payment, reversal and return is booked once and nothing else is:
\* an order has its revenue exactly when it is COMPLETED and worth something, a
\* payment when it was ever COMPLETED, on the date it bears, its reversal once
\* it is REVERSED, and a return its credit once it is completed.
SalesMatchBooks ==
    /\ \A o \in Orders : Journaled(RevenueKey(o)) <=> o \in completed /\ GrandTotal(o) > 0
    /\ \A p \in Receipts :
          /\ Journaled(ReceiptKey(p)) <=> receipt[p].status \in {"completed", "reversed"}
          /\ Journaled(ReceiptKey(p)) => book[ReceiptKey(p)].months[1] = receipt[p].month
          /\ Journaled(ReversalKey(p)) <=> receipt[p].status = "reversed"
    /\ \A r \in Returns : Journaled(CreditKey(r)) <=> returned[r].credit > 0

\* "Sellable inventory returned to stock also restores recognized cost"
\* (ACCOUNTING_SYSTEM_PHASE.md:127): the returns of an order take back no more
\* cost than its sale recognized.
RecognizedCostRestored ==
    \A o \in Orders :
        Sum([r \in ReturnsOf(o) |-> book[RestockKey(r)].amount]) <= book[CostKey(o)].amount
=============================================================================
