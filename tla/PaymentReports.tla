--------------------------- MODULE PaymentReports ---------------------------
(***************************************************************************)
(* What the dashboard tells of the payments and returns of an order: the   *)
(* figures of the payments page (backoffice/payment_views.py) and of the   *)
(* payment, returns and customer due reports (reports/after_sales.py,      *)
(* reports/stock_purchase.py).  Each is computed from other rows.          *)
(*                                                                         *)
(* The reports are taken over all dates, for a customer with this order    *)
(* and no opening due.                                                     *)
(***************************************************************************)
EXTENDS Returns

-----------------------------------------------------------------------------
(* Payments *)

\* Money In, Money Out and Net Cash Flow of the payments page.
PageMoneyIn  == Total([p \in Slots |-> IF Counts(txn[p]) THEN txn[p].amount ELSE 0], MaxAmount)
PageMoneyOut == Total([p \in Slots |-> txn[p].refunded], MaxAmount)
PageNetCashFlow == PageMoneyIn - PageMoneyOut

\* _payment_report: what is completed, a reversal included, a payment it reversed not.
CompletedMoneyIn ==
    Total([p \in Slots |-> IF txn[p].status = "completed" THEN txn[p].amount ELSE 0], MaxAmount)
CompletedMoneyOut == Total([p \in Slots |-> txn[p].refunded], MaxAmount)
ReportedNetCashFlow == CompletedMoneyIn - CompletedMoneyOut

-----------------------------------------------------------------------------
(* Returns and dues *)

\* What the lines of a return put back.
Restocked(lines) == Total([i \in Items |-> IF lines[i].restock THEN lines[i].qty ELSE 0], MaxUnits)

\* _returns_report: units restocked and credit given by the completed returns; one
\* return has no more of either than was sold.
RestockedUnits ==
    Total([r \in Returns |-> IF Claims(r, {"completed"}) THEN Restocked(returns[r].lines) ELSE 0],
          Total(Sold, MaxUnits))
CompletedCredit ==
    Total([r \in Returns |-> IF Claims(r, {"completed"}) THEN CreditOf(returns[r].lines) ELSE 0],
          Total(LineTotal, MaxAmount))

\* _customer_due_report: the sale less the credit of its returns and the net payments.
NetPaid == PageMoneyIn - PageMoneyOut
CustomerDue ==
    IF order.status \in {"draft", "cancelled"} THEN 0
    ELSE Larger(order.total - CompletedCredit - NetPaid, 0)

\* SalesOrder.amount_due.
AmountDue == Larger(Payable(order) - order.paid, 0)

-----------------------------------------------------------------------------
(* Properties *)

\* What the returns report adds up from the lines of the returns is what the shelf got
\* back and what the order was credited: each unit comes back once, and the credit of
\* the order is that of its completed returns and of no other.
AfterSalesAgree ==
    /\ RestockedUnits = Total(back, MaxUnits)
    /\ CompletedCredit = order.credit

\* The customer owes on the due report, which starts from the sale, its returns and
\* the payment ledger, what the order says from its cached amount.
DuesAgree == order.status \notin {"draft", "cancelled"} => CustomerDue = AmountDue

\* The payments page and the payment report show one Net Cash Flow of one ledger
\* (REPORTS_PHASE.md:3, "so operational reporting remains reconcilable with the
\* Accounting General Ledger"; there a reversed payment and its reversal cancel).
NetCashFlowAgrees == ReportedNetCashFlow = PageNetCashFlow
=============================================================================
