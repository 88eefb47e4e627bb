----------------------------- MODULE SalesReport -----------------------------
(***************************************************************************)
(* The sales and profit report, reports/services.py: net sales, cost and   *)
(* profit of every completed order, taken from the order and its returns,  *)
(* with the cost its journal recognized, or an estimate where that journal *)
(* is missing or no longer POSTED.                                         *)
(***************************************************************************)
EXTENDS Statements

\* _line_totals_by_reference, of one journal.
PostedCost(s) == IF Standing(s) THEN book[s].amount ELSE 0

\* Slip: the cost of a sale is what its goods would cost today.
EstimatedCogs(o) == OrderCost(o)

\* original_cogs of _order_metrics
OriginalCogs(o) == IF Standing(CostKey(o)) THEN book[CostKey(o)].amount ELSE OrderCost(o)

\* returned_cogs_by_order of _return_context
ReturnedCogs(o) == Sum([r \in ReturnsOf(o) |-> PostedCost(RestockKey(r))])

\* return_credit_amount of the order
ReturnCredit(o) == Sum([r \in ReturnsOf(o) |-> returned[r].credit])

NetSales(o) == Positive(GrandTotal(o) - ReturnCredit(o))
NetCogs(o) == Positive(OriginalCogs(o) - ReturnedCogs(o))
Profit(o) == NetSales(o) - NetCogs(o)

\* _summary of the months.
Reported(months) == Sum([o \in {x \in completed : DateOf[x] \in months} |-> Profit(o)])

-----------------------------------------------------------------------------
(* Properties *)

\* The ledger recognized what the report shows of an order: none of its
\* journals was reversed, no cost appeared after its last save, and its returns
\* gave back no more cost than it took.
Explained(o) ==
    /\ \A s \in {RevenueKey(o), CostKey(o)} \cup {CreditKey(r) : r \in ReturnsOf(o)}
                    \cup {RestockKey(r) : r \in ReturnsOf(o)} : Length(s) <= 1
    /\ Journaled(CostKey(o)) \/ OrderCost(o) = 0
    /\ ReturnedCogs(o) <= OriginalCogs(o)

\* Gross profit of the sales journals.
LedgerProfit(o) ==
    Net(RevenueKey(o)) - Net(CostKey(o))
        + Sum([r \in ReturnsOf(o) |-> Net(RestockKey(r)) - Net(CreditKey(r))])

\* The profit report and the ledger tell the same profit of the orders the
\* ledger explains, whatever is bought, sent back or returned after the sale.
SalesReportAgrees ==
    \A m \in Months :
        LET sold == {x \in completed : DateOf[x] = m} IN
        (\A o \in sold : Explained(o))
            => Reported({m}) = Sum([o \in sold |-> LedgerProfit(o)])
=============================================================================
