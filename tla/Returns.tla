------------------------------- MODULE Returns -------------------------------
(***************************************************************************)
(* The returns of one completed order, returns/services.py: a return       *)
(* claims units and credit of the order's items when it is opened, moves   *)
(* through approval and receipt, and posts stock, credit and refund in one *)
(* transaction when it completes.  The money of that transaction is        *)
(* CompleteSalesReturn of ReturnRefunds.                                   *)
(*                                                                         *)
(* A return has at most one line per order item, as the dashboard posts    *)
(* them.  Serialized lines, of one unit each, belong to the serial module. *)
(* Opening a return locks the order and its items, completing it the       *)
(* return and the order, so each service is one step.                      *)
(***************************************************************************)
EXTENDS ReturnRefunds

CONSTANTS
    Returns,        \* the returns that may be opened
    Items,          \* SalesOrderItem rows of the order
    Sold,           \* Sold[i]: issued_quantity of item i once completed
    LineTotal,      \* LineTotal[i]: what item i was sold for
    MaxUnits        \* bound: of the units sold of an item

ASSUME ReturnsAssumption ==
    /\ IsFiniteSet(Returns) /\ IsFiniteSet(Items)
    /\ MaxUnits \in Nat
    /\ Sold \in [Items -> 0 .. MaxUnits]
    /\ LineTotal \in [Items -> 0 .. MaxAmount]

VARIABLES
    returns,        \* SalesReturn with its SalesReturnItem rows
    back            \* back[i]: units of item i posted as RETURN_IN movements

returnVars == <<order, txn, returns, back>>

NotReturned == [qty |-> 0, credit |-> 0, restock |-> FALSE]

NoReturn == [status |-> "none", lines |-> [i \in Items |-> NotReturned]]

\* CONSUMING_STATUSES: what these returns claim, no other return may claim.
Consuming == {"requested", "approved", "received", "completed"}

Claims(r, s) == returns[r].status \in s

ClaimedQuantity(i, s) ==
    Total([r \in Returns |-> IF Claims(r, s) THEN returns[r].lines[i].qty ELSE 0], MaxUnits)

ClaimedCredit(i, s) ==
    Total([r \in Returns |-> IF Claims(r, s) THEN returns[r].lines[i].credit ELSE 0], MaxAmount)

\* available_return_quantity and available_return_credit.
Returnable(i) == Larger(Sold[i] - ClaimedQuantity(i, Consuming), 0)
Creditable(i) == Larger(LineTotal[i] - ClaimedCredit(i, Consuming), 0)

\* Slip: every line may take its share, whatever was credited before.
LineCapOfShare(i, q) == (2 * LineTotal[i] * q + Sold[i]) \div (2 * Sold[i])

\* The credit a line of q units may carry: its share of the line total,
\* rounded half up, within what is left.
LineCap(i, q) ==
    Smaller(Creditable(i), (2 * LineTotal[i] * q + Sold[i]) \div (2 * Sold[i]))

CreditOf(lines) == Total([i \in Items |-> lines[i].credit], MaxAmount)

\* A line of a return form: nothing of the item, or some units with a credit.
Lines(i) ==
    {NotReturned} \cup
    [qty : 1 .. Sold[i], credit : 0 .. LineTotal[i], restock : BOOLEAN]

-----------------------------------------------------------------------------
(* Services *)

\* create_sales_return.  A NO_REFUND return carries no credit and a REFUND
\* return some, so the credit of the lines is all there is to say of it.
CreateSalesReturn(r, lines) ==
    /\ returns[r].status = "none"
    /\ order.status = "completed"
    /\ \E i \in Items : lines[i].qty > 0
    /\ \A i \in Items : lines[i].qty > 0 =>
          /\ lines[i].qty <= Returnable(i)
          /\ lines[i].credit <= LineCap(i, lines[i].qty)
    /\ returns' = [returns EXCEPT ![r] = [status |-> "requested", lines |-> lines]]
    /\ UNCHANGED <<order, txn, back>>

\* Slip: a rejected or cancelled return can be taken up again.
ReopeningReturnTransitions ==
    [requested |-> {"approved", "rejected", "cancelled"},
     approved  |-> {"received", "rejected", "cancelled"},
     received  |-> {"rejected"},
     completed |-> {}, rejected |-> {"requested"}, cancelled |-> {"requested"}, none |-> {}]

\* ALLOWED_TRANSITIONS of a return.
ReturnTransitions ==
    [requested |-> {"approved", "rejected", "cancelled"},
     approved  |-> {"received", "rejected", "cancelled"},
     received  |-> {"rejected"},
     completed |-> {}, rejected |-> {}, cancelled |-> {}, none |-> {}]

TransitionSalesReturn(r, new) ==
    /\ new \in ReturnTransitions[returns[r].status]
    /\ returns' = [returns EXCEPT ![r].status = new]
    /\ UNCHANGED <<order, txn, back>>

\* Slip: the return is not marked completed.
CompleteAndForget(r) ==
    LET lines == returns[r].lines IN
    /\ returns[r].status = "received"
    /\ CompleteSalesReturn(CreditOf(lines))
    /\ back' = [i \in Items |-> back[i] + IF lines[i].restock THEN lines[i].qty ELSE 0]
    /\ UNCHANGED returns

\* complete_sales_return: the lines to restock are posted, the order is
\* credited and what became overpaid is refunded.
CompleteReturn(r) ==
    LET lines == returns[r].lines IN
    /\ returns[r].status = "received"
    /\ CompleteSalesReturn(CreditOf(lines))
    /\ back' = [i \in Items |-> back[i] + IF lines[i].restock THEN lines[i].qty ELSE 0]
    /\ returns' = [returns EXCEPT ![r].status = "completed"]

-----------------------------------------------------------------------------

ReturnsInit ==
    /\ PayInit
    /\ returns = [r \in Returns |-> NoReturn]
    /\ back = [i \in Items |-> 0]

LineChoices == {lines \in [Items -> UNION {Lines(i) : i \in Items}] :
                   \A i \in Items : lines[i] \in Lines(i)}

Create  == \E r \in Returns, lines \in LineChoices : CreateSalesReturn(r, lines)
Advance == \E r \in Returns, new \in Consuming \cup {"rejected", "cancelled"} :
              TransitionSalesReturn(r, new)
Finish  == \E r \in Returns : CompleteReturn(r)

\* Beside the returns, payments arrive and go back.
ReturnsNext ==
    \/ Create \/ Advance \/ Finish
    \/ (Capture \/ Refund \/ Reversal \/ Transition) /\ UNCHANGED <<returns, back>>

ReturnsSpec == ReturnsInit /\ [][ReturnsNext]_returnVars

-----------------------------------------------------------------------------
(* Properties *)

\* Returns opened, rejected, cancelled and completed in any order never claim
\* more units of an item than were sold, nor more credit than it was sold for; and
\* without an order discount none of them ends in "would credit more than the Sales
\* Order total" (returns/services.py:462): the caps on the lines, taken when the
\* returns were opened, are enough.
ClaimsFitSale ==
    /\ \A i \in Items : /\ ClaimedQuantity(i, Consuming) <= Sold[i]
                        /\ ClaimedCredit(i, Consuming) <= LineTotal[i]
    /\ order.total >= Total(LineTotal, MaxAmount) =>
          \A r \in Returns : Claims(r, {"requested", "approved", "received"}) =>
              order.credit + CreditOf(returns[r].lines) <= order.total
=============================================================================
