---------------------------- MODULE ReturnRefunds ----------------------------
(***************************************************************************)
(* The money side of complete_sales_return: the credit of a return lowers  *)
(* what the order has to pay, and what was paid above that is refunded,    *)
(* the oldest payment first.                                               *)
(*                                                                         *)
(* Each refund synchronizes the order.  While the ledger is still above    *)
(* the payable total, the save of that synchronization writes a smaller    *)
(* amount_paid, and the compatibility receiver refunds the difference, the *)
(* newest payment first, in the middle of the loop; its refunds            *)
(* synchronize the order in turn.                                          *)
(***************************************************************************)
EXTENDS Payments

\* The orders in which the two loops visit the payments.
Oldest(rows) == CHOOSE p \in rows : \A q \in rows : p <= q
Newest(rows) == CHOOSE p \in rows : \A q \in rows : q <= p

\* What has been refunded of every payment, and where a refund loop is.
Columns == [Slots -> 0 .. MaxAmount]
Loops == [used : Columns, remaining : Nat]

\* What payment p has left when used[q] of every payment q has been refunded.
Left(used, p) ==
    IF Counts(txn[p]) THEN Larger(txn[p].amount - used[p], 0) ELSE 0

NetOf(used) == Larger(Incoming(txn) - Total(used, MaxAmount), 0)

\* A refund loop at payment p: sync is what becomes of the payments when the
\* refund synchronizes the order, which the loop does not learn of.
Round(loop, p, sync) ==
    LET amount == Smaller(Left(loop.used, p), loop.remaining) IN
    IF amount <= 0 THEN loop
    ELSE [used      |-> sync[[loop.used EXCEPT ![p] = @ + amount]],
          remaining |-> loop.remaining - amount]

\* _sync_sales_order while target is payable: nothing happens to the payments
\* unless the ledger is above it; then the receiver refunds the difference.
Sync(used, target, receiver) ==
    IF NetOf(used) <= target THEN used
    ELSE receiver[[used |-> used, remaining |-> NetOf(used) - target]].used

\* The receiver's loop over rows, given its loop over those after the newest.
\* A receiver that runs inside a round lists all payments again, but the newer
\* ones have nothing left: else they would have covered the refund.
Mirroring(rows, later, target) ==
    LET sync == [used \in Columns |-> Sync(used, target, later)]
    IN [loop \in Loops |-> later[Round(loop, Newest(rows), sync)]]

Receiver(target) ==
    LET over[rows \in SUBSET Slots] ==
            IF rows = {} THEN [loop \in Loops |-> loop]
            ELSE Mirroring(rows, over[rows \ {Newest(rows)}], target)
    IN over[Slots]

SyncRefunds(used, target) == Sync(used, target, Receiver(target))

\* The loop of the return over rows, given its loop over those after the oldest.
Allocating(rows, later, target) ==
    LET sync == [used \in Columns |-> SyncRefunds(used, target)]
    IN [loop \in Loops |-> later[Round(loop, Oldest(rows), sync)]]

Allocation(target) ==
    LET over[rows \in SUBSET Slots] ==
            IF rows = {} THEN [loop \in Loops |-> loop]
            ELSE Allocating(rows, over[rows \ {Oldest(rows)}], target)
    IN over[Slots]

Used == [p \in Slots |-> txn[p].refunded]

\* The order once the return has credited it.
Credited(credit) == [order EXCEPT !.credit = @ + credit]

\* Slip: the credit is refunded even where the customer still owed it.
RefundDueOfCredit(credit) == Smaller(Net(txn), credit)

\* cash_refund_due.
RefundDue(credit) ==
    Smaller(Larger(Net(txn) - Payable(Credited(credit)), 0), credit)

\* Where the refund loop of the return ends.
Allocated(credit) ==
    Allocation(Payable(Credited(credit)))[[used |-> Used, remaining |-> RefundDue(credit)]]

\* What completing a return asks of the order and of the ledger before it
\* writes anything; a return without refund has no credit.
MayCredit(credit) ==
    /\ order.status = "completed"
    /\ order.credit + credit <= order.total
    /\ RefundDue(credit) <= Total([p \in Slots |-> Refundable(txn[p])], MaxAmount)

\* complete_sales_return, from the credit to the last synchronization: it
\* raises, and nothing is written, when its loop ends with a rest to refund.
CompleteSalesReturn(credit) ==
    LET used == SyncRefunds(Allocated(credit).used, Payable(Credited(credit))) IN
    /\ MayCredit(credit)
    /\ Allocated(credit).remaining <= 0
    /\ txn' = [p \in Slots |-> [txn[p] EXCEPT !.refunded = used[p]]]
    /\ order' = Synced(Credited(credit), txn')

Return == \E credit \in 0 .. MaxAmount : CompleteSalesReturn(credit)

RetNext == PayNext \/ Return

RetSpec == PayInit /\ [][RetNext]_payVars

-----------------------------------------------------------------------------
(* Properties *)

\* When one payment alone can carry the refund, the customer gets back exactly
\* what the credit made an overpayment, and keeps owing what was due before.
SingleSourceExact ==
    [][Return =>
        \A p \in Slots :
            Refundable(txn[p]) = Net(txn) =>
                Net(txn') = Smaller(Net(txn), Payable(order'))]_payVars

\* "Only the overpaid portion after return credit becomes an actual Payment
\* refund." (RETURNS_REFUNDS_PHASE.md:116), however many payments there are.
OnlyOverpaidRefunded ==
    [][Return => Net(txn') = Smaller(Net(txn), Payable(order'))]_payVars
=============================================================================
