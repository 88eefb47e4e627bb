----------------------------- MODULE PosTerminal -----------------------------
(***************************************************************************)
(* A counter of the POS page (static/admin/js/pos-v170.js) in front of     *)
(* sales/pos_services.py.  The page keeps a cart and, when the cart was    *)
(* resumed from a held order, the id of that order; the server keeps       *)
(* neither.  A request may succeed and its answer be lost: the page then   *)
(* shows an error, keeps cart and id, and enables the button again.        *)
(*                                                                         *)
(* Cart and id are chosen when they are posted: the buttons of the page    *)
(* can make any cart, as the stock they count against is as old as the     *)
(* page, and the page may name any order that was held when it was loaded. *)
(* Other counters and the dashboard are the services of SalesOrders.       *)
(***************************************************************************)
EXTENDS SalesOrders

CONSTANT NoHold     \* activeHoldId of a cart that was not resumed

ASSUME TillAssumption == NoHold \notin Orders

\* The held order whose sale went through without the page learning of it: the
\* id the page keeps beside the cart it shows as unsold.
VARIABLE unanswered

\* History, which no step reads: how often the cart of an order was sold, at a
\* counter under its id, as whatever order that sale was written, or by completing
\* the order on another page.
VARIABLE timesSold

posVars == <<bal, ledger, cache, orders, unanswered, timesSold>>

HoldIds == Orders \cup {NoHold}

TillCarts == ItemRows

\* build_pos_item_rows: every line against what the warehouse has to spare,
\* read without a lock.
InStock(w, items) ==
    \A v \in Variants : items[v] <= bal[<<w, v>>].onHand - bal[<<w, v>>].reserved

\* Slip: the request does not carry the id of the order it resumes.
OrderOfNewCart(hold, o) == orders[o].status = "absent"

\* The order a request writes: a new one for a new cart, else the held one,
\* which _held_order must still find.  It tests for DRAFT before the row is
\* locked, so what counts is the test of save_sales_order under the lock.
OrderOfCart(hold, o) ==
    \/ hold = NoHold /\ orders[o].status = "absent"
    \/ hold = o /\ orders[o].status \in Editable

HoldPosOrder(hold, o, w, items) ==
    /\ OrderOfCart(hold, o)
    /\ InStock(w, items)
    /\ SaveSalesOrder(o, "draft", w, items)

\* The order whose cart the page sells.
CartOf(hold, o) == IF hold = NoHold THEN o ELSE hold

\* The answer of pos_action clears cart and id; without it both stay.
Answered(hold) == unanswered' = NoHold
Unanswered(hold) == unanswered' = hold

CompleteAtTill(hold, o, w, items) ==
    /\ OrderOfCart(hold, o)
    /\ InStock(w, items)
    /\ CompletePosSale(o, w, items)
    /\ timesSold' = [timesSold EXCEPT ![CartOf(hold, o)] = @ + 1]
    /\ Answered(hold) \/ Unanswered(hold)

\* Discarding the order the page works on clears the page as well.
DiscardPosHold(o) ==
    /\ DeleteDraftOrder(o)
    /\ unanswered' = IF unanswered = o THEN NoHold ELSE unanswered
    /\ UNCHANGED timesSold

\* The Clear button, another hold resumed, or the page loaded again.
ClearOrder ==
    /\ unanswered # NoHold
    /\ unanswered' = NoHold
    /\ UNCHANGED <<bal, ledger, cache, orders, timesSold>>

-----------------------------------------------------------------------------

PosInit ==
    /\ SalesInit
    /\ unanswered = NoHold
    /\ timesSold = [o \in Orders |-> 0]

\* What the page posts: while it shows an unsold cart it has already sold, that
\* cart with its id, as often as the cashier tries.
AtTill ==
    \/ \E hold \in HoldIds, o \in Orders, w \in Warehouses, items \in TillCarts :
          /\ unanswered \in {NoHold, hold}
          /\ \/ HoldPosOrder(hold, o, w, items) /\ UNCHANGED <<unanswered, timesSold>>
             \/ CompleteAtTill(hold, o, w, items)
    \/ \E o \in Orders : DiscardPosHold(o)
    \/ ClearOrder

\* Orders that a step of another page completes.
Sold(o) == orders'[o] # orders[o] /\ orders'[o].status = "completed"

Elsewhere ==
    /\ SalesNext
    /\ timesSold' = [o \in Orders |-> IF Sold(o) THEN timesSold[o] + 1 ELSE timesSold[o]]
    /\ UNCHANGED unanswered

PosNext == AtTill \/ Elsewhere

PosSpec == PosInit /\ [][PosNext]_posVars

-----------------------------------------------------------------------------
(* Properties *)

\* "Every counter sale becomes a real SalesOrder" (POS_SYSTEM_PHASE.md:9): the cart
\* of an order is sold once at most, and its one sale is the order itself, whatever
\* the cashier posts again after a lost answer and whatever other counters and the
\* dashboard hold, edit, complete, cancel or delete meanwhile.  A sale written to
\* another order than the one that holds the cart leaves a cart that was sold and
\* can be sold again.
OneSalePerHold ==
    /\ \A o \in Orders : timesSold[o] = IF orders[o].status = "completed" THEN 1 ELSE 0
    /\ unanswered # NoHold => orders[unanswered].status = "completed"
=============================================================================
