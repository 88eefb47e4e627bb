------------------------------- MODULE Costing -------------------------------
(***************************************************************************)
(* What goods cost: the journals of purchase receipts and supplier returns *)
(* and the weighted cost of a variant, accounting/services.py.             *)
(*                                                                         *)
(* There is no stored cost.  Whoever needs one computes it from the        *)
(* receipts and supplier returns dated up to some day that are there at    *)
(* the moment; a receipt entered later with an earlier date changes it.    *)
(* Goods are of one variant.                                               *)
(***************************************************************************)
EXTENDS Ledger, Totals

CONSTANTS
    Lots,           \* PurchaseReceiptItems
    LotQuantity,    \* their quantity
    LotCost         \* their unit_cost, which no discount lowers any more

ASSUME CostingAssumption ==
    /\ IsFiniteSet(Lots)
    /\ LotQuantity \in [Lots -> Nat \ {0}]
    /\ LotCost \in [Lots -> Nat]

VARIABLES
    arrived,        \* arrived[d]: received_date, or 0
    sentBack        \* PurchaseReturnItem: its quantity and return_date

goodsVars == <<arrived, sentBack>>

ArrivalKey(d) == <<"arrival", d, 0>>
SendBackKey(d) == <<"sendback", d, 0>>

Kept == [quantity |-> 0, month |-> 0]

\* quantize(MONEY, ROUND_HALF_UP) of a quotient.
Rounded(n, q) == (2 * n + q) \div (2 * q)

ArrivedBy(m) == {d \in Lots : arrived[d] \in 1 .. m}
SentBackBy(m) == {d \in Lots : sentBack[d].month \in 1 .. m}

\* variant_weighted_cost as of m.
WeightedCost(m) ==
    LET quantity == Sum([d \in ArrivedBy(m) |-> LotQuantity[d]])
                        - Sum([d \in SentBackBy(m) |-> sentBack[d].quantity])
        value    == Sum([d \in ArrivedBy(m) |-> LotQuantity[d] * LotCost[d]])
                        - Sum([d \in SentBackBy(m) |-> sentBack[d].quantity * LotCost[d]])
    IN IF quantity <= 0 \/ value <= 0 THEN 0 ELSE Rounded(value, quantity)

\* A journal, or none of nothing.
Worth(s, a, m) == IF a > 0 THEN Journal(s, a, m) ELSE <<>>

\* receive_purchase, with the journal of the receipt item.
ReceiveLot(d, m) ==
    /\ arrived[d] = 0
    /\ Posts(Worth(ArrivalKey(d), LotQuantity[d] * LotCost[d], m))
    /\ arrived' = [arrived EXCEPT ![d] = m]
    /\ UNCHANGED sentBack

\* return_purchase, with the journal of the return item.
SendBack(d, n, m) ==
    /\ arrived[d] # 0
    /\ sentBack[d] = Kept
    /\ n <= LotQuantity[d]
    /\ Posts(Worth(SendBackKey(d), n * LotCost[d], m))
    /\ sentBack' = [sentBack EXCEPT ![d] = [quantity |-> n, month |-> m]]
    /\ UNCHANGED arrived

GoodsInit ==
    /\ arrived = [d \in Lots |-> 0]
    /\ sentBack = [d \in Lots |-> Kept]

GoodsNext ==
    \E d \in Lots, m \in Months :
        \/ ReceiveLot(d, m)
        \/ \E n \in 1 .. LotQuantity[d] : SendBack(d, n, m)
=============================================================================
