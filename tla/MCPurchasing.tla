---------------------------- MODULE MCPurchasing -----------------------------
(* One purchase order with a discount above its other charges, two units and *)
(* a warranty claim; the load bound lets any three of them meet, an order     *)
(* counting twice and a reversed journal once.                                *)
EXTENDS Purchasing, TLC

CONSTANTS v1, u1, u2

MCWarehouses == {1, 2}
MCDefault == 2
MCSku == (u1 :> v1) @@ (u2 :> v1)
MCCost == (v1 :> 1)
MCCharges == {-1}
MCSymmetry == Permutations(Units)
=============================================================================
