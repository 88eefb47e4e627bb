---------------------------- MODULE MCSalesOrders ----------------------------
(* Orders of up to two items competing for the stock of two warehouses.  No  *)
(* service tells orders or variants apart by anything but their rows.        *)
EXTENDS PosTerminal, TLC

MCSymmetry == Permutations(Orders) \cup Permutations(Variants)
=============================================================================
