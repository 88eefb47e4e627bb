------------------------------ MODULE MCReturns ------------------------------
(* Returns competing for the units of a sold item, two units sold for three:
   an odd total, so that the share of one unit is rounded. *)
EXTENDS PaymentReports, TLC

CONSTANT i1

MCSold == (i1 :> 2)
MCLineTotal == (i1 :> 3)
=============================================================================
