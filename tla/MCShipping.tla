----------------------------- MODULE MCShipping -----------------------------
(* A parcel with COD, its courier's messages, and up to two payments of its *)
(* order beside it.                                                         *)
EXTENDS CourierWebhook

MCSlots == {1, 2}
=============================================================================
