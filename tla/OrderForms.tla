----------------------------- MODULE OrderForms -----------------------------
(***************************************************************************)
(* The order form of the dashboard next to the payment services.  The page *)
(* shows amount_paid as an input; posting it writes back the amount it was *)
(* rendered with unless the user changes it, however long ago that was: a  *)
(* payment captured since is refunded by the save (payments/signals.py).   *)
(***************************************************************************)
EXTENDS ReturnRefunds

VARIABLE page       \* the amount_paid an open form shows

formVars == <<order, txn, page>>

Closed == [open |-> FALSE, paid |-> 0]

OpenForm ==
    /\ order.status \in Editable
    /\ page = Closed
    /\ page' = [open |-> TRUE, paid |-> order.paid]
    /\ UNCHANGED payVars

\* The user edits items or header fields and leaves the amount alone.
SubmitForm ==
    /\ page.open
    /\ \E status \in Editable, total \in 0 .. MaxAmount : EditOrder(status, total, page.paid)
    /\ page' = Closed

\* The form is validated against the row as it is now and refused.
AbandonForm ==
    /\ page.open
    /\ page' = Closed
    /\ UNCHANGED payVars

FormInit == PayInit /\ page = Closed

\* Besides the form, every service on the order, its payments and its returns.
FormNext ==
    \/ OpenForm \/ SubmitForm \/ AbandonForm
    \/ RetNext /\ UNCHANGED page

FormSpec == FormInit /\ [][FormNext]_formVars
=============================================================================
