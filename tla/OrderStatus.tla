----------------------------- MODULE OrderStatus -----------------------------
(* The life of a sales order, as sales/services.py lists it.  "absent" is an *)
(* order not yet created.                                                    *)

Editable == {"draft", "pending"}                      \* EDITABLE_STATUSES
Reserving == {"pending", "confirmed", "processing"}   \* RESERVED_STATUSES
Statuses == {"absent", "completed", "cancelled"} \cup Editable \cup Reserving

\* Slip: a completed order can be reopened.
ReopeningTransitions ==
    [s \in Statuses |->
        CASE s = "draft"      -> {"pending", "confirmed", "cancelled"}
          [] s = "pending"    -> {"confirmed", "cancelled"}
          [] s = "confirmed"  -> {"processing", "completed", "cancelled"}
          [] s = "processing" -> {"completed", "cancelled"}
          [] s = "completed"  -> {"processing"}
          [] OTHER            -> {}]

AllowedTransitions ==
    [s \in Statuses |->
        CASE s = "draft"      -> {"pending", "confirmed", "cancelled"}
          [] s = "pending"    -> {"confirmed", "cancelled"}
          [] s = "confirmed"  -> {"processing", "completed", "cancelled"}
          [] s = "processing" -> {"completed", "cancelled"}
          [] OTHER            -> {}]
=============================================================================
