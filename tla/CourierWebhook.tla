--------------------------- MODULE CourierWebhook ---------------------------
(***************************************************************************)
(* The courier's view of a shipment, integrations/views.py: signed status  *)
(* messages that arrive at any time, in any order, and more than once,     *)
(* while the dashboard changes the same shipment.                          *)
(*                                                                         *)
(* A message is told apart by the digest of its content and timestamp.     *)
(* The network keeps every message, so what may arrive is simply any       *)
(* message the courier can write.                                          *)
(***************************************************************************)
EXTENDS Shipping

CONSTANTS
    Stamps,         \* the timestamps of the courier's messages
    Reports         \* the statuses the courier reports (keys of STATUS_ALIASES)

VARIABLES
    receipts,       \* CourierWebhookReceipt: the digests of processed messages
    attempts        \* ShipmentEvent DELIVERY_ATTEMPT rows the courier caused

hookVars == <<order, txn, ship, codPayments, receipts, attempts>>

\* The collected amount is read with a delivery only.
Messages == {m \in [stamp : Stamps, status : Reports, cod : 0 .. MaxAmount] :
                m.status # "delivered" => m.cod = 0}

\* Slip: the digest is stored but not looked up.
WebhookUnchecked(m) ==
    /\ ship.status # "none"
    /\ receipts' = receipts \cup {m}
    /\ \/ /\ m.status = ship.status
          /\ UNCHANGED <<shipVars, attempts>>
       \/ /\ ChangeShipmentStatus(m.status, m.cod)
          /\ attempts' = IF m.status = "failed" THEN attempts + 1 ELSE attempts

\* courier_webhook: the receipt and the change commit together, so a message
\* that is refused leaves no receipt and may be sent again.
Webhook(m) ==
    /\ m \notin receipts
    /\ ship.status # "none"
    /\ receipts' = receipts \cup {m}
    /\ \/ /\ m.status = ship.status
          /\ UNCHANGED <<shipVars, attempts>>
       \/ /\ ChangeShipmentStatus(m.status, m.cod)
          /\ attempts' = IF m.status = "failed" THEN attempts + 1 ELSE attempts

-----------------------------------------------------------------------------

HookInit ==
    /\ ShipInit
    /\ receipts = {}
    /\ attempts = 0

HookNext ==
    \/ \E m \in Messages : Webhook(m)
    \/ ShipNext /\ UNCHANGED <<receipts, attempts>>

HookSpec == HookInit /\ [][HookNext]_hookVars

-----------------------------------------------------------------------------
(* Properties *)

\* A message delivered twice takes effect once, even when the shipment has come
\* back to a status from which it would apply again: every attempt the courier
\* caused has a message of its own.
AppliedOnce ==
    attempts <= Cardinality({m \in receipts : m.status = "failed"})
=============================================================================
