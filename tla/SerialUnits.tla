----------------------------- MODULE SerialUnits -----------------------------
(***************************************************************************)
(* Serialized units and their warranty claims on top of the stock engine:  *)
(* serial_tracking/services.py and the pages that call it.                 *)
(*                                                                         *)
(* A unit has a lifecycle status of its own beside the balance row of its  *)
(* variant; a status that keeps the unit on the shelf is stock-bearing.    *)
(* Every service locks the unit (the claim joins its unit) and then the    *)
(* balance rows it writes, so a service is one step.  The movements a      *)
(* service posts are collected as what they add to each row and committed  *)
(* together.                                                               *)
(***************************************************************************)
EXTENDS Inventory, FiniteSets

CONSTANTS
    Units,          \* serial numbers and IMEIs, one SerializedUnit each
    Sku,            \* Sku[u]: the variant of unit u, which never changes
    Claims          \* warranty claims

ASSUME SerialAssumption == Sku \in [Units -> Variants] /\ IsFiniteSet(Units)

VARIABLES
    unit,           \* SerializedUnit: status and warehouse
    claim           \* WarrantyClaim: its unit, status and unit_status_before_claim

\* RETURNED counts as "available" and DAMAGED as "scrapped": the services treat
\* the two of each pair alike, but for the type of the movement.
StockBearing == {"available", "reserved"}
OffShelf == {"sold", "warranty_service", "scrapped", "supplier_returned"}
UnitStatuses == StockBearing \cup OffShelf

\* A claim that is OPEN or IN_SERVICE is "open", one that is RESOLVED or
\* REJECTED is "closed": the services treat the two of each pair alike.
Terminal == {"closed", "replaced"}
ClaimStatuses == {"open"} \cup Terminal

Unregistered == [status |-> "absent", warehouse |-> Default]
NoClaim == [unit |-> "none", status |-> "absent", before |-> "absent"]

Registered == {u \in Units : unit[u].status # "absent"}
RowOf(u) == <<unit[u].warehouse, Sku[u]>>

\* _tracked_stock_count and its reserved part.
Tracked(k) == {u \in Units : unit[u].status \in StockBearing /\ RowOf(u) = k}
TrackedReserved(k) == {u \in Tracked(k) : unit[u].status = "reserved"}

-----------------------------------------------------------------------------
(* What a unit does to the stock *)

None == Delta(0, 0)
Both(m, n) == Delta(m.qty + n.qty, m.res + n.res)
Negated(m) == Delta(-m.qty, -m.res)

\* Slip: a reserved unit leaves the shelf like a free one and keeps its promise.
StatusDeltaKeepingPromise(old, new) ==
    CASE old \in StockBearing /\ new \in OffShelf -> Delta(-1, 0)
      [] old = "reserved" /\ new = "available" -> Delta(0, -1)
      [] old \in OffShelf /\ new = "reserved" -> Delta(1, 1)
      [] old \in OffShelf /\ new = "available" -> Delta(1, 0)
      [] old = "available" /\ new = "reserved" -> Delta(0, 1)
      [] OTHER -> None

\* _apply_status_inventory
StatusDelta(old, new) ==
    CASE old = "reserved" /\ new = "available" -> Delta(0, -1)
      [] old = "reserved" /\ new \in OffShelf -> Delta(-1, -1)
      [] old = "available" /\ new \in OffShelf -> Delta(-1, 0)
      [] old \in OffShelf /\ new = "reserved" -> Delta(1, 1)
      [] old \in OffShelf /\ new = "available" -> Delta(1, 0)
      [] old = "available" /\ new = "reserved" -> Delta(0, 1)
      [] OTHER -> None

\* _transfer_locked: what goes with a unit of this status to another warehouse.
Carried(status) ==
    CASE status = "available" -> Delta(1, 0)
      [] status = "reserved" -> Delta(1, 1)
      [] OTHER -> None

\* The movements, one total per row of its domain.
Post(moves) ==
    LET after == [k \in Keys |->
                     IF k \in DOMAIN moves
                     THEN [onHand   |-> bal[k].onHand + moves[k].qty,
                           reserved |-> bal[k].reserved + moves[k].res]
                     ELSE bal[k]]
    IN
    /\ \A k \in DOMAIN moves : RowAllowed(after[k]) /\ after[k].onHand <= MaxQty
    /\ Commit(after, moves)

Touched(k, m) == IF m = None THEN {} ELSE {k}
On(k, m) == [j \in Touched(k, m) |-> m]

\* Movements on the rows of one variant in two places, or twice in one.
OnBoth(k, m, j, n) ==
    IF k = j THEN On(k, Both(m, n))
    ELSE [i \in Touched(k, m) \cup Touched(j, n) |-> IF i = k THEN m ELSE n]

-----------------------------------------------------------------------------
(* Services *)

\* Slip: a unit is registered without asking the balance row.
RegisterUncounted(u, w, status) ==
    /\ unit[u] = Unregistered
    /\ status \in {"available", "reserved"}
    /\ unit' = [unit EXCEPT ![u] = [status |-> status, warehouse |-> w]]
    /\ Post(On(<<w, Sku[u]>>, IF status = "reserved" THEN Delta(0, 1) ELSE None))
    /\ UNCHANGED claim

\* register_serial_unit, the two statuses the page offers: the row, locked,
\* must hold more units than are registered.
RegisterSerialUnit(u, w, status) ==
    LET k == <<w, Sku[u]>> IN
    /\ unit[u] = Unregistered
    /\ status \in {"available", "reserved"}
    /\ Cardinality(Tracked(k)) < bal[k].onHand
    /\ unit' = [unit EXCEPT ![u] = [status |-> status, warehouse |-> w]]
    /\ Post(On(k, IF status = "reserved" THEN Delta(0, 1) ELSE None))
    /\ UNCHANGED claim

\* update_serial_unit, the unit's page: the transfer first, then the new
\* status in the new warehouse; any status may follow any other.  With one of
\* the two unchanged it is change_serial_unit_status or transfer_serial_unit.
UpdateSerialUnit(u, w, status) ==
    LET old == unit[u] IN
    /\ u \in Registered
    /\ unit' = [unit EXCEPT ![u] = [status |-> status, warehouse |-> w]]
    /\ IF w = old.warehouse
       THEN Post(On(RowOf(u), StatusDelta(old.status, status)))
       ELSE Post(OnBoth(RowOf(u), Negated(Carried(old.status)),
                        <<w, Sku[u]>>, Both(Carried(old.status),
                                            StatusDelta(old.status, status))))
    /\ UNCHANGED claim

\* The unit of a claim takes a status, wherever it is.
Becomes(u, status) ==
    /\ unit' = [unit EXCEPT ![u].status = status]
    /\ Post(On(RowOf(u), StatusDelta(unit[u].status, status)))

\* open_warranty_claim, for a unit of any status.
OpenWarrantyClaim(c, u) ==
    /\ claim[c] = NoClaim
    /\ u \in Registered
    /\ claim' = [claim EXCEPT ![c] =
                    [unit |-> u, status |-> "open", before |-> unit[u].status]]
    /\ Becomes(u, "warranty_service")

\* update_warranty_claim: a completed claim is not reopened, but may become
\* another completed one.
MayBecome(c, status) ==
    /\ claim[c] # NoClaim
    /\ claim[c].status \in Terminal => status \in Terminal

\* The claim is in service: its unit is put back in service wherever it went.
ServeWarrantyClaim(c) ==
    /\ MayBecome(c, "open")
    /\ claim' = [claim EXCEPT ![c].status = "open"]
    /\ Becomes(claim[c].unit, "warranty_service")

\* The claim is closed: a unit still in service gets back the status it had
\* when this claim was opened.
CloseWarrantyClaim(c) ==
    LET u == claim[c].unit IN
    /\ MayBecome(c, "closed")
    /\ claim' = [claim EXCEPT ![c].status = "closed"]
    /\ IF unit[u].status = "warranty_service"
       THEN Becomes(u, claim[c].before)
       ELSE UNCHANGED <<bal, ledger, cache, unit>>

\* REPLACED: a free unit of the same variant is sold in its place.
ReplaceWarrantyClaim(c, r) ==
    LET u == claim[c].unit IN
    /\ MayBecome(c, "replaced")
    /\ r # u /\ Sku[r] = Sku[u]
    /\ unit[r].status = "available"
    /\ claim' = [claim EXCEPT ![c].status = "replaced"]
    /\ unit' = [unit EXCEPT ![r].status = "sold", ![u].status = "scrapped"]
    /\ Post(OnBoth(RowOf(r), StatusDelta(unit[r].status, "sold"),
                   RowOf(u), StatusDelta(unit[u].status, "scrapped")))

\* _process_return_item_inventory for a serialized item: a sold unit is moved
\* to the warehouse of the return and takes the status of its disposition.
ReturnSerialUnit(u, w, status) ==
    /\ unit[u].status = "sold"
    /\ status \in {"available", "warranty_service", "scrapped"}
    /\ unit' = [unit EXCEPT ![u] = [status |-> status, warehouse |-> w]]
    /\ Post(On(<<w, Sku[u]>>, StatusDelta("sold", status)))
    /\ UNCHANGED claim

-----------------------------------------------------------------------------

UnitInit ==
    /\ InvInit
    /\ unit = [u \in Units |-> Unregistered]
    /\ claim = [c \in Claims |-> NoClaim]

Return == \E u \in Units, w \in Warehouses, s \in UnitStatuses : ReturnSerialUnit(u, w, s)
Open == \E c \in Claims, u \in Units : OpenWarrantyClaim(c, u)
Serve == \E c \in Claims : ServeWarrantyClaim(c)
Close == \E c \in Claims : CloseWarrantyClaim(c)
Replace == \E c \in Claims, r \in Units : ReplaceWarrantyClaim(c, r)

ClaimNext == Open \/ Serve \/ Close \/ Replace

\* What else moves the stock.  A count or a catalog edit (Adjust, Reconcile)
\* moves a row as a receipt or a removal does.
OtherStock == Reserve \/ Release \/ Issue \/ Receive \/ Remove \/ Transfer

-----------------------------------------------------------------------------
(* Properties *)

\* Units and claims hold the values of their choice fields; a claim is about a
\* registered unit and remembers one of its statuses.
UnitTypeOK ==
    /\ unit \in [Units -> [status : UnitStatuses \cup {"absent"}, warehouse : Warehouses]]
    /\ \A c \in Claims :
          claim[c] # NoClaim =>
              /\ claim[c].unit \in Registered
              /\ claim[c].status \in ClaimStatuses
              /\ claim[c].before \in UnitStatuses

\* The units of a row nobody registered (unit_inventory_gap), and its promises
\* that no reserved unit stands for.
Untracked(k) == bal[k].onHand - Cardinality(Tracked(k))
OpenPromises(k) == bal[k].reserved - Cardinality(TrackedReserved(k))

Newcomers(k) == {u \in Units : unit[u] = Unregistered /\ u \in Tracked(k)'}

\* A step of units takes their stock along: the untracked stock and the promises
\* to others stay as they are, and a registration takes one of the untracked.
UnitsTakeTheirStock ==
    unit' # unit =>
        \A k \in Keys : /\ Untracked(k)' = Untracked(k) - Cardinality(Newcomers(k))
                        /\ OpenPromises(k)' = OpenPromises(k)
=============================================================================
