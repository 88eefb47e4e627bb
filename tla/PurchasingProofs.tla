-------------------------- MODULE PurchasingProofs ---------------------------
(***************************************************************************)
(* Proofs about serialized units and purchases, for any number of units,   *)
(* claims, purchases, variants and warehouses.  Every service hands its    *)
(* movements to Post, which keeps the invariant of the stock engine, so    *)
(* the results of InventoryProofs hold while units and purchases run.      *)
(***************************************************************************)
EXTENDS Purchasing, InventoryProofs

-----------------------------------------------------------------------------
(* Movements *)

Movement == [qty : Int, res : Int]

\* What moves adds to row k.
MoveAt(moves, k) == IF k \in DOMAIN moves THEN moves[k] ELSE None

Movements(moves) == DOMAIN moves \subseteq Keys /\ \A k \in DOMAIN moves : moves[k] \in Movement

\* Rows of the stock engine change by what is posted.
RowsMove(moves) ==
    \A k \in Keys : /\ bal'[k].onHand = bal[k].onHand + MoveAt(moves, k).qty
                    /\ bal'[k].reserved = bal[k].reserved + MoveAt(moves, k).res

\* The movements of a service (post_movement, row by row) keep the invariant of
\* the stock engine and say what each row changes by.
LEMMA PostKeeps ==
    ASSUME IInv, NEW moves, Movements(moves), Post(moves)
    PROVE  IInv' /\ RowsMove(moves)
<1> DEFINE after == [k \in Keys |->
                        IF k \in DOMAIN moves
                        THEN [onHand   |-> bal[k].onHand + moves[k].qty,
                              reserved |-> bal[k].reserved + moves[k].res]
                        ELSE bal[k]]
<1>1. /\ \A k \in DOMAIN moves : RowAllowed(after[k])
      /\ Commit(after, moves)
  BY DEF Post
<1>2. ASSUME NEW k \in Keys
      PROVE  /\ bal[k] \in Rows /\ bal[k].reserved <= bal[k].onHand
             /\ k \in DOMAIN moves => moves[k] \in Movement
  BY DEF IInv, TypeOK, ReservedWithinOnHand, Rows, Movements
<1>3. ASSUME NEW k \in Keys, k \in DOMAIN moves
      PROVE  /\ after[k] = [onHand |-> bal[k].onHand + moves[k].qty,
                            reserved |-> bal[k].reserved + moves[k].res]
             /\ after[k] \in Rows /\ after[k].reserved <= after[k].onHand
  <2>1. after[k] = [onHand |-> bal[k].onHand + moves[k].qty,
                    reserved |-> bal[k].reserved + moves[k].res]
    BY <1>3
  <2>2. RowAllowed(after[k])
    BY <1>1, <1>3
  <2> HIDE DEF after
  <2> QED
    BY <1>2, <1>3, <2>1, <2>2 DEF RowAllowed, Rows, Movement
<1>4. ASSUME NEW k \in Keys, k \notin DOMAIN moves PROVE after[k] = bal[k]
  BY <1>4
<1>5. after \in [Keys -> Rows]
  BY <1>2, <1>3, <1>4
<1> HIDE DEF after
<1>6. Justified(after, moves)
  BY <1>2, <1>3, <1>4, <1>5 DEF Justified, Movements, Movement
<1>7. IInv' /\ bal' = after
  BY <1>1, <1>6, CommitPreserves DEF Commit
<1>8. ASSUME NEW k \in Keys
      PROVE  /\ bal'[k].onHand = bal[k].onHand + MoveAt(moves, k).qty
             /\ bal'[k].reserved = bal[k].reserved + MoveAt(moves, k).res
  <2>1. CASE k \in DOMAIN moves
    <3>1. after[k] = [onHand |-> bal[k].onHand + moves[k].qty,
                      reserved |-> bal[k].reserved + moves[k].res]
      BY <1>3, <2>1
    <3>2. bal'[k] = after[k] /\ MoveAt(moves, k) = moves[k]
      BY <1>7, <2>1 DEF MoveAt
    <3>3. bal'[k].onHand = bal[k].onHand + moves[k].qty /\ bal'[k].reserved = bal[k].reserved + moves[k].res
      BY <3>1, <3>2
    <3> QED
      BY <3>2, <3>3, Zenon
  <2>2. CASE k \notin DOMAIN moves
    BY <1>2, <1>4, <1>7, <2>2 DEF MoveAt, None, Delta, Rows
  <2> QED
    BY <2>1, <2>2
<1> QED
  BY <1>7, <1>8 DEF RowsMove

\* Movements on one row or on two.
LEMMA OnRows ==
    ASSUME NEW k \in Keys, NEW m \in Movement, NEW j \in Keys, NEW n \in Movement
    PROVE  /\ Movements(On(k, m))
           /\ \A i \in Keys : MoveAt(On(k, m), i) = IF i = k THEN m ELSE None
           /\ Movements(OnBoth(k, m, j, n))
           /\ \A i \in Keys : MoveAt(OnBoth(k, m, j, n), i) =
                  Both(IF i = k THEN m ELSE None, IF i = j THEN n ELSE None)
<1> USE DEF Movement, None, Delta
<1>1. /\ Both(m, n) \in Movement /\ Both(m, None) = m /\ Both(None, n) = n
      /\ Both(None, None) = None
  BY DEF Both
<1>2. ASSUME NEW x \in Movement
      PROVE  /\ Movements(On(k, x))
             /\ \A i \in Keys : MoveAt(On(k, x), i) = IF i = k THEN x ELSE None
  BY DEF On, Touched, Movements, MoveAt
<1>3. CASE k = j
  <2>1. OnBoth(k, m, j, n) = On(k, Both(m, n))
    BY <1>3 DEF OnBoth
  <2>2. /\ Movements(On(k, Both(m, n)))
        /\ \A i \in Keys : MoveAt(On(k, Both(m, n)), i) = IF i = k THEN Both(m, n) ELSE None
    BY <1>1, <1>2
  <2> QED
    BY <1>1, <1>2, <1>3, <2>1, <2>2
<1>4. CASE k # j
  <2>1. OnBoth(k, m, j, n) = [i \in Touched(k, m) \cup Touched(j, n) |-> IF i = k THEN m ELSE n]
    BY <1>4 DEF OnBoth
  <2>2. Movements(OnBoth(k, m, j, n))
    BY <1>4, <2>1 DEF Movements, Touched
  <2>3. ASSUME NEW i \in Keys
        PROVE  MoveAt(OnBoth(k, m, j, n), i) =
                  Both(IF i = k THEN m ELSE None, IF i = j THEN n ELSE None)
    <3>1. CASE i = k
      BY <1>1, <1>4, <2>1, <3>1 DEF MoveAt, Touched
    <3>2. CASE i = j
      BY <1>1, <1>4, <2>1, <3>2 DEF MoveAt, Touched
    <3>3. CASE i # k /\ i # j
      BY <1>1, <1>4, <2>1, <3>3 DEF MoveAt, Touched
    <3> QED
      BY <3>1, <3>2, <3>3
  <2> QED
    BY <1>2, <2>2, <2>3
<1> QED
  BY <1>3, <1>4

-----------------------------------------------------------------------------
(* Units and their stock *)

\* What a unit of a status stands for on its row.
OnShelf(status)  == IF status \in StockBearing THEN 1 ELSE 0
Promised(status) == IF status = "reserved" THEN 1 ELSE 0

Stands(status) == Delta(OnShelf(status), Promised(status))

UnitRow == [status : UnitStatuses \cup {"absent"}, warehouse : Warehouses]

LEMMA StandsFacts ==
    /\ \A s : Stands(s) \in Movement /\ Stands(s).qty = OnShelf(s) /\ Stands(s).res = Promised(s)
    /\ \A s : Carried(s) = Stands(s)
    /\ \A s : OnShelf(s) \in {0, 1} /\ Promised(s) \in {0, 1}
    /\ OnShelf("absent") = 0 /\ Promised("absent") = 0
    /\ \A s \in OffShelf : OnShelf(s) = 0 /\ Promised(s) = 0
BY DEF Stands, OnShelf, Promised, Delta, Movement, Carried, StockBearing, OffShelf, None

\* _apply_status_inventory posts the difference.
LEMMA StatusDeltaFacts ==
    ASSUME NEW old \in UnitStatuses, NEW new \in UnitStatuses
    PROVE  /\ StatusDelta(old, new) \in Movement
           /\ StatusDelta(old, new).qty = OnShelf(new) - OnShelf(old)
           /\ StatusDelta(old, new).res = Promised(new) - Promised(old)
<1> USE DEF StatusDelta, Delta, None, OnShelf, Promised, Movement, StockBearing, OffShelf, UnitStatuses
<1>1. CASE old = "available"
  BY <1>1
<1>2. CASE old = "reserved"
  BY <1>2
<1>3. CASE old \in OffShelf
  BY <1>3
<1> QED
  BY <1>1, <1>2, <1>3

\* The units of row k in the table f, and those of them that are reserved.
ShelfOf(f, k)   == {u \in Units : f[u].status \in StockBearing /\ <<f[u].warehouse, Sku[u]>> = k}
PromiseOf(f, k) == {u \in Units : f[u].status = "reserved" /\ <<f[u].warehouse, Sku[u]>> = k}

LEMMA ShelvesAreTracked ==
    ASSUME NEW k
    PROVE  /\ Tracked(k) = ShelfOf(unit, k) /\ Tracked(k)' = ShelfOf(unit', k)
           /\ TrackedReserved(k) = PromiseOf(unit, k) /\ TrackedReserved(k)' = PromiseOf(unit', k)
BY DEF Tracked, TrackedReserved, ShelfOf, PromiseOf, RowOf, StockBearing

LEMMA ShelvesFinite ==
    ASSUME NEW f, NEW k
    PROVE  /\ IsFiniteSet(ShelfOf(f, k)) /\ Cardinality(ShelfOf(f, k)) \in Nat
           /\ IsFiniteSet(PromiseOf(f, k)) /\ Cardinality(PromiseOf(f, k)) \in Nat
<1>1. ShelfOf(f, k) \subseteq Units /\ PromiseOf(f, k) \subseteq Units
  BY DEF ShelfOf, PromiseOf
<1> QED
  BY <1>1, SerialAssumption, FS_Subset, FS_CardinalityType

\* What a row says a unit of variant v contributes to row k.
ShelfAt(row, v, k)   == IF <<row.warehouse, v>> = k THEN OnShelf(row.status) ELSE 0
PromiseAt(row, v, k) == IF <<row.warehouse, v>> = k THEN Promised(row.status) ELSE 0

\* A set that may gain or lose one element.
LEMMA OneElement ==
    ASSUME NEW S, NEW T, IsFiniteSet(S), IsFiniteSet(T), NEW u, S \ {u} = T \ {u},
           NEW a \in {0, 1}, NEW b \in {0, 1}, u \in S <=> a = 1, u \in T <=> b = 1
    PROVE  Cardinality(T) = Cardinality(S) - a + b
<1> DEFINE rest == S \ {u}
<1>1. IsFiniteSet(rest) /\ Cardinality(rest) \in Nat /\ u \notin rest
  BY FS_Subset, FS_CardinalityType
<1>2. Cardinality(rest \cup {u}) = Cardinality(rest) + 1
  BY <1>1, FS_AddElement
<1>3. S = (IF a = 1 THEN rest \cup {u} ELSE rest) /\ T = (IF b = 1 THEN rest \cup {u} ELSE rest)
  OBVIOUS
<1> HIDE DEF rest
<1>4. Cardinality(S) = Cardinality(rest) + a
  BY <1>1, <1>2, <1>3
<1>5. Cardinality(T) = Cardinality(rest) + b
  BY <1>1, <1>2, <1>3
<1> QED
  BY <1>1, <1>4, <1>5

\* The tables f and g differ in the row of one unit.
RowChanges(f, g, u, row) == g[u] = row /\ \A x \in Units : x # u => g[x] = f[x]

\* What that does to the units of row k and to the reserved ones among them.
LEMMA OneUnit ==
    ASSUME NEW f, NEW g, NEW u \in Units, NEW row, NEW k, RowChanges(f, g, u, row)
    PROVE  /\ Cardinality(ShelfOf(g, k)) = Cardinality(ShelfOf(f, k))
                  - ShelfAt(f[u], Sku[u], k) + ShelfAt(row, Sku[u], k)
           /\ Cardinality(PromiseOf(g, k)) = Cardinality(PromiseOf(f, k))
                  - PromiseAt(f[u], Sku[u], k) + PromiseAt(row, Sku[u], k)
<1>1. g[u] = row /\ \A x \in Units : x # u => g[x] = f[x]
  BY DEF RowChanges
<1>2. ShelfOf(f, k) \ {u} = ShelfOf(g, k) \ {u} /\ PromiseOf(f, k) \ {u} = PromiseOf(g, k) \ {u}
  BY <1>1 DEF ShelfOf, PromiseOf
<1>3. /\ ShelfAt(f[u], Sku[u], k) \in {0, 1} /\ ShelfAt(row, Sku[u], k) \in {0, 1}
      /\ PromiseAt(f[u], Sku[u], k) \in {0, 1} /\ PromiseAt(row, Sku[u], k) \in {0, 1}
  BY StandsFacts DEF ShelfAt, PromiseAt
<1>4. /\ u \in ShelfOf(f, k) <=> ShelfAt(f[u], Sku[u], k) = 1
      /\ u \in ShelfOf(g, k) <=> ShelfAt(row, Sku[u], k) = 1
      /\ u \in PromiseOf(f, k) <=> PromiseAt(f[u], Sku[u], k) = 1
      /\ u \in PromiseOf(g, k) <=> PromiseAt(row, Sku[u], k) = 1
  BY <1>1 DEF ShelfOf, PromiseOf, ShelfAt, PromiseAt, OnShelf, Promised
<1>5. Cardinality(ShelfOf(g, k)) = Cardinality(ShelfOf(f, k))
         - ShelfAt(f[u], Sku[u], k) + ShelfAt(row, Sku[u], k)
  BY <1>2, <1>3, <1>4, ShelvesFinite, OneElement
<1>6. Cardinality(PromiseOf(g, k)) = Cardinality(PromiseOf(f, k))
         - PromiseAt(f[u], Sku[u], k) + PromiseAt(row, Sku[u], k)
  BY <1>2, <1>3, <1>4, ShelvesFinite, OneElement
<1> QED
  BY <1>5, <1>6
-----------------------------------------------------------------------------
(* The services of units *)

ClaimRow == [unit : Units \cup {"none"}, status : ClaimStatuses \cup {"absent"},
             before : UnitStatuses \cup {"absent"}]

UnitInv == UnitTypeOK /\ claim \in [Claims -> ClaimRow]

\* What row k changes by when the row of a unit of variant v changes.
FollowsUnit(moves, old, new, v) ==
    \A k \in Keys : /\ MoveAt(moves, k).qty = ShelfAt(new, v, k) - ShelfAt(old, v, k)
                    /\ MoveAt(moves, k).res = PromiseAt(new, v, k) - PromiseAt(old, v, k)

RegisteredStay == \A u \in Units : unit[u].status # "absent" => unit'[u].status # "absent"

\* The units of every row change by what moves there and by those registered.
ShelvesFollow(moves) ==
    \A k \in Keys :
        /\ Cardinality(ShelfOf(unit', k)) =
              Cardinality(ShelfOf(unit, k)) + MoveAt(moves, k).qty + Cardinality(Newcomers(k))
        /\ Cardinality(PromiseOf(unit', k)) =
              Cardinality(PromiseOf(unit, k)) + MoveAt(moves, k).res

LEMMA StockFollows ==
    ASSUME IInv, NEW moves, Movements(moves), RowsMove(moves), ShelvesFollow(moves)
    PROVE  UnitsTakeTheirStock
<1> SUFFICES ASSUME NEW k \in Keys
             PROVE  /\ Untracked(k)' = Untracked(k) - Cardinality(Newcomers(k))
                    /\ OpenPromises(k)' = OpenPromises(k)
  BY DEF UnitsTakeTheirStock
<1>1. /\ Untracked(k) = bal[k].onHand - Cardinality(ShelfOf(unit, k))
      /\ Untracked(k)' = bal'[k].onHand - Cardinality(ShelfOf(unit', k))
      /\ OpenPromises(k) = bal[k].reserved - Cardinality(PromiseOf(unit, k))
      /\ OpenPromises(k)' = bal'[k].reserved - Cardinality(PromiseOf(unit', k))
  BY ShelvesAreTracked DEF Untracked, OpenPromises
<1>2. bal[k].onHand \in Nat /\ bal[k].reserved \in Nat
  BY DEF IInv, TypeOK, Rows
<1>3. MoveAt(moves, k).qty \in Int /\ MoveAt(moves, k).res \in Int
  BY DEF Movements, Movement, MoveAt, None, Delta
<1>4. IsFiniteSet(Newcomers(k)) /\ Cardinality(Newcomers(k)) \in Nat
  BY SerialAssumption, FS_Subset, FS_CardinalityType DEF Newcomers
<1>5. /\ bal'[k].onHand = bal[k].onHand + MoveAt(moves, k).qty
      /\ bal'[k].reserved = bal[k].reserved + MoveAt(moves, k).res
      /\ Cardinality(ShelfOf(unit', k)) =
            Cardinality(ShelfOf(unit, k)) + MoveAt(moves, k).qty + Cardinality(Newcomers(k))
      /\ Cardinality(PromiseOf(unit', k)) =
            Cardinality(PromiseOf(unit, k)) + MoveAt(moves, k).res
  BY DEF RowsMove, ShelvesFollow
<1> QED
  BY <1>1, <1>2, <1>3, <1>4, <1>5, ShelvesFinite

\* Nobody is registered by a step that leaves absent units absent.
LEMMA NoNewcomers ==
    ASSUME NEW k, \A x \in Units : unit[x].status = "absent" => unit'[x].status = "absent"
    PROVE  Newcomers(k) = {} /\ Cardinality(Newcomers(k)) = 0
<1>1. ASSUME NEW x \in Units, unit[x] = Unregistered PROVE x \notin Tracked(k)'
  <2>1. unit'[x].status = "absent"
    BY <1>1 DEF Unregistered
  <2> QED
    BY <2>1 DEF Tracked, StockBearing
<1> QED
  BY <1>1, FS_EmptySet DEF Newcomers

\* A unit there is takes a row, and the stock follows it.
LEMMA UnitTakesRow ==
    ASSUME IInv, UnitInv, NEW u \in Registered, NEW row \in UnitRow, row.status # "absent",
           unit' = [unit EXCEPT ![u] = row],
           NEW moves, Movements(moves), RowsMove(moves),
           FollowsUnit(moves, unit[u], row, Sku[u])
    PROVE  UnitsTakeTheirStock /\ unit' \in [Units -> UnitRow] /\ RegisteredStay
<1>1. unit \in [Units -> UnitRow] /\ u \in Units /\ unit[u].status # "absent"
  BY DEF UnitInv, UnitTypeOK, UnitRow, Registered
<1>2. unit' \in [Units -> UnitRow] /\ RegisteredStay
  BY <1>1 DEF RegisteredStay
<1>3. ASSUME NEW k \in Keys
      PROVE  /\ Cardinality(ShelfOf(unit', k)) =
                    Cardinality(ShelfOf(unit, k)) + MoveAt(moves, k).qty + Cardinality(Newcomers(k))
             /\ Cardinality(PromiseOf(unit', k)) =
                    Cardinality(PromiseOf(unit, k)) + MoveAt(moves, k).res
  <2>1. Cardinality(Newcomers(k)) = 0
    BY <1>1, NoNewcomers
  <2>2. RowChanges(unit, unit', u, row)
    BY <1>1 DEF RowChanges
  <2>3. /\ Cardinality(ShelfOf(unit', k)) = Cardinality(ShelfOf(unit, k))
               - ShelfAt(unit[u], Sku[u], k) + ShelfAt(row, Sku[u], k)
        /\ Cardinality(PromiseOf(unit', k)) = Cardinality(PromiseOf(unit, k))
               - PromiseAt(unit[u], Sku[u], k) + PromiseAt(row, Sku[u], k)
    BY <1>1, <2>2, OneUnit
  <2>4. /\ MoveAt(moves, k).qty = ShelfAt(row, Sku[u], k) - ShelfAt(unit[u], Sku[u], k)
        /\ MoveAt(moves, k).res = PromiseAt(row, Sku[u], k) - PromiseAt(unit[u], Sku[u], k)
    BY DEF FollowsUnit
  <2>5. /\ ShelfAt(unit[u], Sku[u], k) \in {0, 1} /\ ShelfAt(row, Sku[u], k) \in {0, 1}
        /\ PromiseAt(unit[u], Sku[u], k) \in {0, 1} /\ PromiseAt(row, Sku[u], k) \in {0, 1}
    BY StandsFacts DEF ShelfAt, PromiseAt
  <2> QED
    BY <2>1, <2>3, <2>4, <2>5, ShelvesFinite
<1> QED
  BY <1>2, <1>3, StockFollows DEF ShelvesFollow

\* The rows of a registered unit.
LEMMA RowsOfUnits ==
    ASSUME UnitInv, NEW u \in Units
    PROVE  /\ unit \in [Units -> UnitRow] /\ Sku[u] \in Variants
           /\ RowOf(u) \in Keys /\ \A w \in Warehouses : <<w, Sku[u]>> \in Keys
           /\ u \in Registered => unit[u].status \in UnitStatuses
BY SerialAssumption DEF UnitInv, UnitTypeOK, UnitRow, RowOf, Keys, Registered

\* _apply_status_inventory, wherever the unit is.
LEMMA StatusFollows ==
    ASSUME UnitInv, NEW u \in Registered, NEW new \in UnitStatuses
    PROVE  /\ Movements(On(RowOf(u), StatusDelta(unit[u].status, new)))
           /\ FollowsUnit(On(RowOf(u), StatusDelta(unit[u].status, new)), unit[u],
                          [status |-> new, warehouse |-> unit[u].warehouse], Sku[u])
<1> DEFINE d == StatusDelta(unit[u].status, new)
<1>1. u \in Units /\ RowOf(u) \in Keys /\ unit[u].status \in UnitStatuses
  BY RowsOfUnits DEF Registered
<1>2. /\ d \in Movement
      /\ d.qty = OnShelf(new) - OnShelf(unit[u].status)
      /\ d.res = Promised(new) - Promised(unit[u].status)
  BY <1>1, StatusDeltaFacts
<1> HIDE DEF d
<1>3. Movements(On(RowOf(u), d)) /\ \A i \in Keys : MoveAt(On(RowOf(u), d), i) = IF i = RowOf(u) THEN d ELSE None
  BY <1>1, <1>2, OnRows
<1>4. FollowsUnit(On(RowOf(u), d), unit[u], [status |-> new, warehouse |-> unit[u].warehouse], Sku[u])
  BY <1>1, <1>2, <1>3, StandsFacts DEF FollowsUnit, ShelfAt, PromiseAt, RowOf, None, Delta
<1> QED
  BY <1>3, <1>4 DEF d

\* A service that gives a unit a status (change_serial_unit_status) moves its stock with it.
LEMMA BecomesFollows ==
    ASSUME IInv, UnitInv, NEW u \in Registered, NEW new \in UnitStatuses, Becomes(u, new)
    PROVE  IInv' /\ UnitsTakeTheirStock /\ unit' \in [Units -> UnitRow] /\ RegisteredStay
<1> DEFINE row == [status |-> new, warehouse |-> unit[u].warehouse]
           moves == On(RowOf(u), StatusDelta(unit[u].status, new))
<1>1. u \in Units /\ unit \in [Units -> UnitRow]
  BY RowsOfUnits DEF Registered
<1>2. row \in UnitRow /\ row.status # "absent"
  BY <1>1 DEF UnitRow, UnitStatuses, StockBearing, OffShelf
<1>6. unit' = [unit EXCEPT ![u] = row]
  <2>1. unit' = [unit EXCEPT ![u].status = new]
    BY DEF Becomes
  <2>2. [unit[u] EXCEPT !.status = new] = row
    BY <1>1 DEF UnitRow
  <2> QED
    BY <2>1, <2>2
<1>3. Movements(moves) /\ FollowsUnit(moves, unit[u], row, Sku[u])
  BY StatusFollows
<1>4. Post(moves)
  BY DEF Becomes
<1> HIDE DEF row, moves
<1>5. IInv' /\ RowsMove(moves)
  BY <1>3, <1>4, PostKeeps
<1> QED
  BY <1>2, <1>3, <1>5, <1>6, UnitTakesRow

\* _transfer_locked and then _apply_status_inventory.
LEMMA MoveFollows ==
    ASSUME UnitInv, NEW u \in Registered, NEW w \in Warehouses, NEW new \in UnitStatuses
    PROVE  LET moves == OnBoth(RowOf(u), Negated(Carried(unit[u].status)),
                               <<w, Sku[u]>>, Both(Carried(unit[u].status),
                                                   StatusDelta(unit[u].status, new))) IN
           /\ Movements(moves)
           /\ FollowsUnit(moves, unit[u], [status |-> new, warehouse |-> w], Sku[u])
<1> DEFINE old == unit[u].status
           out == Negated(Carried(old))
           in  == Both(Carried(old), StatusDelta(old, new))
           moves == OnBoth(RowOf(u), out, <<w, Sku[u]>>, in)
<1>1. /\ u \in Units /\ old \in UnitStatuses /\ RowOf(u) \in Keys /\ <<w, Sku[u]>> \in Keys
  BY RowsOfUnits DEF Registered
<1>2. /\ StatusDelta(old, new) \in Movement
      /\ StatusDelta(old, new).qty = OnShelf(new) - OnShelf(old)
      /\ StatusDelta(old, new).res = Promised(new) - Promised(old)
  BY <1>1, StatusDeltaFacts
<1>3. /\ out \in Movement /\ out.qty = -OnShelf(old) /\ out.res = -Promised(old)
  BY StandsFacts DEF Negated, Delta, Movement
<1>4. /\ in \in Movement /\ in.qty = OnShelf(new) /\ in.res = Promised(new)
  BY <1>2, StandsFacts DEF Both, Delta, Movement
<1>5. RowOf(u) = <<unit[u].warehouse, Sku[u]>>
  BY DEF RowOf
<1> HIDE DEF out, in
<1>6. /\ Movements(moves)
      /\ \A i \in Keys : MoveAt(moves, i) = Both(IF i = RowOf(u) THEN out ELSE None,
                                                IF i = <<w, Sku[u]>> THEN in ELSE None)
  BY <1>1, <1>3, <1>4, OnRows
<1>7. ASSUME NEW k \in Keys
      PROVE  LET row == [status |-> new, warehouse |-> w] IN
             /\ MoveAt(moves, k).qty = ShelfAt(row, Sku[u], k) - ShelfAt(unit[u], Sku[u], k)
             /\ MoveAt(moves, k).res = PromiseAt(row, Sku[u], k) - PromiseAt(unit[u], Sku[u], k)
  <2> HIDE DEF moves
  <2>1. OnShelf(new) \in {0, 1} /\ OnShelf(old) \in {0, 1} /\ Promised(new) \in {0, 1} /\ Promised(old) \in {0, 1}
    BY StandsFacts
  <2>2. MoveAt(moves, k) = Both(IF k = RowOf(u) THEN out ELSE None,
                                IF k = <<w, Sku[u]>> THEN in ELSE None)
    BY <1>6
  <2>3. /\ MoveAt(moves, k).qty = (IF k = RowOf(u) THEN -OnShelf(old) ELSE 0)
                                   + (IF k = <<w, Sku[u]>> THEN OnShelf(new) ELSE 0)
        /\ MoveAt(moves, k).res = (IF k = RowOf(u) THEN -Promised(old) ELSE 0)
                                   + (IF k = <<w, Sku[u]>> THEN Promised(new) ELSE 0)
    BY <1>3, <1>4, <2>2 DEF Both, None, Delta
  <2> QED
    BY <1>5, <2>1, <2>3 DEF ShelfAt, PromiseAt
<1> HIDE DEF moves
<1>8. FollowsUnit(moves, unit[u], [status |-> new, warehouse |-> w], Sku[u])
  BY <1>7 DEF FollowsUnit
<1> QED
  BY <1>6, <1>8 DEF moves, out, in

\* What the services of units keep.
UnitKept == /\ IInv' /\ UnitsTakeTheirStock
            /\ unit' \in [Units -> UnitRow] /\ RegisteredStay

\* update_serial_unit
LEMMA UpdateFollows ==
    ASSUME IInv, UnitInv, NEW u \in Units, NEW w \in Warehouses, NEW new \in UnitStatuses,
           UpdateSerialUnit(u, w, new)
    PROVE  UnitKept
<1> DEFINE row == [status |-> new, warehouse |-> w]
<1>1. u \in Registered /\ unit' = [unit EXCEPT ![u] = row]
  BY DEF UpdateSerialUnit
<1>2. row \in UnitRow /\ row.status # "absent"
  BY DEF UnitRow, UnitStatuses, StockBearing, OffShelf
<1>3. CASE w = unit[u].warehouse
  <2> DEFINE moves == On(RowOf(u), StatusDelta(unit[u].status, new))
  <2>1. Movements(moves) /\ FollowsUnit(moves, unit[u], row, Sku[u])
    BY <1>1, <1>3, StatusFollows
  <2>2. Post(moves)
    BY <1>3 DEF UpdateSerialUnit
  <2> HIDE DEF row, moves
  <2>3. IInv' /\ RowsMove(moves)
    BY <2>1, <2>2, PostKeeps
  <2> QED
    BY <1>1, <1>2, <2>1, <2>3, UnitTakesRow DEF UnitKept
<1>4. CASE w # unit[u].warehouse
  <2> DEFINE moves == OnBoth(RowOf(u), Negated(Carried(unit[u].status)),
                             <<w, Sku[u]>>, Both(Carried(unit[u].status),
                                                 StatusDelta(unit[u].status, new)))
  <2>1. Movements(moves) /\ FollowsUnit(moves, unit[u], row, Sku[u])
    BY <1>1, MoveFollows
  <2>2. Post(moves)
    BY <1>4 DEF UpdateSerialUnit
  <2> HIDE DEF row, moves
  <2>3. IInv' /\ RowsMove(moves)
    BY <2>1, <2>2, PostKeeps
  <2> QED
    BY <1>1, <1>2, <2>1, <2>3, UnitTakesRow DEF UnitKept
<1> QED
  BY <1>3, <1>4

\* _process_return_item_inventory for a serialized item
LEMMA ReturnFollows ==
    ASSUME IInv, UnitInv, NEW u \in Units, NEW w \in Warehouses, NEW new \in UnitStatuses,
           ReturnSerialUnit(u, w, new)
    PROVE  UnitKept
<1> DEFINE row == [status |-> new, warehouse |-> w]
           d == StatusDelta("sold", new)
           moves == On(<<w, Sku[u]>>, d)
<1>1. unit[u].status = "sold" /\ unit' = [unit EXCEPT ![u] = row] /\ Post(moves)
  BY DEF ReturnSerialUnit
<1>2. u \in Registered /\ row \in UnitRow /\ row.status # "absent" /\ <<w, Sku[u]>> \in Keys
  BY <1>1, RowsOfUnits DEF Registered, UnitRow, UnitStatuses, StockBearing, OffShelf
<1>3. d \in Movement /\ d.qty = OnShelf(new) /\ d.res = Promised(new)
  <2>1. "sold" \in UnitStatuses /\ OnShelf("sold") = 0 /\ Promised("sold") = 0
    BY StandsFacts DEF UnitStatuses, OffShelf
  <2>2. OnShelf(new) \in {0, 1} /\ Promised(new) \in {0, 1}
    BY StandsFacts
  <2> QED
    BY <2>1, <2>2, StatusDeltaFacts
<1> HIDE DEF d
<1>4. /\ Movements(moves)
      /\ \A i \in Keys : MoveAt(moves, i) = IF i = <<w, Sku[u]>> THEN d ELSE None
  BY <1>2, <1>3, OnRows
<1>5. FollowsUnit(moves, unit[u], row, Sku[u])
  <2>1. \A k \in Keys : ShelfAt(unit[u], Sku[u], k) = 0 /\ PromiseAt(unit[u], Sku[u], k) = 0
    BY <1>1, StandsFacts DEF ShelfAt, PromiseAt, OffShelf
  <2>2. OnShelf(new) \in {0, 1} /\ Promised(new) \in {0, 1}
    BY StandsFacts
  <2> HIDE DEF moves
  <2> QED
    BY <1>3, <1>4, <2>1, <2>2 DEF FollowsUnit, ShelfAt, PromiseAt, None, Delta
<1> HIDE DEF row, moves
<1>6. IInv' /\ RowsMove(moves)
  BY <1>1, <1>4, PostKeeps
<1> QED
  BY <1>1, <1>2, <1>4, <1>5, <1>6, UnitTakesRow DEF UnitKept

\* register_serial_unit: the newcomer is one of the untracked units of its row.
LEMMA RegisterFollows ==
    ASSUME IInv, UnitInv, NEW u \in Units, NEW w \in Warehouses, NEW new \in UnitStatuses,
           RegisterSerialUnit(u, w, new)
    PROVE  UnitKept
<1> DEFINE row == [status |-> new, warehouse |-> w]
           d == IF new = "reserved" THEN Delta(0, 1) ELSE None
           moves == On(<<w, Sku[u]>>, d)
<1>1. /\ unit[u] = Unregistered /\ unit' = [unit EXCEPT ![u] = row] /\ Post(moves)
      /\ new \in {"available", "reserved"}
  BY DEF RegisterSerialUnit
<1>2. unit \in [Units -> UnitRow] /\ <<w, Sku[u]>> \in Keys
  BY RowsOfUnits
<1>3. unit' \in [Units -> UnitRow] /\ RegisteredStay
  BY <1>1, <1>2 DEF UnitRow, RegisteredStay, UnitStatuses, StockBearing, OffShelf
<1>4. d \in Movement /\ d.qty = 0 /\ d.res = Promised(new) /\ OnShelf(new) = 1
  BY <1>1 DEF Movement, Delta, None, Promised, OnShelf, StockBearing
<1> HIDE DEF d
<1>5. /\ Movements(moves)
      /\ \A i \in Keys : MoveAt(moves, i) = IF i = <<w, Sku[u]>> THEN d ELSE None
  BY <1>2, <1>4, OnRows
<1>6. IInv' /\ RowsMove(moves)
  <2> HIDE DEF moves
  <2> QED
    BY <1>1, <1>5, PostKeeps
<1>7. ASSUME NEW k \in Keys
      PROVE  /\ Cardinality(ShelfOf(unit', k)) =
                    Cardinality(ShelfOf(unit, k)) + MoveAt(moves, k).qty + Cardinality(Newcomers(k))
             /\ Cardinality(PromiseOf(unit', k)) =
                    Cardinality(PromiseOf(unit, k)) + MoveAt(moves, k).res
  <2>1. RowChanges(unit, unit', u, row)
    BY <1>1, <1>2 DEF RowChanges
  <2>2. /\ Cardinality(ShelfOf(unit', k)) = Cardinality(ShelfOf(unit, k))
               - ShelfAt(unit[u], Sku[u], k) + ShelfAt(row, Sku[u], k)
        /\ Cardinality(PromiseOf(unit', k)) = Cardinality(PromiseOf(unit, k))
               - PromiseAt(unit[u], Sku[u], k) + PromiseAt(row, Sku[u], k)
    BY <2>1, OneUnit
  <2>3. ShelfAt(unit[u], Sku[u], k) = 0 /\ PromiseAt(unit[u], Sku[u], k) = 0
    BY <1>1, StandsFacts DEF ShelfAt, PromiseAt, Unregistered
  <2>4. /\ ShelfAt(row, Sku[u], k) = (IF k = <<w, Sku[u]>> THEN 1 ELSE 0)
        /\ PromiseAt(row, Sku[u], k) = (IF k = <<w, Sku[u]>> THEN Promised(new) ELSE 0)
    BY <1>4 DEF ShelfAt, PromiseAt
  <2>5. Newcomers(k) = IF k = <<w, Sku[u]>> THEN {u} ELSE {}
    <3>1. u \in Tracked(k)' <=> k = <<w, Sku[u]>>
      <4>1. unit'[u] = row
        BY <1>1, <1>2
      <4>2. new \in StockBearing
        BY <1>1 DEF StockBearing
      <4> QED
        BY <4>1, <4>2 DEF Tracked, RowOf
    <3>2. ASSUME NEW x \in Units, x # u, unit[x] = Unregistered PROVE x \notin Tracked(k)'
      <4>1. unit'[x].status = "absent"
        BY <1>1, <1>2, <3>2 DEF Unregistered
      <4> QED
        BY <4>1 DEF Tracked, StockBearing
    <3> QED
      BY <1>1, <3>1, <3>2 DEF Newcomers
  <2>6. Cardinality(Newcomers(k)) = IF k = <<w, Sku[u]>> THEN 1 ELSE 0
    BY <2>5, FS_EmptySet, FS_Singleton
  <2>7. MoveAt(moves, k).qty = 0 /\ MoveAt(moves, k).res = (IF k = <<w, Sku[u]>> THEN Promised(new) ELSE 0)
    BY <1>4, <1>5 DEF None, Delta
  <2>8. Promised(new) \in {0, 1}
    BY StandsFacts
  <2> HIDE DEF moves, row
  <2> QED
    BY <2>2, <2>3, <2>4, <2>6, <2>7, <2>8, ShelvesFinite
<1> HIDE DEF moves
<1>8. UnitsTakeTheirStock
  BY <1>5, <1>6, <1>7, StockFollows DEF ShelvesFollow
<1> QED
  BY <1>3, <1>6, <1>8 DEF UnitKept

\* update_warranty_claim, REPLACED: one unit is sold and the other scrapped.
LEMMA ReplaceFollows ==
    ASSUME IInv, UnitInv, NEW c \in Claims, NEW r \in Units, claim[c].unit \in Registered,
           ReplaceWarrantyClaim(c, r)
    PROVE  UnitKept
<1> DEFINE u == claim[c].unit
<1>u. u \in Registered /\ u \in Units /\ r # u
  BY DEF Registered, ReplaceWarrantyClaim
<1> DEFINE sold == StatusDelta(unit[r].status, "sold")
           gone == StatusDelta(unit[u].status, "scrapped")
           moves == OnBoth(RowOf(r), sold, RowOf(u), gone)
           rowR == [status |-> "sold", warehouse |-> unit[r].warehouse]
           rowU == [status |-> "scrapped", warehouse |-> unit[u].warehouse]
           mid == [unit EXCEPT ![r] = rowR]
<1>1. /\ unit[r].status = "available" /\ Post(moves)
      /\ unit' = [unit EXCEPT ![r].status = "sold", ![u].status = "scrapped"]
  BY DEF ReplaceWarrantyClaim
<1> HIDE DEF u
<1>2. /\ unit \in [Units -> UnitRow] /\ RowOf(r) \in Keys /\ RowOf(u) \in Keys
      /\ unit[u].status \in UnitStatuses /\ r \in Registered
  <2>1. r \in Registered
    BY <1>1 DEF Registered
  <2> QED
    BY <1>u, <2>1, RowsOfUnits
<1>3. /\ unit'[r] = rowR /\ unit'[u] = rowU /\ DOMAIN unit' = Units
      /\ \A x \in Units : x # r /\ x # u => unit'[x] = unit[x]
  BY <1>1, <1>2, <1>u DEF UnitRow
<1>4. RowChanges(unit, mid, r, rowR) /\ RowChanges(mid, unit', u, rowU) /\ mid[u] = unit[u]
  BY <1>2, <1>3, <1>u DEF RowChanges
<1>5. unit' \in [Units -> UnitRow] /\ RegisteredStay
  <2>1. rowR \in UnitRow /\ rowU \in UnitRow
    BY <1>2, <1>u DEF UnitRow, UnitStatuses, StockBearing, OffShelf
  <2>2. unit' = [x \in Units |-> unit'[x]]
    BY <1>1, <1>2
  <2>3. \A x \in Units : unit'[x] \in UnitRow
    BY <1>2, <1>3, <2>1, <1>u
  <2>4. ASSUME NEW x \in Units, unit[x].status # "absent" PROVE unit'[x].status # "absent"
    BY <1>3, <2>4
  <2> QED
    BY <2>2, <2>3, <2>4 DEF RegisteredStay
<1> HIDE DEF mid
<1>6. /\ sold \in Movement /\ sold.qty = -1 /\ sold.res = 0
      /\ gone \in Movement /\ gone.qty = -OnShelf(unit[u].status)
      /\ gone.res = -Promised(unit[u].status)
  <2>1. /\ "sold" \in UnitStatuses /\ OnShelf("sold") = 0 /\ Promised("sold") = 0
        /\ "scrapped" \in UnitStatuses /\ OnShelf("scrapped") = 0 /\ Promised("scrapped") = 0
    BY StandsFacts DEF UnitStatuses, OffShelf
  <2>2. OnShelf("available") = 1 /\ Promised("available") = 0 /\ "available" \in UnitStatuses
    BY DEF OnShelf, Promised, StockBearing, UnitStatuses
  <2>3. OnShelf(unit[u].status) \in {0, 1} /\ Promised(unit[u].status) \in {0, 1}
    BY StandsFacts
  <2>4. sold \in Movement /\ sold.qty = OnShelf("sold") - OnShelf(unit[r].status)
        /\ sold.res = Promised("sold") - Promised(unit[r].status)
    BY <1>1, <2>1, <2>2, StatusDeltaFacts
  <2>5. gone \in Movement /\ gone.qty = OnShelf("scrapped") - OnShelf(unit[u].status)
        /\ gone.res = Promised("scrapped") - Promised(unit[u].status)
    BY <1>2, <2>1, StatusDeltaFacts
  <2> HIDE DEF sold, gone
  <2> QED
    BY <1>1, <2>1, <2>2, <2>3, <2>4, <2>5
<1> HIDE DEF sold, gone
<1>7. /\ Movements(moves)
      /\ \A i \in Keys : MoveAt(moves, i) = Both(IF i = RowOf(r) THEN sold ELSE None,
                                                IF i = RowOf(u) THEN gone ELSE None)
  BY <1>2, <1>6, OnRows
<1> HIDE DEF moves
<1>8. IInv' /\ RowsMove(moves)
  BY <1>1, <1>7, PostKeeps
<1>9. ASSUME NEW k \in Keys
      PROVE  /\ Cardinality(ShelfOf(unit', k)) =
                    Cardinality(ShelfOf(unit, k)) + MoveAt(moves, k).qty + Cardinality(Newcomers(k))
             /\ Cardinality(PromiseOf(unit', k)) =
                    Cardinality(PromiseOf(unit, k)) + MoveAt(moves, k).res
  <2>1. Cardinality(Newcomers(k)) = 0
    <3>1. ASSUME NEW x \in Units, unit[x].status = "absent" PROVE unit'[x].status = "absent"
      BY <1>1, <1>3, <1>u, <3>1 DEF Registered
    <3> QED
      BY <3>1, NoNewcomers
  <2>2. /\ Cardinality(ShelfOf(mid, k)) = Cardinality(ShelfOf(unit, k))
               - ShelfAt(unit[r], Sku[r], k) + ShelfAt(rowR, Sku[r], k)
        /\ Cardinality(PromiseOf(mid, k)) = Cardinality(PromiseOf(unit, k))
               - PromiseAt(unit[r], Sku[r], k) + PromiseAt(rowR, Sku[r], k)
    BY <1>4, OneUnit
  <2>3. /\ Cardinality(ShelfOf(unit', k)) = Cardinality(ShelfOf(mid, k))
               - ShelfAt(unit[u], Sku[u], k) + ShelfAt(rowU, Sku[u], k)
        /\ Cardinality(PromiseOf(unit', k)) = Cardinality(PromiseOf(mid, k))
               - PromiseAt(unit[u], Sku[u], k) + PromiseAt(rowU, Sku[u], k)
    BY <1>4, <1>u, OneUnit
  <2>4. /\ ShelfAt(rowR, Sku[r], k) = 0 /\ PromiseAt(rowR, Sku[r], k) = 0
        /\ ShelfAt(rowU, Sku[u], k) = 0 /\ PromiseAt(rowU, Sku[u], k) = 0
    BY StandsFacts DEF ShelfAt, PromiseAt, OffShelf
  <2>5. /\ ShelfAt(unit[r], Sku[r], k) = (IF k = RowOf(r) THEN 1 ELSE 0)
        /\ PromiseAt(unit[r], Sku[r], k) = 0
        /\ ShelfAt(unit[u], Sku[u], k) = (IF k = RowOf(u) THEN OnShelf(unit[u].status) ELSE 0)
        /\ PromiseAt(unit[u], Sku[u], k) = (IF k = RowOf(u) THEN Promised(unit[u].status) ELSE 0)
    BY <1>1 DEF ShelfAt, PromiseAt, RowOf, OnShelf, Promised, StockBearing
  <2>6. OnShelf(unit[u].status) \in {0, 1} /\ Promised(unit[u].status) \in {0, 1}
    BY StandsFacts
  <2>7. /\ MoveAt(moves, k).qty = (IF k = RowOf(r) THEN -1 ELSE 0)
                                   + (IF k = RowOf(u) THEN -OnShelf(unit[u].status) ELSE 0)
        /\ MoveAt(moves, k).res = (IF k = RowOf(u) THEN -Promised(unit[u].status) ELSE 0)
    <3>1. MoveAt(moves, k) = Both(IF k = RowOf(r) THEN sold ELSE None,
                                  IF k = RowOf(u) THEN gone ELSE None)
      BY <1>7
    <3> QED
      BY <1>6, <2>6, <3>1 DEF Both, None, Delta
  <2> QED
    BY <2>1, <2>2, <2>3, <2>4, <2>5, <2>6, <2>7, ShelvesFinite
<1>10. UnitsTakeTheirStock
  BY <1>7, <1>8, <1>9, StockFollows DEF ShelvesFollow
<1> QED
  BY <1>5, <1>8, <1>10 DEF UnitKept

\* The claims and the units they are about, after a service of units.
LEMMA ClaimsStay ==
    ASSUME UnitInv, unit' \in [Units -> UnitRow], RegisteredStay, claim' = claim
    PROVE  UnitInv'
BY DEF UnitInv, UnitTypeOK, UnitRow, RegisteredStay, Registered

LEMMA ClaimChanges ==
    ASSUME UnitInv, unit' \in [Units -> UnitRow], RegisteredStay,
           NEW c \in Claims, NEW new \in ClaimRow, claim' = [claim EXCEPT ![c] = new],
           new.unit \in Registered, new.status \in ClaimStatuses, new.before \in UnitStatuses
    PROVE  UnitInv'
<1>1. claim' \in [Claims -> ClaimRow] /\ claim'[c] = new
      /\ \A d \in Claims : d # c => claim'[d] = claim[d]
  BY DEF UnitInv
<1>2. Registered \subseteq Registered'
  BY DEF RegisteredStay, Registered
<1>3. ASSUME NEW d \in Claims, claim'[d] # NoClaim
      PROVE  /\ claim'[d].unit \in Registered'
             /\ claim'[d].status \in ClaimStatuses
             /\ claim'[d].before \in UnitStatuses
  <2>1. CASE d = c
    BY <1>1, <1>2, <2>1
  <2>2. CASE d # c
    BY <1>1, <1>2, <1>3, <2>2 DEF UnitInv, UnitTypeOK
  <2> QED
    BY <2>1, <2>2
<1>4. unit' \in [Units -> [status : UnitStatuses \cup {"absent"}, warehouse : Warehouses]]
  BY DEF UnitRow
<1> QED
  BY <1>1, <1>3, <1>4 DEF UnitInv, UnitTypeOK

\* What a claim there is holds.
LEMMA ClaimFacts ==
    ASSUME UnitInv, NEW c \in Claims, claim[c] # NoClaim
    PROVE  /\ claim[c] \in ClaimRow /\ claim[c].unit \in Registered
           /\ claim[c].status \in ClaimStatuses /\ claim[c].before \in UnitStatuses
BY DEF UnitInv, UnitTypeOK

\* The pages of units, claims and customer returns.
LEMMA UnitServices ==
    ASSUME IInv, UnitInv, EditUnit \/ Return \/ ClaimNext
    PROVE  UnitKept /\ UnitInv'
<1>1. CASE EditUnit
  <2>1. PICK u \in Units, w \in Warehouses, s \in UnitStatuses :
            RegisterSerialUnit(u, w, s) \/ UpdateSerialUnit(u, w, s)
    BY <1>1 DEF EditUnit, RegisterByHand, UpdateByHand
  <2>2. UnitKept
    BY <2>1, RegisterFollows, UpdateFollows
  <2>3. claim' = claim
    BY <2>1 DEF RegisterSerialUnit, UpdateSerialUnit
  <2> QED
    BY <2>2, <2>3, ClaimsStay DEF UnitKept
<1>2. CASE Return
  <2>1. PICK u \in Units, w \in Warehouses, s \in UnitStatuses : ReturnSerialUnit(u, w, s)
    BY <1>2 DEF Return
  <2>2. UnitKept
    BY <2>1, ReturnFollows
  <2>3. claim' = claim
    BY <2>1 DEF ReturnSerialUnit
  <2> QED
    BY <2>2, <2>3, ClaimsStay DEF UnitKept
<1>3. ASSUME NEW c \in Claims, NEW s \in ClaimStatuses, claim[c] # NoClaim,
             claim' = [claim EXCEPT ![c].status = s], UnitKept
      PROVE  UnitInv'
  <2> DEFINE new == [claim[c] EXCEPT !.status = s]
  <2>1. claim[c] \in ClaimRow /\ claim[c].unit \in Registered /\ claim[c].before \in UnitStatuses
    BY <1>3, ClaimFacts
  <2>2. claim' = [claim EXCEPT ![c] = new]
    BY <1>3
  <2>3. /\ new \in ClaimRow /\ new.unit = claim[c].unit /\ new.status = s
        /\ new.before = claim[c].before
    BY <2>1 DEF ClaimRow
  <2> HIDE DEF new
  <2> QED
    BY <1>3, <2>1, <2>2, <2>3, ClaimChanges DEF UnitKept
<1>4. CASE Open
  <2>1. PICK c \in Claims, u \in Units : OpenWarrantyClaim(c, u)
    BY <1>4 DEF Open
  <2> DEFINE new == [unit |-> u, status |-> "open", before |-> unit[u].status]
  <2>2. u \in Registered /\ claim' = [claim EXCEPT ![c] = new] /\ Becomes(u, "warranty_service")
    BY <2>1 DEF OpenWarrantyClaim
  <2>3. UnitKept
    BY <2>2, BecomesFollows DEF UnitKept, UnitStatuses, OffShelf
  <2>4. unit[u].status \in UnitStatuses
    BY <2>2, RowsOfUnits
  <2>5. new \in ClaimRow /\ new.unit \in Registered /\ new.status \in ClaimStatuses /\ new.before \in UnitStatuses
    BY <2>2, <2>4 DEF ClaimRow, ClaimStatuses
  <2> HIDE DEF new
  <2> QED
    BY <2>2, <2>3, <2>5, ClaimChanges DEF UnitKept
<1>5. CASE Serve
  <2>1. PICK c \in Claims : ServeWarrantyClaim(c)
    BY <1>5 DEF Serve
  <2>2. /\ claim[c] # NoClaim /\ claim' = [claim EXCEPT ![c].status = "open"]
        /\ Becomes(claim[c].unit, "warranty_service")
    BY <2>1 DEF ServeWarrantyClaim, MayBecome
  <2>3. claim[c].unit \in Registered
    BY <2>2, ClaimFacts
  <2>4. UnitKept
    BY <2>2, <2>3, BecomesFollows DEF UnitKept, UnitStatuses, OffShelf
  <2> QED
    BY <1>3, <2>2, <2>4 DEF ClaimStatuses
<1>6. CASE Close
  <2>1. PICK c \in Claims : CloseWarrantyClaim(c)
    BY <1>6 DEF Close
  <2>2. claim[c] # NoClaim /\ claim' = [claim EXCEPT ![c].status = "closed"]
    BY <2>1 DEF CloseWarrantyClaim, MayBecome
  <2>3. claim[c].unit \in Registered /\ claim[c].before \in UnitStatuses
    BY <2>2, ClaimFacts
  <2>4. UnitKept
    <3>1. CASE unit[claim[c].unit].status = "warranty_service"
      <4>1. Becomes(claim[c].unit, claim[c].before)
        BY <2>1, <3>1 DEF CloseWarrantyClaim
      <4> QED
        BY <2>3, <4>1, BecomesFollows DEF UnitKept
    <3>2. CASE unit[claim[c].unit].status # "warranty_service"
      <4>1. UNCHANGED <<bal, ledger, cache, unit>>
        BY <2>1, <3>2 DEF CloseWarrantyClaim
      <4>2. IInv'
        BY <4>1, InvNextIInv DEF invVars
      <4>3. UnitsTakeTheirStock
        BY <4>1 DEF UnitsTakeTheirStock
      <4> QED
        BY <4>1, <4>2, <4>3 DEF UnitKept, UnitInv, UnitTypeOK, UnitRow, RegisteredStay
    <3> QED
      BY <3>1, <3>2
  <2> QED
    BY <1>3, <2>2, <2>4 DEF ClaimStatuses, Terminal
<1>7. CASE Replace
  <2>1. PICK c \in Claims, r \in Units : ReplaceWarrantyClaim(c, r)
    BY <1>7 DEF Replace
  <2>2. claim[c] # NoClaim /\ claim' = [claim EXCEPT ![c].status = "replaced"]
    BY <2>1 DEF ReplaceWarrantyClaim, MayBecome
  <2>3. UnitKept
    BY <2>1, <2>2, ClaimFacts, ReplaceFollows
  <2> QED
    BY <1>3, <2>2, <2>3 DEF ClaimStatuses, Terminal
<1> QED
  BY <1>1, <1>2, <1>4, <1>5, <1>6, <1>7 DEF ClaimNext

-----------------------------------------------------------------------------
(* What an order is worth *)

Counts == [Variants -> 0 .. MaxQty]

\* One item at its cost.
LEMMA ItemValue ==
    ASSUME NEW items \in Counts, NEW v \in Variants
    PROVE  items[v] * Cost[v] \in 0 .. MaxQty * MaxCost
<1> DEFINE n == items[v]
           c == Cost[v]
<1>1. n \in Nat /\ n <= MaxQty /\ MaxQty \in Nat
  BY InventoryAssumption DEF Counts
<1>2. c \in Nat /\ c <= MaxCost /\ MaxCost \in Nat
  BY PurchasingAssumption
<1> HIDE DEF n, c
<1>3. n * c \in Nat /\ n * c <= MaxQty * c /\ MaxQty * c <= MaxQty * MaxCost
  BY <1>1, <1>2
<1>4. MaxQty * c \in Nat /\ MaxQty * MaxCost \in Nat
  BY <1>1, <1>2
<1>5. n * c \in 0 .. MaxQty * MaxCost
  BY <1>3, <1>4
<1> QED
  BY <1>5 DEF n, c

LEMMA ValueColumn ==
    ASSUME NEW items \in Counts
    PROVE  /\ [v \in Variants |-> items[v] * Cost[v]] \in [Variants -> 0 .. MaxQty * MaxCost]
           /\ MaxQty * MaxCost \in Nat /\ IsFiniteSet(Variants)
           /\ Value(items) \in Nat
<1>1. MaxQty * MaxCost \in Nat /\ IsFiniteSet(Variants)
  BY InventoryAssumption, PurchasingAssumption
<1>2. [v \in Variants |-> items[v] * Cost[v]] \in [Variants -> 0 .. MaxQty * MaxCost]
  BY ItemValue
<1> QED
  BY <1>1, <1>2, TotalNat DEF Value

\* Receiving in parts is worth what receiving at once is.
LEMMA ValueAdds ==
    ASSUME NEW a \in Counts, NEW b \in Counts, NEW c \in Counts,
           \A v \in Variants : c[v] = a[v] + b[v]
    PROVE  Value(c) = Value(a) + Value(b)
<1> DEFINE Worth(x) == [v \in Variants |-> x[v] * Cost[v]]
           max == MaxQty * MaxCost
<1>1. /\ Worth(a) \in [Variants -> 0 .. max] /\ Worth(b) \in [Variants -> 0 .. max]
      /\ Worth(c) \in [Variants -> 0 .. max] /\ max \in Nat /\ IsFiniteSet(Variants)
  BY ValueColumn
<1>2. ASSUME NEW v \in Variants PROVE Worth(c)[v] = Worth(a)[v] + Worth(b)[v]
  <2>1. c[v] = a[v] + b[v] /\ a[v] \in Int /\ b[v] \in Int /\ Cost[v] \in Int
    BY PurchasingAssumption DEF Counts
  <2>2. c[v] * Cost[v] = a[v] * Cost[v] + b[v] * Cost[v]
    BY <2>1
  <2> QED
    BY <2>2
<1>3. Value(a) = Total(Worth(a), max) /\ Value(b) = Total(Worth(b), max) /\ Value(c) = Total(Worth(c), max)
  BY DEF Value
<1> HIDE DEF Worth, max
<1> QED
  BY <1>1, <1>2, <1>3, TotalAdds

LEMMA EmptyValue == Empty \in Counts /\ Value(Empty) = 0
<1>1. Empty \in Counts
  BY InventoryAssumption DEF Empty, Counts
<1>2. \A v \in Variants : Empty[v] = Empty[v] + Empty[v]
  BY DEF Empty
<1>3. Value(Empty) = Value(Empty) + Value(Empty)
  BY <1>1, <1>2, ValueAdds
<1> QED
  BY <1>1, <1>3, ValueColumn

-----------------------------------------------------------------------------
(* The purchases *)

PurchaseStatuses ==
    {"absent", "draft", "ordered", "partially_received", "received", "cancelled"}

OrderRow == [status : PurchaseStatuses, warehouse : Warehouses, ordered : Counts,
             received : Counts, returned : Counts, charge : Int, paid : Nat]

\* What has come never exceeds what was ordered, and what went back never what came.
WithinOrder(order) ==
    \A v \in Variants : /\ order.returned[v] <= order.received[v]
                        /\ order.received[v] <= order.ordered[v]

\* What the journals of an order amount to.
Owed(order) ==
    Value(order.received) + (IF order.status = "received" THEN order.charge ELSE 0)
        - order.paid - Value(order.returned)

\* The status and what has come and was paid go together.
StatusFits(order) ==
    /\ order.status \in {"absent", "draft", "cancelled"} => Untouched(order)
    /\ order.status \in {"absent", "draft", "cancelled", "ordered"} => order.received = Empty
    /\ order.status = "partially_received" =>
          order.received # Empty /\ order.received # order.ordered
    /\ order.status = "received" => order.received = order.ordered
    /\ order.status = "absent" => order = NoPurchase
    /\ order.status # "absent" => order.ordered # Empty

OrderInv(order, owed) ==
    /\ WithinOrder(order)
    /\ Value(order.ordered) + order.charge >= 0
    /\ owed = Owed(order)
    /\ StatusFits(order)

PurchaseInv ==
    /\ po \in [Purchases -> OrderRow]
    /\ payable \in [Purchases -> Int] /\ byHand \in [Purchases -> Int]
    /\ \A p \in Purchases : OrderInv(po[p], Posted[p])
    /\ \A p \in Purchases : byHand[p] # 0 => ~Untouched(po[p])

\* A service of p posts journals that add x to the account.
Adds(p, x) == payable' = [payable EXCEPT ![p] = @ + x] /\ byHand' = byHand

LEMMA NoPurchaseFits == NoPurchase \in OrderRow /\ OrderInv(NoPurchase, 0)
<1>1. NoPurchase \in OrderRow
  BY EmptyValue, InventoryAssumption DEF NoPurchase, OrderRow, PurchaseStatuses
<1>2. WithinOrder(NoPurchase)
  BY DEF WithinOrder, NoPurchase, Empty
<1>3. Owed(NoPurchase) = 0 /\ Value(NoPurchase.ordered) + NoPurchase.charge >= 0
  BY EmptyValue DEF Owed, NoPurchase
<1>4. StatusFits(NoPurchase)
  BY DEF StatusFits, NoPurchase, Untouched
<1> QED
  BY <1>1, <1>2, <1>3, <1>4 DEF OrderInv

\* A step that writes the row of one order and posts its journals.
LEMMA OneOrder ==
    ASSUME PurchaseInv, NEW p \in Purchases, NEW order \in OrderRow, NEW x \in Int,
           OrderInv(order, Posted[p] + x), ~Untouched(po[p]) => ~Untouched(order),
           po' = [po EXCEPT ![p] = order], Adds(p, x)
    PROVE  PurchaseInv'
<1>1. /\ po' \in [Purchases -> OrderRow] /\ payable' \in [Purchases -> Int]
      /\ byHand' \in [Purchases -> Int]
  BY DEF PurchaseInv, Adds
<1>2. ASSUME NEW q \in Purchases
      PROVE  OrderInv(po'[q], Posted'[q]) /\ (byHand'[q] # 0 => ~Untouched(po'[q]))
  <2>1. /\ payable[q] \in Int /\ byHand[q] \in Int /\ byHand'[q] = byHand[q]
        /\ OrderInv(po[q], Posted[q]) /\ (byHand[q] # 0 => ~Untouched(po[q]))
    BY DEF PurchaseInv, Adds
  <2>2. Posted[q] = payable[q] + byHand[q] /\ Posted'[q] = payable'[q] + byHand'[q]
    BY DEF Posted
  <2>3. CASE q = p
    <3>1. po'[q] = order /\ payable'[q] = payable[q] + x
      BY <2>3 DEF PurchaseInv, Adds
    <3>2. Posted'[q] = Posted[p] + x
      BY <2>1, <2>2, <2>3, <3>1
    <3> QED
      BY <2>1, <2>3, <3>1, <3>2
  <2>4. CASE q # p
    <3>1. po'[q] = po[q] /\ Posted'[q] = Posted[q]
      BY <2>1, <2>2, <2>4 DEF PurchaseInv, Adds
    <3> QED
      BY <2>1, <3>1
  <2> QED
    BY <2>3, <2>4
<1> QED
  BY <1>1, <1>2 DEF PurchaseInv

LEMMA OrderFacts ==
    ASSUME PurchaseInv, NEW p \in Purchases
    PROVE  /\ po[p] \in OrderRow /\ Posted[p] \in Int /\ OrderInv(po[p], Posted[p])
           /\ (byHand[p] # 0 => ~Untouched(po[p])) /\ Posted[p] = payable[p] + byHand[p]
           /\ payable[p] \in Int /\ byHand[p] \in Int
           /\ po[p].ordered \in Counts /\ po[p].received \in Counts /\ po[p].returned \in Counts
           /\ po[p].charge \in Int /\ po[p].paid \in Nat /\ po[p].warehouse \in Warehouses
           /\ po[p].status \in PurchaseStatuses
           /\ Value(po[p].ordered) \in Nat /\ Value(po[p].received) \in Nat
           /\ Value(po[p].returned) \in Nat
<1>1. /\ po[p] \in OrderRow /\ Posted[p] \in Int /\ OrderInv(po[p], Posted[p])
      /\ (byHand[p] # 0 => ~Untouched(po[p])) /\ Posted[p] = payable[p] + byHand[p]
      /\ payable[p] \in Int /\ byHand[p] \in Int
  BY DEF PurchaseInv, Posted
<1>2. /\ po[p].ordered \in Counts /\ po[p].received \in Counts /\ po[p].returned \in Counts
      /\ po[p].charge \in Int /\ po[p].paid \in Nat /\ po[p].warehouse \in Warehouses
      /\ po[p].status \in PurchaseStatuses
  BY <1>1 DEF OrderRow
<1> QED
  BY <1>1, <1>2, ValueColumn

\* Nothing came, so nothing went back.
LEMMA NothingReturned ==
    ASSUME NEW order \in OrderRow, WithinOrder(order), order.received = Empty
    PROVE  order.returned = Empty
<1>1. order.returned \in Counts
  BY DEF OrderRow
<1>2. \A v \in Variants : order.returned[v] = 0
  BY <1>1, InventoryAssumption DEF WithinOrder, Empty, Counts
<1> QED
  BY <1>1, <1>2 DEF Counts, Empty

\* What an order kept of a row, from its own row.
KeptBy(order, k) ==
    IF order.warehouse = k[1] THEN order.received[k[2]] - order.returned[k[2]] ELSE 0

LEMMA KeptBounded ==
    ASSUME NEW order \in OrderRow, WithinOrder(order), NEW k \in Keys
    PROVE  KeptBy(order, k) \in 0 .. MaxQty
<1>1. k[2] \in Variants /\ order.received \in Counts /\ order.returned \in Counts
  BY DEF Keys, OrderRow
<1>2. order.received[k[2]] \in 0 .. MaxQty /\ order.returned[k[2]] \in 0 .. MaxQty
      /\ order.returned[k[2]] <= order.received[k[2]] /\ MaxQty \in Nat
  BY <1>1, InventoryAssumption DEF Counts, WithinOrder
<1> QED
  BY <1>2 DEF KeptBy

\* What all orders kept follows the row of the order a step writes.
LEMMA KeptChanges ==
    ASSUME PurchaseInv, PurchaseInv', NEW p \in Purchases, NEW k \in Keys,
           \A q \in Purchases : q # p => po'[q] = po[q]
    PROVE  Kept(k)' - Kept(k) = KeptBy(po'[p], k) - KeptBy(po[p], k)
<1> DEFINE f == [q \in Purchases |-> KeptBy(po[q], k)]
           g == [q \in Purchases |-> KeptBy(po'[q], k)]
<1>1. Kept(k) = Total(f, MaxQty) /\ Kept(k)' = Total(g, MaxQty)
  BY DEF Kept, KeptOf, KeptBy
<1>2. \A q \in Purchases : /\ po[q] \in OrderRow /\ WithinOrder(po[q])
                           /\ po'[q] \in OrderRow /\ WithinOrder(po'[q])
  BY DEF PurchaseInv, OrderInv
<1>3. f \in [Purchases -> 0 .. MaxQty] /\ g \in [Purchases -> 0 .. MaxQty]
      /\ IsFiniteSet(Purchases) /\ MaxQty \in Nat
  BY <1>2, KeptBounded, InventoryAssumption, PurchasingAssumption
<1>4. \A q \in Purchases : q # p => f[q] = g[q]
  OBVIOUS
<1>5. f[p] = KeptBy(po[p], k) /\ g[p] = KeptBy(po'[p], k)
  OBVIOUS
<1> HIDE DEF f, g
<1>6. Total(f, MaxQty) \in Nat /\ Total(g, MaxQty) \in Nat
      /\ Total(g, MaxQty) = Total(f, MaxQty) - f[p] + g[p]
  BY <1>3, <1>4, TotalRowChanges
<1>7. f[p] \in Int /\ g[p] \in Int
  BY <1>3
<1> QED
  BY <1>1, <1>5, <1>6, <1>7

\* Stock and purchases move together.
StockKept == \A k \in Keys : bal'[k].onHand - bal[k].onHand = Kept(k)' - Kept(k)

KeepsAsMuch(order, old) == \A k \in Keys : KeptBy(order, k) = KeptBy(old, k)

\* A step that writes an order and leaves the stock and what the order kept of it alone.
LEMMA PaperOnly ==
    ASSUME IInv, PurchaseInv, NEW p \in Purchases, NEW order \in OrderRow, NEW x \in Int,
           OrderInv(order, Posted[p] + x), ~Untouched(po[p]) => ~Untouched(order),
           po' = [po EXCEPT ![p] = order], Adds(p, x),
           KeepsAsMuch(order, po[p]), bal' = bal
    PROVE  PurchaseInv' /\ StockKept
<1>1. PurchaseInv'
  BY OneOrder
<1>2. po'[p] = order /\ \A q \in Purchases : q # p => po'[q] = po[q]
  BY DEF PurchaseInv
<1>3. ASSUME NEW k \in Keys PROVE bal'[k].onHand - bal[k].onHand = Kept(k)' - Kept(k)
  <2>1. Kept(k)' - Kept(k) = KeptBy(po'[p], k) - KeptBy(po[p], k)
    BY <1>1, <1>2, KeptChanges
  <2>2. KeptBy(po[p], k) \in 0 .. MaxQty
    BY OrderFacts, KeptBounded DEF OrderInv
  <2>3. bal[k].onHand \in Int
    BY DEF IInv, TypeOK, Rows
  <2> QED
    BY <1>2, <2>1, <2>2, <2>3 DEF KeepsAsMuch
<1> QED
  BY <1>1, <1>3 DEF StockKept

\* An order nothing came of kept nothing.
LEMMA KeptNothing ==
    ASSUME NEW order, order.received = Empty, order.returned = Empty, NEW k \in Keys
    PROVE  KeptBy(order, k) = 0
BY DEF KeptBy, Empty, Keys

\* A service that posts no journal.
LEMMA NothingPosted ==
    ASSUME PurchaseInv, NEW p \in Purchases, payable' = payable, byHand' = byHand
    PROVE  Adds(p, 0) /\ (Posted[p] = 0 => Posted[p] + 0 = 0)
<1>1. payable \in [Purchases -> Int] /\ payable[p] + 0 = payable[p]
  BY DEF PurchaseInv
<1>2. payable = [payable EXCEPT ![p] = @ + 0]
  BY <1>1
<1> QED
  BY <1>2 DEF Adds

\* save_purchase_order
LEMMA SaveKeeps ==
    ASSUME IInv, PurchaseInv, SaveOrder
    PROVE  PurchaseInv' /\ StockKept
<1>1. PICK p \in Purchases, s \in {"draft", "ordered"}, w \in Warehouses,
           items \in Lines([v \in Variants |-> MaxQty]), charge \in Charges :
              SavePurchaseOrder(p, s, w, items, charge)
  BY DEF SaveOrder
<1> DEFINE order == [status |-> s, warehouse |-> w, ordered |-> items,
                     received |-> Empty, returned |-> Empty, charge |-> charge, paid |-> 0]
<1>2. /\ po[p].status \in {"absent", "draft", "ordered"} /\ Untouched(po[p])
      /\ Value(items) + charge >= 0
      /\ payable' = payable /\ byHand' = byHand /\ bal' = bal
      /\ po' = [po EXCEPT ![p] = order]
  BY <1>1 DEF SavePurchaseOrder
<1>a. order = [status |-> s, warehouse |-> w, ordered |-> items, received |-> Empty,
               returned |-> Empty, charge |-> charge, paid |-> 0]
  OBVIOUS
<1> HIDE DEF order
<1>3. /\ order.status = s /\ order.warehouse = w /\ order.ordered = items /\ order.charge = charge
      /\ order.received = Empty /\ order.returned = Empty /\ order.paid = 0
  BY <1>a
<1>4. items \in Counts /\ items # Empty /\ charge \in Int
  BY PurchasingAssumption DEF Lines, Counts
<1>5. order \in OrderRow
  <2>1. Empty \in Counts /\ s \in PurchaseStatuses /\ 0 \in Nat
    BY EmptyValue DEF PurchaseStatuses
  <2> QED
    BY <1>a, <1>4, <2>1 DEF OrderRow
<1>6. OrderInv(order, 0)
  <2>1. WithinOrder(order)
    BY <1>3, <1>4, InventoryAssumption DEF WithinOrder, Empty, Counts
  <2>2. Owed(order) = 0
    BY <1>3, EmptyValue DEF Owed
  <2>3. StatusFits(order)
    BY <1>3, <1>4 DEF StatusFits, Untouched
  <2> QED
    BY <1>2, <1>3, <2>1, <2>2, <2>3 DEF OrderInv
<1>7. po[p].received = Empty /\ po[p].returned = Empty /\ Posted[p] = 0
  <2>1. po[p].received = Empty /\ po[p].paid = 0
    BY <1>2 DEF Untouched
  <2>2. po[p].returned = Empty
    BY <2>1, OrderFacts, NothingReturned DEF OrderInv
  <2>3. Posted[p] = Owed(po[p])
    BY OrderFacts DEF OrderInv
  <2> QED
    BY <1>2, <2>1, <2>2, <2>3, EmptyValue DEF Owed
<1>8. Adds(p, 0) /\ OrderInv(order, Posted[p] + 0)
  BY <1>2, <1>6, <1>7, NothingPosted
<1>9. KeepsAsMuch(order, po[p])
  BY <1>3, <1>7, KeptNothing DEF KeepsAsMuch
<1>10. 0 \in Int /\ po' = [po EXCEPT ![p] = order] /\ bal' = bal
  <2>1. po' = [po EXCEPT ![p] = order]
    BY <1>2 DEF order
  <2> QED
    BY <1>2, <2>1
<1> QED
  BY <1>2, <1>5, <1>8, <1>9, <1>10, PaperOnly

\* A draft, ordered or cancelled order nothing was received of or paid for.
LEMMA UntouchedOwesNothing ==
    ASSUME PurchaseInv, NEW p \in Purchases, Untouched(po[p]), po[p].status # "received"
    PROVE  /\ po[p].received = Empty /\ po[p].returned = Empty /\ po[p].paid = 0
           /\ Posted[p] = 0 /\ payable[p] = 0
<1>1. po[p].received = Empty /\ po[p].paid = 0
  BY DEF Untouched
<1>2. po[p].returned = Empty
  BY <1>1, OrderFacts, NothingReturned DEF OrderInv
<1>3. Posted[p] = Owed(po[p]) /\ byHand[p] = 0 /\ Posted[p] = payable[p] + byHand[p]
      /\ payable[p] \in Int
  BY OrderFacts DEF OrderInv
<1>4. Posted[p] = 0
  BY <1>1, <1>2, <1>3, EmptyValue DEF Owed
<1> QED
  BY <1>1, <1>2, <1>3, <1>4

\* pay_purchase
LEMMA PayKeeps ==
    ASSUME IInv, PurchaseInv, PayOrder
    PROVE  PurchaseInv' /\ StockKept
<1>1. PICK p \in Purchases, amount \in Int : PayPurchase(p, amount)
  BY DEF PayOrder
<1> DEFINE order == [po[p] EXCEPT !.paid = @ + amount]
           owed == Posted[p] + (-amount)
<1>2. /\ po[p].status \in {"ordered", "partially_received", "received"} /\ amount > 0
      /\ po' = [po EXCEPT ![p] = order] /\ payable' = [payable EXCEPT ![p] = @ - amount]
      /\ byHand' = byHand /\ bal' = bal
  BY <1>1 DEF PayPurchase
<1>3. /\ order \in OrderRow /\ order.status = po[p].status /\ order.warehouse = po[p].warehouse
      /\ order.ordered = po[p].ordered /\ order.received = po[p].received
      /\ order.returned = po[p].returned /\ order.charge = po[p].charge
      /\ order.paid = po[p].paid + amount
  <2>1. po[p] \in OrderRow /\ po[p].paid + amount \in Nat
    BY <1>2, OrderFacts
  <2> QED
    BY <2>1 DEF OrderRow
<1> HIDE DEF order
<1>4. owed = Owed(order) /\ owed \in Int
  <2>1. Posted[p] = Owed(po[p]) /\ Posted[p] \in Int
    BY OrderFacts DEF OrderInv
  <2> QED
    BY <1>2, <1>3, <2>1, OrderFacts DEF Owed
<1> HIDE DEF owed
<1>5. OrderInv(order, owed)
  <2>1. WithinOrder(po[p]) /\ Value(po[p].ordered) + po[p].charge >= 0 /\ StatusFits(po[p])
    BY OrderFacts DEF OrderInv
  <2>2. WithinOrder(order) /\ Value(order.ordered) + order.charge >= 0
    BY <1>3, <2>1 DEF WithinOrder
  <2>3. StatusFits(order)
    BY <1>2, <1>3, <2>1 DEF StatusFits
  <2> QED
    BY <1>4, <2>2, <2>3 DEF OrderInv
<1>6. KeepsAsMuch(order, po[p])
  BY <1>3 DEF KeepsAsMuch, KeptBy
<1>7. po' = [po EXCEPT ![p] = order] /\ bal' = bal
  BY <1>2 DEF order
<1>8. -amount \in Int /\ Adds(p, -amount) /\ OrderInv(order, Posted[p] + (-amount))
  <2>1. payable[p] - amount = payable[p] + (-amount)
    BY OrderFacts
  <2>2. payable' = [payable EXCEPT ![p] = payable[p] - amount]
    BY <1>2
  <2>3. payable' = [payable EXCEPT ![p] = payable[p] + (-amount)]
    BY <2>1, <2>2
  <2>4. -amount \in Int
    BY <1>2, OrderFacts
  <2>5. Adds(p, -amount)
    BY <1>2, <2>3 DEF Adds
  <2>6. Posted[p] + (-amount) = owed
    BY <1>2, OrderFacts DEF owed
  <2> QED
    BY <1>5, <2>4, <2>5, <2>6
<1>9. ~Untouched(order)
  <2>1. order.paid # 0
    BY <1>2, <1>3, OrderFacts
  <2> QED
    BY <2>1 DEF Untouched
<1> QED
  BY <1>3, <1>6, <1>7, <1>8, <1>9, PaperOnly

\* cancel_purchase
LEMMA CancelKeeps ==
    ASSUME IInv, PurchaseInv, CancelOrder
    PROVE  PurchaseInv' /\ StockKept
<1>1. PICK p \in Purchases : CancelPurchase(p)
  BY DEF CancelOrder
<1> DEFINE order == [po[p] EXCEPT !.status = "cancelled"]
<1>2. /\ po[p].status \in {"draft", "ordered", "cancelled"} /\ Untouched(po[p])
      /\ po' = [po EXCEPT ![p] = order] /\ payable' = payable /\ byHand' = byHand /\ bal' = bal
  BY <1>1 DEF CancelPurchase
<1>3. /\ order \in OrderRow /\ order.status = "cancelled" /\ order.warehouse = po[p].warehouse
      /\ order.ordered = po[p].ordered /\ order.received = po[p].received
      /\ order.returned = po[p].returned /\ order.charge = po[p].charge
      /\ order.paid = po[p].paid
  <2>1. po[p] \in OrderRow
    BY OrderFacts
  <2> QED
    BY <2>1 DEF OrderRow, PurchaseStatuses
<1> HIDE DEF order
<1>4. po[p].received = Empty /\ po[p].returned = Empty /\ po[p].paid = 0 /\ Posted[p] = 0
  BY <1>2, UntouchedOwesNothing
<1>5. OrderInv(order, 0)
  <2>1. WithinOrder(po[p]) /\ Value(po[p].ordered) + po[p].charge >= 0 /\ StatusFits(po[p])
    BY OrderFacts DEF OrderInv
  <2>2. WithinOrder(order) /\ Value(order.ordered) + order.charge >= 0
    BY <1>3, <2>1 DEF WithinOrder
  <2>3. StatusFits(order)
    BY <1>2, <1>3, <1>4, <2>1 DEF StatusFits, Untouched
  <2>4. Owed(order) = 0
    BY <1>3, <1>4, EmptyValue DEF Owed
  <2> QED
    BY <2>2, <2>3, <2>4 DEF OrderInv
<1>6. KeepsAsMuch(order, po[p])
  BY <1>3 DEF KeepsAsMuch, KeptBy
<1>7. Adds(p, 0) /\ OrderInv(order, Posted[p] + 0)
  BY <1>2, <1>4, <1>5, NothingPosted
<1>8. po' = [po EXCEPT ![p] = order] /\ bal' = bal /\ 0 \in Int
  BY <1>2 DEF order
<1> QED
  BY <1>2, <1>3, <1>6, <1>7, <1>8, PaperOnly

\* delete_draft_purchase
LEMMA DeleteKeeps ==
    ASSUME IInv, PurchaseInv, DeleteOrder
    PROVE  PurchaseInv' /\ StockKept
<1>1. PICK p \in Purchases : DeleteDraftPurchase(p)
  BY DEF DeleteOrder
<1>2. /\ po[p].status = "draft" /\ Untouched(po[p])
      /\ po' = [po EXCEPT ![p] = NoPurchase] /\ payable' = payable /\ byHand' = byHand
      /\ bal' = bal
  BY <1>1 DEF DeleteDraftPurchase
<1>3. po[p].received = Empty /\ po[p].returned = Empty /\ Posted[p] = 0
  BY <1>2, UntouchedOwesNothing
<1>4. NoPurchase.received = Empty /\ NoPurchase.returned = Empty
  BY DEF NoPurchase
<1>5. KeepsAsMuch(NoPurchase, po[p])
  BY <1>3, <1>4, KeptNothing DEF KeepsAsMuch
<1>6. Adds(p, 0) /\ OrderInv(NoPurchase, Posted[p] + 0) /\ 0 \in Int
  BY <1>2, <1>3, NoPurchaseFits, NothingPosted
<1> QED
  BY <1>2, <1>5, <1>6, NoPurchaseFits, PaperOnly

\* The rows of the items in the warehouse of their order, each with what moves there.
GoodsOf(moves, w, items, sign) ==
    /\ DOMAIN moves = {<<w, v>> : v \in {x \in Variants : items[x] > 0}}
    /\ \A v \in Variants : items[v] > 0 => moves[<<w, v>>] = Delta(sign * items[v], 0)

LEMMA GoodsAreMovements ==
    ASSUME NEW w \in Warehouses, NEW items \in Counts, NEW sign \in {-1, 1}, NEW moves,
           GoodsOf(moves, w, items, sign)
    PROVE  /\ Movements(moves)
           /\ \A k \in Keys : MoveAt(moves, k).qty = IF k[1] = w THEN sign * items[k[2]] ELSE 0
<1>1. ASSUME NEW v \in Variants
      PROVE  items[v] \in Nat /\ sign * items[v] \in Int
  BY InventoryAssumption DEF Counts
<1>2. Movements(moves)
  <2>1. ASSUME NEW k \in DOMAIN moves PROVE k \in Keys /\ moves[k] \in Movement
    <3>1. PICK v \in Variants : k = <<w, v>> /\ items[v] > 0
      BY DEF GoodsOf
    <3>2. moves[k] = Delta(sign * items[v], 0)
      BY <3>1 DEF GoodsOf
    <3> QED
      BY <1>1, <3>1, <3>2 DEF Movement, Delta, Keys
  <2> QED
    BY <2>1 DEF Movements
<1>3. ASSUME NEW u \in Warehouses, NEW v \in Variants
      PROVE  MoveAt(moves, <<u, v>>).qty = IF u = w THEN sign * items[v] ELSE 0
  <2>1. CASE u = w /\ items[v] > 0
    <3>1. <<u, v>> \in DOMAIN moves /\ moves[<<u, v>>] = Delta(sign * items[v], 0)
      BY <2>1 DEF GoodsOf
    <3> QED
      BY <2>1, <3>1 DEF MoveAt, Delta
  <2>2. CASE u = w /\ ~ (items[v] > 0)
    <3>1. items[v] = 0
      BY <1>1, <2>2
    <3>2. MoveAt(moves, <<u, v>>).qty = 0
      BY <2>2 DEF GoodsOf, MoveAt, None, Delta
    <3> QED
      BY <2>2, <3>1, <3>2
  <2>3. CASE u # w
    BY <2>3 DEF GoodsOf, MoveAt, None, Delta
  <2> QED
    BY <2>1, <2>2, <2>3
<1>4. \A k \in Keys : \E u \in Warehouses, v \in Variants : k = <<u, v>>
  BY DEF Keys
<1> QED
  BY <1>2, <1>3, <1>4

\* A step that writes an order whose goods move in or out of its warehouse.
LEMMA GoodsMove ==
    ASSUME IInv, PurchaseInv, PurchaseInv', NEW p \in Purchases, NEW items \in Counts,
           NEW sign \in {-1, 1}, NEW moves, RowsMove(moves),
           \A k \in Keys : MoveAt(moves, k).qty =
               IF k[1] = po[p].warehouse THEN sign * items[k[2]] ELSE 0,
           \A q \in Purchases : q # p => po'[q] = po[q],
           \A k \in Keys : KeptBy(po'[p], k) = KeptBy(po[p], k) +
               IF k[1] = po[p].warehouse THEN sign * items[k[2]] ELSE 0
    PROVE  StockKept
<1> SUFFICES ASSUME NEW k \in Keys
             PROVE  bal'[k].onHand - bal[k].onHand = Kept(k)' - Kept(k)
  BY DEF StockKept
<1> DEFINE d == IF k[1] = po[p].warehouse THEN sign * items[k[2]] ELSE 0
<1>1. Kept(k)' - Kept(k) = KeptBy(po'[p], k) - KeptBy(po[p], k)
  BY KeptChanges
<1>2. bal'[k].onHand = bal[k].onHand + d /\ KeptBy(po'[p], k) = KeptBy(po[p], k) + d
  BY DEF RowsMove
<1>3. d \in Int
  BY InventoryAssumption DEF Keys, Counts
<1>4. bal[k].onHand \in Int /\ KeptBy(po[p], k) \in Int
  <2>1. KeptBy(po[p], k) \in 0 .. MaxQty
    BY OrderFacts, KeptBounded DEF OrderInv
  <2> QED
    BY <2>1, InventoryAssumption DEF IInv, TypeOK, Rows
<1> HIDE DEF d
<1> QED
  BY <1>1, <1>2, <1>3, <1>4

\* receive_purchase
LEMMA ReceiveKeeps ==
    ASSUME IInv, UnitInv, PurchaseInv, ReceiveOrder
    PROVE  IInv' /\ UnitInv' /\ PurchaseInv' /\ StockKept /\ po' # po
<1>1. PICK p \in Purchases, serials \in SUBSET Units :
         \E items \in Lines(po[p].ordered) : ReceivePurchase(p, items, serials)
  BY DEF ReceiveOrder
<1>2. PICK items \in Lines(po[p].ordered) : ReceivePurchase(p, items, serials)
  BY <1>1
<1> DEFINE got == Plus(po[p].received, items)
           order == [po[p] EXCEPT !.received = got]
           after == [order EXCEPT !.status = StatusAfter(order)]
           w == po[p].warehouse
           moves == [j \in {<<w, v>> : v \in {x \in Variants : items[x] > 0}} |-> Delta(items[j[2]], 0)]
           more == ReceiptValue(after, items)
           owed == Posted[p] + more
<1>3. order.warehouse = w /\ order.status = po[p].status /\ order.ordered = po[p].ordered
  BY OrderFacts DEF OrderRow
<1>4. /\ order.status \in {"ordered", "partially_received"}
      /\ items \in Lines(Minus(order.ordered, po[p].received))
      /\ Post([j \in {<<order.warehouse, v>> : v \in {x \in Variants : items[x] > 0}} |->
                  Delta(items[j[2]], 0)])
      /\ unit' = [u \in Units |-> IF u \in serials
                                  THEN [status |-> "available", warehouse |-> order.warehouse]
                                  ELSE unit[u]]
      /\ po' = [po EXCEPT ![p] = after] /\ payable' = [payable EXCEPT ![p] = @ + more]
      /\ claim' = claim /\ byHand' = byHand
  BY <1>2 DEF ReceivePurchase
<1>5. /\ items \in Counts /\ items # Empty /\ got \in Counts
      /\ \A v \in Variants : /\ got[v] = po[p].received[v] + items[v]
                              /\ got[v] <= po[p].ordered[v] /\ po[p].received[v] <= got[v]
  <2>1. items \in [Variants -> 0 .. MaxQty] /\ items # Empty
        /\ \A v \in Variants : items[v] <= po[p].ordered[v] - po[p].received[v]
    BY <1>3, <1>4 DEF Lines, Minus
  <2>2. \A v \in Variants : /\ po[p].ordered[v] \in 0 .. MaxQty
                            /\ po[p].received[v] \in 0 .. MaxQty /\ items[v] \in 0 .. MaxQty
    BY <2>1, OrderFacts DEF Counts
  <2>3. \A v \in Variants : got[v] = po[p].received[v] + items[v]
    BY DEF Plus
  <2>4. \A v \in Variants : got[v] \in 0 .. MaxQty /\ got[v] <= po[p].ordered[v] /\ po[p].received[v] <= got[v]
    BY <2>1, <2>2, <2>3, InventoryAssumption
  <2>5. got = [v \in Variants |-> got[v]]
    BY DEF Plus
  <2> HIDE DEF got
  <2>6. got \in Counts
    BY <2>4, <2>5 DEF Counts
  <2> QED
    BY <2>1, <2>3, <2>4, <2>6 DEF Counts
<1> HIDE DEF got
<1>6. /\ order \in OrderRow /\ order.received = got /\ order.returned = po[p].returned
      /\ order.charge = po[p].charge /\ order.paid = po[p].paid
  BY <1>5, OrderFacts DEF OrderRow
<1> HIDE DEF order
<1>7. /\ after \in OrderRow /\ after.status = StatusAfter(order)
      /\ after.warehouse = w /\ after.ordered = po[p].ordered /\ after.received = got
      /\ after.returned = po[p].returned /\ after.charge = po[p].charge /\ after.paid = po[p].paid
  BY <1>3, <1>6 DEF OrderRow, StatusAfter, PurchaseStatuses
<1> HIDE DEF after
<1>8. /\ after.status = IF got = po[p].ordered THEN "received" ELSE "partially_received"
      /\ StatusAfter(after) = after.status
  <2>1. (\A v \in Variants : got[v] >= po[p].ordered[v]) <=> got = po[p].ordered
    <3>1. \A v \in Variants : got[v] \in Int /\ po[p].ordered[v] \in Int /\ got[v] <= po[p].ordered[v]
      BY <1>5, OrderFacts DEF Counts
    <3>2. (\A v \in Variants : got[v] >= po[p].ordered[v]) => \A v \in Variants : got[v] = po[p].ordered[v]
      BY <3>1
    <3>3. (\A v \in Variants : got[v] = po[p].ordered[v]) <=> got = po[p].ordered
      BY <1>5, OrderFacts DEF Counts
    <3> QED
      BY <3>1, <3>2, <3>3
  <2> QED
    BY <1>3, <1>6, <1>7, <2>1 DEF StatusAfter
<1>9. got # Empty
  <2>1. PICK v \in Variants : items[v] # 0
    BY <1>5 DEF Counts, Empty
  <2>2. items[v] \in Nat /\ po[p].received[v] \in Nat /\ got[v] = po[p].received[v] + items[v]
    BY <1>5, OrderFacts, InventoryAssumption DEF Counts
  <2> QED
    BY <2>1, <2>2 DEF Empty
<1>10. owed = Owed(after) /\ owed \in Int /\ more \in Int
  <2>1. Posted[p] = Owed(po[p]) /\ Posted[p] \in Int /\ po[p].status # "received"
    BY <1>3, <1>4, OrderFacts DEF OrderInv
  <2>2. Value(got) = Value(po[p].received) + Value(items)
    BY <1>5, OrderFacts, ValueAdds
  <2>3. Value(items) \in Nat /\ Value(got) \in Nat
    BY <1>5, ValueColumn
  <2>4. Posted[p] = Value(po[p].received) - po[p].paid - Value(po[p].returned)
    BY <2>1, OrderFacts DEF Owed
  <2>5. Owed(after) = Value(got) + (IF after.status = "received" THEN po[p].charge ELSE 0)
                         - po[p].paid - Value(po[p].returned)
    BY <1>7 DEF Owed
  <2>6. more = Value(items) + (IF after.status = "received" THEN po[p].charge ELSE 0)
    BY <1>7, <1>8 DEF ReceiptValue
  <2>7. owed = Posted[p] + more
    OBVIOUS
  <2> HIDE DEF owed, more
  <2> QED
    BY <2>1, <2>2, <2>3, <2>4, <2>5, <2>6, <2>7, OrderFacts
<1>11. OrderInv(after, owed)
  <2>1. WithinOrder(po[p]) /\ Value(po[p].ordered) + po[p].charge >= 0 /\ StatusFits(po[p])
    BY OrderFacts DEF OrderInv
  <2>2. WithinOrder(after)
    <3>1. ASSUME NEW v \in Variants
          PROVE  po[p].returned[v] <= got[v] /\ got[v] <= po[p].ordered[v]
      <4>1. /\ po[p].returned[v] \in Int /\ po[p].received[v] \in Int /\ got[v] \in Int
            /\ po[p].returned[v] <= po[p].received[v]
        BY <1>5, <2>1, OrderFacts DEF Counts, WithinOrder
      <4> QED
        BY <1>5, <4>1
    <3> QED
      BY <1>7, <3>1 DEF WithinOrder
  <2>3. StatusFits(after)
    <3>1. po[p].ordered # Empty
      BY <1>3, <1>4, <2>1 DEF StatusFits
    <3> QED
      BY <1>7, <1>8, <1>9, <3>1 DEF StatusFits
  <2> QED
    BY <1>7, <1>10, <2>1, <2>2, <2>3 DEF OrderInv
<1> HIDE DEF owed
<1>12. /\ PurchaseInv' /\ po'[p] = after /\ \A q \in Purchases : q # p => po'[q] = po[q]
  <2>1. Adds(p, more) /\ OrderInv(after, Posted[p] + more)
    BY <1>4, <1>11 DEF Adds, owed
  <2>2. ~Untouched(after)
    BY <1>7, <1>9 DEF Untouched
  <2> HIDE DEF more
  <2>3. PurchaseInv'
    BY <1>4, <1>7, <1>10, <2>1, <2>2, OneOrder
  <2> QED
    BY <1>4, <2>3 DEF PurchaseInv
<1>13. GoodsOf(moves, w, items, 1)
  <2>1. DOMAIN moves = {<<w, v>> : v \in {x \in Variants : items[x] > 0}}
    OBVIOUS
  <2>2. ASSUME NEW v \in Variants, items[v] > 0 PROVE moves[<<w, v>>] = Delta(1 * items[v], 0)
    <3>1. items[v] \in Int /\ 1 * items[v] = items[v]
      BY <1>5 DEF Counts
    <3> QED
      BY <2>2, <3>1
  <2> QED
    BY <2>1, <2>2 DEF GoodsOf
<1>14. Post(moves)
  BY <1>3, <1>4
<1> HIDE DEF moves
<1>15. w \in Warehouses /\ 1 \in {-1, 1}
  BY OrderFacts
<1>16. /\ Movements(moves)
       /\ \A k \in Keys : MoveAt(moves, k).qty = IF k[1] = w THEN 1 * items[k[2]] ELSE 0
  BY <1>5, <1>13, <1>15, GoodsAreMovements
<1>17. IInv' /\ RowsMove(moves)
  BY <1>14, <1>16, PostKeeps
<1>18. \A k \in Keys : KeptBy(po'[p], k) = KeptBy(po[p], k) +
          IF k[1] = w THEN 1 * items[k[2]] ELSE 0
  <2>1. ASSUME NEW k \in Keys
        PROVE  KeptBy(after, k) = KeptBy(po[p], k) + IF k[1] = w THEN 1 * items[k[2]] ELSE 0
    <3>1. k[2] \in Variants
      BY DEF Keys
    <3>2. /\ got[k[2]] = po[p].received[k[2]] + items[k[2]] /\ items[k[2]] \in Int
          /\ po[p].received[k[2]] \in Int /\ po[p].returned[k[2]] \in Int
      BY <1>5, <3>1, OrderFacts DEF Counts
    <3> QED
      BY <1>7, <3>2 DEF KeptBy
  <2> QED
    BY <1>12, <2>1
<1>19. StockKept
  BY <1>5, <1>12, <1>15, <1>16, <1>17, <1>18, GoodsMove
<1>20. UnitInv'
  <2>1. unit \in [Units -> UnitRow] /\ [status |-> "available", warehouse |-> w] \in UnitRow
    BY <1>15 DEF UnitInv, UnitTypeOK, UnitRow, UnitStatuses, StockBearing
  <2>2. unit' \in [Units -> UnitRow] /\ RegisteredStay
    BY <1>3, <1>4, <2>1 DEF RegisteredStay
  <2> QED
    BY <1>4, <2>2, ClaimsStay
<1>21. po' # po
  <2>1. PICK v \in Variants : items[v] # 0
    BY <1>5 DEF Counts, Empty
  <2>2. items[v] \in Int /\ po[p].received[v] \in Int /\ got[v] = po[p].received[v] + items[v]
    BY <1>5, OrderFacts DEF Counts
  <2>3. po'[p].received[v] # po[p].received[v]
    BY <1>7, <1>12, <2>1, <2>2
  <2> QED
    BY <2>3
<1> QED
  BY <1>12, <1>17, <1>19, <1>20, <1>21

\* return_purchase
LEMMA ReturnKeeps ==
    ASSUME IInv, UnitInv, PurchaseInv, ReturnOrder
    PROVE  IInv' /\ UnitInv' /\ PurchaseInv' /\ StockKept /\ po' # po
<1>1. PICK p \in Purchases, chosen \in SUBSET Units :
         \E items \in Lines(po[p].received) : ReturnPurchase(p, items, chosen)
  BY DEF ReturnOrder
<1>2. PICK items \in Lines(po[p].received) : ReturnPurchase(p, items, chosen)
  BY <1>1
<1> DEFINE back == Plus(po[p].returned, items)
           after == [po[p] EXCEPT !.returned = back]
           w == po[p].warehouse
           bulk == [v \in Variants |-> items[v] - OfSku(chosen, v)]
           moves == [j \in {<<w, v>> : v \in {x \in Variants : items[x] > 0}} |->
                        Delta(-OfSku(chosen, j[2]) - bulk[j[2]], 0)]
           owed == Posted[p] + (-Value(items))
<1>3. /\ po[p].status \in {"partially_received", "received"}
      /\ items \in Lines(Minus(po[p].received, po[p].returned))
      /\ Post(moves)
      /\ unit' = [u \in Units |-> IF u \in chosen
                                  THEN [unit[u] EXCEPT !.status = "supplier_returned"]
                                  ELSE unit[u]]
      /\ po' = [po EXCEPT ![p] = after] /\ payable' = [payable EXCEPT ![p] = @ - Value(items)]
      /\ claim' = claim /\ byHand' = byHand
  BY <1>2 DEF ReturnPurchase
<1>4. /\ items \in Counts /\ items # Empty /\ back \in Counts
      /\ \A v \in Variants : /\ back[v] = po[p].returned[v] + items[v]
                              /\ back[v] <= po[p].received[v]
  <2>1. items \in [Variants -> 0 .. MaxQty] /\ items # Empty
        /\ \A v \in Variants : items[v] <= po[p].received[v] - po[p].returned[v]
    BY <1>3 DEF Lines, Minus
  <2>2. \A v \in Variants : /\ po[p].returned[v] \in 0 .. MaxQty
                            /\ po[p].received[v] \in 0 .. MaxQty /\ items[v] \in 0 .. MaxQty
    BY <2>1, OrderFacts DEF Counts
  <2>3. \A v \in Variants : back[v] = po[p].returned[v] + items[v]
    BY DEF Plus
  <2>4. \A v \in Variants : back[v] \in 0 .. MaxQty /\ back[v] <= po[p].received[v]
    BY <2>1, <2>2, <2>3, InventoryAssumption
  <2>5. back = [v \in Variants |-> back[v]]
    BY DEF Plus
  <2> HIDE DEF back
  <2>6. back \in Counts
    BY <2>4, <2>5 DEF Counts
  <2> QED
    BY <2>1, <2>3, <2>4, <2>6 DEF Counts
<1> HIDE DEF back
<1>5. /\ after \in OrderRow /\ after.status = po[p].status
      /\ after.warehouse = w /\ after.ordered = po[p].ordered /\ after.received = po[p].received
      /\ after.returned = back /\ after.charge = po[p].charge /\ after.paid = po[p].paid
  BY <1>4, OrderFacts DEF OrderRow
<1> HIDE DEF after
<1>6. owed = Owed(after) /\ owed \in Int
  <2>1. Posted[p] = Owed(po[p]) /\ Posted[p] \in Int
    BY OrderFacts DEF OrderInv
  <2>2. Value(back) = Value(po[p].returned) + Value(items)
    <3>1. po[p].returned \in Counts /\ \A v \in Variants : back[v] = po[p].returned[v] + items[v]
      BY <1>4, OrderFacts
    <3> QED
      BY <1>4, <3>1, ValueAdds
  <2>3. Value(items) \in Nat /\ Value(back) \in Nat
    BY <1>4, ValueColumn
  <2> QED
    BY <1>5, <2>1, <2>2, <2>3, OrderFacts DEF Owed
<1>7. OrderInv(after, owed)
  <2>1. WithinOrder(po[p]) /\ Value(po[p].ordered) + po[p].charge >= 0 /\ StatusFits(po[p])
    BY OrderFacts DEF OrderInv
  <2>2. WithinOrder(after)
    BY <1>4, <1>5, <2>1 DEF WithinOrder
  <2>3. StatusFits(after)
    BY <1>3, <1>5, <2>1 DEF StatusFits
  <2> QED
    BY <1>5, <1>6, <2>1, <2>2, <2>3 DEF OrderInv
<1> HIDE DEF owed
<1>8. /\ PurchaseInv' /\ po'[p] = after /\ \A q \in Purchases : q # p => po'[q] = po[q]
  <2>1. Value(items) \in Int /\ payable[p] - Value(items) = payable[p] + (-Value(items))
    BY <1>4, ValueColumn, OrderFacts
  <2>2. payable' = [payable EXCEPT ![p] = payable[p] - Value(items)]
    BY <1>3
  <2>3. payable' = [payable EXCEPT ![p] = payable[p] + (-Value(items))]
    BY <2>1, <2>2
  <2>4. Adds(p, -Value(items)) /\ OrderInv(after, Posted[p] + (-Value(items)))
    BY <1>3, <1>7, <2>3 DEF Adds, owed
  <2>5. ~Untouched(po[p]) => ~Untouched(after)
    BY <1>5 DEF Untouched
  <2>6. -Value(items) \in Int
    BY <2>1
  <2>7. PurchaseInv'
    BY <1>3, <1>5, <2>4, <2>5, <2>6, OneOrder
  <2> QED
    BY <1>3, <2>7 DEF PurchaseInv
<1>9. GoodsOf(moves, w, items, -1)
  <2>1. DOMAIN moves = {<<w, v>> : v \in {x \in Variants : items[x] > 0}}
    OBVIOUS
  <2>2. ASSUME NEW v \in Variants, items[v] > 0 PROVE moves[<<w, v>>] = Delta((-1) * items[v], 0)
    <3>1. items[v] \in Int
      BY <1>4, InventoryAssumption DEF Counts
    <3>2. OfSku(chosen, v) \in Nat
      <4>1. IsFiniteSet({u \in chosen : Sku[u] = v})
        BY SerialAssumption, FS_Subset
      <4> QED
        BY <4>1, FS_CardinalityType DEF OfSku
    <3>3. bulk[v] = items[v] - OfSku(chosen, v)
      OBVIOUS
    <3>4. -OfSku(chosen, v) - bulk[v] = (-1) * items[v]
      BY <3>1, <3>2, <3>3
    <3>5. moves[<<w, v>>] = Delta(-OfSku(chosen, v) - bulk[v], 0)
      BY <2>2
    <3> QED
      BY <3>4, <3>5
  <2> QED
    BY <2>1, <2>2 DEF GoodsOf
<1> HIDE DEF moves
<1>10. w \in Warehouses /\ -1 \in {-1, 1}
  BY OrderFacts
<1>11. /\ Movements(moves)
       /\ \A k \in Keys : MoveAt(moves, k).qty = IF k[1] = w THEN (-1) * items[k[2]] ELSE 0
  BY <1>4, <1>9, <1>10, GoodsAreMovements
<1>12. IInv' /\ RowsMove(moves)
  BY <1>3, <1>11, PostKeeps
<1>13. \A k \in Keys : KeptBy(po'[p], k) = KeptBy(po[p], k) +
          IF k[1] = w THEN (-1) * items[k[2]] ELSE 0
  <2>1. ASSUME NEW k \in Keys
        PROVE  KeptBy(after, k) = KeptBy(po[p], k) + IF k[1] = w THEN (-1) * items[k[2]] ELSE 0
    <3>1. k[2] \in Variants
      BY DEF Keys
    <3>2. /\ back[k[2]] = po[p].returned[k[2]] + items[k[2]] /\ items[k[2]] \in Int
          /\ po[p].received[k[2]] \in Int /\ po[p].returned[k[2]] \in Int
      BY <1>4, <3>1, OrderFacts DEF Counts
    <3> QED
      BY <1>5, <3>2 DEF KeptBy
  <2> QED
    BY <1>8, <2>1
<1>14. StockKept
  BY <1>4, <1>8, <1>10, <1>11, <1>12, <1>13, GoodsMove
<1>15. UnitInv'
  <2>1. unit \in [Units -> UnitRow]
    BY DEF UnitInv, UnitTypeOK, UnitRow
  <2>2. ASSUME NEW u \in Units
        PROVE  /\ [unit[u] EXCEPT !.status = "supplier_returned"] \in UnitRow
               /\ [unit[u] EXCEPT !.status = "supplier_returned"].status = "supplier_returned"
    BY <2>1 DEF UnitRow, UnitStatuses, OffShelf
  <2>3. unit' \in [Units -> UnitRow]
    BY <1>3, <2>1, <2>2
  <2>4. RegisteredStay
    BY <1>3, <2>1, <2>2 DEF RegisteredStay
  <2> QED
    BY <1>3, <2>3, <2>4, ClaimsStay
<1>16. po' # po
  <2>1. PICK v \in Variants : items[v] # 0
    BY <1>4 DEF Counts, Empty
  <2>2. items[v] \in Int /\ po[p].returned[v] \in Int /\ back[v] = po[p].returned[v] + items[v]
    BY <1>4, OrderFacts DEF Counts
  <2>3. po'[p].returned[v] # po[p].returned[v]
    BY <1>5, <1>8, <2>1, <2>2
  <2> QED
    BY <2>3
<1> QED
  BY <1>8, <1>12, <1>14, <1>15, <1>16

\* An order with a journal has received or been paid something.
LEMMA JournalsTouch ==
    ASSUME PurchaseInv, NEW p \in Purchases, NEW amount \in JournalsOf(p), amount # 0
    PROVE  amount \in Int /\ ~Untouched(po[p])
<1>1. WithinOrder(po[p]) /\ StatusFits(po[p])
  BY OrderFacts DEF OrderInv
<1>2. ASSUME NEW v \in Variants
      PROVE  /\ po[p].received[v] \in Nat /\ po[p].returned[v] \in Nat /\ Cost[v] \in Nat
             /\ po[p].returned[v] <= po[p].received[v]
             /\ po[p].received[v] > 0 => po[p].received # Empty
  BY <1>1, OrderFacts, InventoryAssumption, PurchasingAssumption DEF Counts, WithinOrder, Empty
<1>3. CASE \E v \in Variants : \E n \in 1 .. po[p].received[v] : amount = n * Cost[v]
  <2>1. PICK v \in Variants : \E n \in 1 .. po[p].received[v] : amount = n * Cost[v]
    BY <1>3
  <2>2. PICK n \in 1 .. po[p].received[v] : amount = n * Cost[v]
    BY <2>1
  <2>3. n \in Int /\ po[p].received[v] > 0
    BY <1>2
  <2>4. n * Cost[v] \in Int
    BY <1>2, <2>3
  <2> QED
    BY <1>2, <2>2, <2>3, <2>4 DEF Untouched
<1>4. CASE \E v \in Variants : \E n \in 1 .. po[p].returned[v] : amount = -n * Cost[v]
  <2>1. PICK v \in Variants : \E n \in 1 .. po[p].returned[v] : amount = -n * Cost[v]
    BY <1>4
  <2>2. PICK n \in 1 .. po[p].returned[v] : amount = -n * Cost[v]
    BY <2>1
  <2>3. n \in Int /\ po[p].received[v] > 0
    BY <1>2
  <2>4. -n * Cost[v] \in Int
    BY <1>2, <2>3
  <2> QED
    BY <1>2, <2>2, <2>3, <2>4 DEF Untouched
<1>5. CASE \E n \in 1 .. po[p].paid : amount = -n
  <2>1. PICK n \in 1 .. po[p].paid : amount = -n
    BY <1>5
  <2> QED
    BY <2>1, OrderFacts DEF Untouched
<1>6. CASE po[p].status = "received" /\ amount = po[p].charge
  <2>1. po[p].received # Empty
    BY <1>1, <1>6 DEF StatusFits
  <2> QED
    BY <1>6, <2>1, OrderFacts DEF Untouched
<1> DEFINE receipts == UNION {{n * Cost[v] : n \in 1 .. po[p].received[v]} : v \in Variants}
           returns == UNION {{-n * Cost[v] : n \in 1 .. po[p].returned[v]} : v \in Variants}
           payments == {-n : n \in 1 .. po[p].paid}
           charges == {charge \in {po[p].charge} : po[p].status = "received"}
<1>7. JournalsOf(p) = receipts \cup returns \cup payments \cup charges
  BY DEF JournalsOf
<1>8. /\ amount \in receipts => \E v \in Variants : \E n \in 1 .. po[p].received[v] : amount = n * Cost[v]
      /\ amount \in returns => \E v \in Variants : \E n \in 1 .. po[p].returned[v] : amount = -n * Cost[v]
  OBVIOUS
<1>9. /\ amount \in payments => \E n \in 1 .. po[p].paid : amount = -n
      /\ amount \in charges => po[p].status = "received" /\ amount = po[p].charge
  OBVIOUS
<1> HIDE DEF receipts, returns, payments, charges
<1> QED
  BY <1>3, <1>4, <1>5, <1>6, <1>7, <1>8, <1>9

\* journal_reverse, on a journal of an order
LEMMA ReverseKeeps ==
    ASSUME PurchaseInv, ReverseOne
    PROVE  PurchaseInv'
<1>1. PICK p \in Purchases : \E amount \in JournalsOf(p) \cup {-byHand[p]} : ReverseJournal(p, amount)
  BY DEF ReverseOne
<1>2. PICK amount \in JournalsOf(p) \cup {-byHand[p]} : ReverseJournal(p, amount)
  BY <1>1
<1>3. /\ amount # 0
      /\ IF byHand[p] = 0 THEN amount \in JournalsOf(p) ELSE amount = -byHand[p]
      /\ payable' = [payable EXCEPT ![p] = @ - amount]
      /\ byHand' = [byHand EXCEPT ![p] = @ + amount] /\ po' = po
  BY <1>2 DEF ReverseJournal
<1>4. /\ amount \in Int /\ ~Untouched(po[p]) /\ payable[p] \in Int /\ byHand[p] \in Int
  BY <1>3, JournalsTouch, OrderFacts
<1>5. payable' \in [Purchases -> Int] /\ byHand' \in [Purchases -> Int]
  BY <1>3, <1>4 DEF PurchaseInv
<1>6. ASSUME NEW q \in Purchases
      PROVE  Posted'[q] = Posted[q] /\ (byHand'[q] # 0 => ~Untouched(po'[q]))
  <2>1. Posted[q] = payable[q] + byHand[q] /\ Posted'[q] = payable'[q] + byHand'[q]
    BY DEF Posted
  <2>2. CASE q = p
    <3>1. payable'[q] = payable[q] - amount /\ byHand'[q] = byHand[q] + amount
      BY <1>3, <2>2 DEF PurchaseInv
    <3> QED
      BY <1>3, <1>4, <2>1, <2>2, <3>1
  <2>3. CASE q # p
    BY <1>3, <2>1, <2>3 DEF PurchaseInv
  <2> QED
    BY <2>2, <2>3
<1> QED
  BY <1>3, <1>5, <1>6 DEF PurchaseInv

-----------------------------------------------------------------------------
(* The theorems *)

AllInv == IInv /\ UnitInv /\ PurchaseInv

LEMMA PurchaseStart == PurchaseInit => AllInv
<1> SUFFICES ASSUME PurchaseInit PROVE AllInv
  OBVIOUS
<1>1. IInv
  BY InvInitIInv DEF PurchaseInit, UnitInit
<1>2. UnitInv
  <2>1. \A u \in Units : unit[u] = Unregistered
    BY DEF PurchaseInit, UnitInit
  <2>2. unit \in [Units -> [status : UnitStatuses \cup {"absent"}, warehouse : Warehouses]]
    BY InventoryAssumption DEF PurchaseInit, UnitInit, Unregistered
  <2>3. claim \in [Claims -> ClaimRow] /\ \A c \in Claims : claim[c] = NoClaim
    BY DEF PurchaseInit, UnitInit, NoClaim, ClaimRow
  <2> QED
    BY <2>2, <2>3 DEF UnitInv, UnitTypeOK
<1>3. PurchaseInv
  <2>1. \A p \in Purchases : Posted[p] = 0
    BY DEF PurchaseInit, Posted
  <2> QED
    BY <2>1, NoPurchaseFits DEF PurchaseInit, PurchaseInv
<1> QED
  BY <1>1, <1>2, <1>3 DEF AllInv

\* What every step keeps and does.
LEMMA PurchaseStepKeeps ==
    ASSUME AllInv, [PurchaseNext]_purchaseVars
    PROVE  /\ AllInv'
           /\ po' # po => StockKept
           /\ po' = po => UnitsTakeTheirStock
<1> USE DEF AllInv
<1>1. ASSUME UNCHANGED <<bal, ledger, cache, unit, claim>> PROVE IInv' /\ UnitInv' /\ UnitsTakeTheirStock
  <2>1. IInv'
    BY <1>1, InvNextIInv DEF invVars
  <2>2. unit' \in [Units -> UnitRow] /\ RegisteredStay
    BY <1>1 DEF UnitInv, UnitTypeOK, UnitRow, RegisteredStay
  <2> QED
    BY <1>1, <2>1, <2>2, ClaimsStay DEF UnitsTakeTheirStock
<1>2. ASSUME UNCHANGED <<po, payable, byHand>> PROVE PurchaseInv'
  BY <1>2 DEF PurchaseInv, Posted
<1>3. CASE SaveOrder
  <2>1. UNCHANGED <<bal, ledger, cache, unit, claim>>
    BY <1>3 DEF SaveOrder, SavePurchaseOrder
  <2> QED
    BY <1>1, <1>3, <2>1, SaveKeeps
<1>4. CASE PayOrder
  <2>1. UNCHANGED <<bal, ledger, cache, unit, claim>>
    BY <1>4 DEF PayOrder, PayPurchase
  <2> QED
    BY <1>1, <1>4, <2>1, PayKeeps
<1>5. CASE CancelOrder
  <2>1. UNCHANGED <<bal, ledger, cache, unit, claim>>
    BY <1>5 DEF CancelOrder, CancelPurchase
  <2> QED
    BY <1>1, <1>5, <2>1, CancelKeeps
<1>6. CASE DeleteOrder
  <2>1. UNCHANGED <<bal, ledger, cache, unit, claim>>
    BY <1>6 DEF DeleteOrder, DeleteDraftPurchase
  <2> QED
    BY <1>1, <1>6, <2>1, DeleteKeeps
<1>7. CASE ReceiveOrder
  BY <1>7, ReceiveKeeps
<1>8. CASE ReturnOrder
  BY <1>8, ReturnKeeps
<1>9. CASE EditUnit
  <2>1. UNCHANGED <<po, payable, byHand>>
    BY <1>9 DEF EditUnit, RegisterByHand, UpdateByHand
  <2> QED
    BY <1>2, <1>9, <2>1, UnitServices DEF UnitKept
<1>10. CASE (Return \/ ClaimNext) /\ UNCHANGED <<po, payable, byHand, origin>>
  BY <1>2, <1>10, UnitServices DEF UnitKept
<1>11. CASE OtherStock /\ UNCHANGED <<unit, claim, po, payable, byHand, origin>>
  <2>1. IInv'
    BY <1>11, InvNextIInv DEF OtherStock, InvNext
  <2>2. unit' \in [Units -> UnitRow] /\ RegisteredStay
    BY <1>11 DEF UnitInv, UnitTypeOK, UnitRow, RegisteredStay
  <2> QED
    BY <1>2, <1>11, <2>1, <2>2, ClaimsStay DEF UnitsTakeTheirStock
<1>12. CASE ReverseOne
  <2>1. UNCHANGED <<bal, ledger, cache, unit, claim, po>>
    BY <1>12 DEF ReverseOne, ReverseJournal
  <2> QED
    BY <1>1, <1>12, <2>1, ReverseKeeps
<1>13. CASE UNCHANGED purchaseVars
  BY <1>1, <1>2, <1>13 DEF purchaseVars
<1> QED
  BY <1>3, <1>4, <1>5, <1>6, <1>7, <1>8, <1>9, <1>10, <1>11, <1>12, <1>13
     DEF PurchaseNext, PurchaseStep

\* Units, their claims, purchases and the stock engine below them keep their
\* invariants together, whatever the services of each do in whatever order.
THEOREM PurchasingInvariant == PurchaseSpec => []AllInv
<1> QED
  BY PurchaseStart, PurchaseStepKeeps, PTL DEF PurchaseSpec

\* The stock a purchase moves is what its items say: a receipt and a supplier return
\* post as much as the order then keeps, its serialized units and the rest together.
THEOREM PurchasesMoveTheirStock == PurchaseSpec => StockFollowsPurchase
<1>1. AllInv /\ [PurchaseNext]_purchaseVars =>
        [po' # po => \A k \in Keys : bal'[k].onHand - bal[k].onHand = Kept(k)' - Kept(k)]_purchaseVars
  BY PurchaseStepKeeps DEF StockKept
<1> QED
  BY <1>1, PurchasingInvariant, PTL DEF PurchaseSpec, StockFollowsPurchase

\* A unit and its stock move together, whichever page, claim, replacement or customer
\* return moves the unit, and a registration takes one of the untracked units.
THEOREM UnitsMoveTheirStock == PurchaseSpec => UnitsMoveWithStock
<1>1. AllInv /\ [PurchaseNext]_purchaseVars => [po' = po => UnitsTakeTheirStock]_purchaseVars
  BY PurchaseStepKeeps
<1> QED
  BY <1>1, PurchasingInvariant, PTL DEF PurchaseSpec, UnitsMoveWithStock

\* What a purchase page says is outstanding is what accounts payable holds for the
\* order, dropped orders owe nothing, and the supplier due report is the sum of it; a
\* journal reversed at the journal page puts them apart by itself and by no more.
THEOREM PurchasePagesAgree == PurchaseSpec => []OutstandingIsPayable
<1>1. ASSUME PurchaseInv PROVE OutstandingIsPayable
  <2> USE <1>1
  <2>1. ASSUME NEW p \in Purchases, Dropped(p) PROVE Untouched(po[p]) /\ payable[p] = 0
    <3>1. po[p].status \in {"absent", "draft", "cancelled"}
      BY <2>1 DEF Dropped
    <3>2. Untouched(po[p])
      BY <3>1, OrderFacts DEF OrderInv, StatusFits
    <3> QED
      BY <3>1, <3>2, UntouchedOwesNothing
  <2>2. ASSUME NEW p \in Purchases, po[p].status = "received"
        PROVE  GrandTotal(po[p]) - Value(po[p].returned) - po[p].paid = Posted[p]
    <3>1. po[p].received = po[p].ordered /\ Posted[p] = Owed(po[p])
          /\ Value(po[p].ordered) + po[p].charge >= 0
      BY <2>2, OrderFacts DEF OrderInv, StatusFits
    <3>2. GrandTotal(po[p]) = Value(po[p].ordered) + po[p].charge
      BY <3>1, OrderFacts DEF GrandTotal, Larger
    <3> QED
      BY <2>2, <3>1, <3>2, OrderFacts DEF Owed
  <2>3. ASSUME NEW p \in Purchases, po[p].status = "received"
        PROVE  Outstanding(po[p]) = Larger(0, Posted[p])
    <3>1. GrandTotal(po[p]) \in Int
      BY OrderFacts DEF GrandTotal, Larger
    <3>2. GrandTotal(po[p]) - po[p].paid - Value(po[p].returned) = Posted[p]
      BY <2>2, <2>3, <3>1, OrderFacts
    <3> QED
      BY <3>2 DEF Outstanding
  <2>4. ASSUME \A p \in Purchases : Dropped(p) \/ po[p].status = "received"
        PROVE  SupplierDue = Larger(0, SumFunction(Posted))
    <3> DEFINE due == [p \in Purchases |->
                          IF Dropped(p) THEN 0
                          ELSE GrandTotal(po[p]) - Value(po[p].returned) - po[p].paid]
    <3>1. ASSUME NEW p \in Purchases PROVE due[p] = Posted[p]
      <4>1. CASE Dropped(p)
        <5>1. po[p].status \in {"absent", "draft", "cancelled"}
          BY <4>1 DEF Dropped
        <5>2. Posted[p] = 0
          BY <2>1, <4>1, <5>1, UntouchedOwesNothing
        <5> QED
          BY <4>1, <5>2
      <4>2. CASE ~Dropped(p)
        BY <2>2, <2>4, <4>2
      <4> QED
        BY <4>1, <4>2
    <3>2. due = Posted
      BY <3>1 DEF Posted
    <3> QED
      BY <3>2 DEF SupplierDue
  <2> QED
    BY <2>1, <2>3, <2>4 DEF OutstandingIsPayable
<1>2. AllInv => OutstandingIsPayable
  BY <1>1 DEF AllInv
<1> QED
  BY <1>2, PurchasingInvariant, PTL

\* The status of an order says what has come of it.
THEOREM PurchaseStatusIsTrue == PurchaseSpec => []StatusTellsReceipts
<1>1. ASSUME PurchaseInv PROVE StatusTellsReceipts
  <2> SUFFICES ASSUME NEW p \in Purchases
               PROVE  /\ po[p].status = "received" <=> po[p].received = po[p].ordered /\ po[p] # NoPurchase
                      /\ po[p].status = "partially_received" <=>
                            po[p].received # Empty /\ po[p].received # po[p].ordered
    BY DEF StatusTellsReceipts
  <2>1. StatusFits(po[p]) /\ po[p].status \in PurchaseStatuses
    BY <1>1, OrderFacts DEF OrderInv
  <2>2. NoPurchase.status = "absent" /\ NoPurchase.ordered = Empty
    BY DEF NoPurchase
  <2> QED
    BY <2>1, <2>2 DEF StatusFits, PurchaseStatuses
<1>2. AllInv => StatusTellsReceipts
  BY <1>1 DEF AllInv
<1> QED
  BY <1>2, PurchasingInvariant, PTL
=============================================================================
