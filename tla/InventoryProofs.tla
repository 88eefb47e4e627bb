--------------------------- MODULE InventoryProofs ---------------------------
(***************************************************************************)
(* Proofs about the stock engine, for any set of warehouses and variants.  *)
(* All five code paths that write rows end in Commit, so the work is in    *)
(* one lemma, CommitPreserves: rows that stay allowed, and movements that  *)
(* state the difference they record, keep the whole invariant.  Each       *)
(* operation then shows that what it hands to Commit meets the lemma.      *)
(***************************************************************************)
EXTENDS StockReports, CatalogEdits, TotalsProofs

\* The inductive invariant is the conjunction of the checked invariants: the
\* row guards need the types, the ledger needs the row before the write.
IInv ==
    /\ TypeOK
    /\ ReservedWithinOnHand
    /\ LedgerExplainsBalance
    /\ SnapshotCurrent
    /\ CacheFresh

Rows == [onHand : Nat, reserved : Nat]

\* What an operation must establish before it commits the rows b together with
\* the movements moves.
Justified(b, moves) ==
    /\ b \in [Keys -> Rows]
    /\ \A k \in Keys : b[k].reserved <= b[k].onHand
    /\ DOMAIN moves \subseteq Keys
    /\ \A k \in Keys :
          IF k \in DOMAIN moves
          THEN /\ moves[k] \in [qty : Int, res : Int]
               /\ b[k].onHand = bal[k].onHand + moves[k].qty
               /\ b[k].reserved = bal[k].reserved + moves[k].res
          ELSE b[k] = bal[k]

\* Committing justified rows and movements (the tail of every service: row
\* saves, _create_movement, _sync_variant_cache) preserves the invariant.
LEMMA CommitPreserves ==
    ASSUME IInv, NEW b, NEW moves, Justified(b, moves), Commit(b, moves)
    PROVE  IInv'
<1> USE DEF Justified, Rows
<1>1. bal' = b
  BY DEF Commit
<1>2. \A k \in Keys : ledger'[k] = IF k \in DOMAIN moves
                                   THEN Recorded(ledger[k], moves[k], b[k])
                                   ELSE ledger[k]
  BY DEF Commit
<1>3. TypeOK'
  <2>1. bal' \in [Keys -> [onHand : Nat, reserved : Nat]]
    BY <1>1
  <2>2. ledger' \in [Keys -> [qty : Int, res : Int, qtyAfter : Nat, resAfter : Nat]]
    BY DEF Commit, IInv, TypeOK, Recorded
  <2>3. DOMAIN cache' = Variants
    BY DEF Commit
  <2> QED
    BY <2>1, <2>2, <2>3 DEF TypeOK
<1>4. ReservedWithinOnHand'
  BY <1>1 DEF ReservedWithinOnHand
<1>5. ASSUME NEW k \in Keys
      PROVE  /\ ledger'[k].qty = b[k].onHand
             /\ ledger'[k].res = b[k].reserved
             /\ ledger'[k].qtyAfter = b[k].onHand
             /\ ledger'[k].resAfter = b[k].reserved
  <2>1. CASE k \in DOMAIN moves
    <3>1. ledger'[k] = Recorded(ledger[k], moves[k], b[k])
      BY <1>2, <2>1
    <3>2. /\ b[k].onHand = bal[k].onHand + moves[k].qty
          /\ b[k].reserved = bal[k].reserved + moves[k].res
      BY <2>1
    <3> QED
      BY <3>1, <3>2 DEF Recorded, IInv, LedgerExplainsBalance
  <2>2. CASE k \notin DOMAIN moves
    <3>1. ledger'[k] = ledger[k] /\ b[k] = bal[k]
      BY <1>2, <2>2
    <3> QED
      BY <3>1 DEF IInv, LedgerExplainsBalance, SnapshotCurrent
  <2> QED
    BY <2>1, <2>2
<1>6. LedgerExplainsBalance' /\ SnapshotCurrent'
  BY <1>1, <1>5 DEF LedgerExplainsBalance, SnapshotCurrent
<1>7. CacheFresh'
  <2> SUFFICES ASSUME NEW v \in Variants
               PROVE  cache'[v] = VariantAvailable(b, v)
    BY <1>1 DEF CacheFresh, VariantAvailable, Available
  <2>1. CASE \E w \in Warehouses : <<w, v>> \in DOMAIN moves
    BY <2>1 DEF Commit
  <2>2. CASE ~ \E w \in Warehouses : <<w, v>> \in DOMAIN moves
    <3>1. \A w \in Warehouses : b[<<w, v>>] = bal[<<w, v>>]
      BY <2>2 DEF Keys
    <3>2. [w \in Warehouses |-> Available(b, <<w, v>>)]
            = [w \in Warehouses |-> Available(bal, <<w, v>>)]
      BY <3>1 DEF Available
    <3>3. VariantAvailable(b, v) = VariantAvailable(bal, v)
      BY <3>2 DEF VariantAvailable
    <3>4. cache'[v] = cache[v]
      BY <2>2 DEF Commit
    <3> QED
      BY <3>3, <3>4 DEF IInv, CacheFresh
  <2> QED
    BY <2>1, <2>2
<1> QED
  BY <1>3, <1>4, <1>6, <1>7 DEF IInv

\* post_movement, with whatever deltas, preserves the invariant.
LEMMA PostMovementPreserves ==
    ASSUME IInv, NEW k \in Keys, NEW dq \in Int, NEW dr \in Int,
           PostMovement(k, dq, dr)
    PROVE  IInv'
<1> DEFINE after == Moved(bal, k, dq, dr)
           moves == [j \in {k} |-> Delta(dq, dr)]
<1>1. Commit(after, moves)
  BY DEF PostMovement
<1>2. after[k] = [onHand |-> bal[k].onHand + dq, reserved |-> bal[k].reserved + dr]
  BY DEF IInv, TypeOK, Moved
<1>3. Justified(after, moves)
  <2>1. RowAllowed(after[k])
    BY DEF PostMovement
  <2>2. after \in [Keys -> Rows]
    BY <2>1, <1>2 DEF IInv, TypeOK, RowAllowed, Moved, Rows
  <2>3. \A j \in Keys : after[j].reserved <= after[j].onHand
    BY <2>1 DEF IInv, TypeOK, ReservedWithinOnHand, RowAllowed, Moved
  <2>4. \A j \in Keys : j # k => after[j] = bal[j]
    BY DEF IInv, TypeOK, Moved
  <2> QED
    BY <1>2, <2>2, <2>3, <2>4 DEF Justified, Delta
<1> QED
  BY <1>1, <1>3, CommitPreserves

\* adjust_stock: the recorded difference is the one it writes.
LEMMA AdjustPreserves ==
    ASSUME IInv, NEW k \in Keys, NEW actual \in Nat, AdjustStock(k, actual)
    PROVE  IInv'
<1> DEFINE after == [bal EXCEPT ![k].onHand = actual]
           moves == [j \in {k} |-> Delta(actual - bal[k].onHand, 0)]
<1>1. Commit(after, moves) /\ actual >= bal[k].reserved
  BY DEF AdjustStock
<1>2. after[k] = [onHand |-> actual, reserved |-> bal[k].reserved]
  BY DEF IInv, TypeOK
<1>3. \A j \in Keys : j # k => after[j] = bal[j]
  BY DEF IInv, TypeOK
<1>4. Justified(after, moves)
  <2>1. after \in [Keys -> Rows]
    BY DEF IInv, TypeOK, Rows
  <2>2. \A j \in Keys : after[j].reserved <= after[j].onHand
    BY <1>1, <1>2, <1>3 DEF IInv, TypeOK, ReservedWithinOnHand
  <2>3. moves[k] = [qty |-> actual - bal[k].onHand, res |-> 0]
    BY DEF Delta
  <2>4. /\ moves[k] \in [qty : Int, res : Int]
        /\ after[k].onHand = bal[k].onHand + moves[k].qty
        /\ after[k].reserved = bal[k].reserved + moves[k].res
    BY <1>2, <2>3 DEF IInv, TypeOK
  <2> QED
    BY <1>3, <2>1, <2>2, <2>4 DEF Justified
<1> QED
  BY <1>1, <1>4, CommitPreserves

\* transfer_stock: the source gives only available units of each variant, so
\* its reservations stay covered, and both sides are recorded.
LEMMA TransferPreserves ==
    ASSUME IInv, NEW from \in Warehouses, NEW to \in Warehouses,
           NEW items \in [Variants -> Nat], TransferStock(from, to, items)
    PROVE  IInv'
<1> DEFINE sent  == {v \in Variants : items[v] > 0}
           after == Transferred(from, to, items)
           moves == [k \in {from, to} \X sent |->
                        Delta(IF k[1] = from THEN -items[k[2]] ELSE items[k[2]], 0)]
<1>1. /\ from # to
      /\ \A v \in sent : Available(bal, <<from, v>>) >= items[v]
      /\ Commit(after, moves)
  BY DEF TransferStock
<1>2. ASSUME NEW w \in Warehouses, NEW v \in Variants
      PROVE  LET k == <<w, v>> IN
             /\ after[k] \in Rows
             /\ after[k].reserved <= after[k].onHand
             /\ IF k \in DOMAIN moves
                THEN /\ moves[k] \in [qty : Int, res : Int]
                     /\ after[k].onHand = bal[k].onHand + moves[k].qty
                     /\ after[k].reserved = bal[k].reserved + moves[k].res
                ELSE after[k] = bal[k]
  <2> DEFINE k == <<w, v>>
  <2>1. /\ k \in Keys /\ k[1] = w /\ k[2] = v
        /\ bal[k] \in Rows /\ bal[k].reserved <= bal[k].onHand
        /\ items[v] \in Nat
    BY DEF IInv, TypeOK, ReservedWithinOnHand, Keys, Rows
  <2>2. k \in DOMAIN moves <=> w \in {from, to} /\ items[v] > 0
    OBVIOUS
  <2>3. CASE w = from
    <3>1. after[k] = [onHand |-> bal[k].onHand - items[v], reserved |-> bal[k].reserved]
      BY <2>1, <2>3 DEF Transferred, Rows
    <3>2. CASE items[v] > 0
      <4>1. Larger(0, bal[k].onHand - bal[k].reserved) >= items[v]
        BY <1>1, <2>3, <3>2 DEF Available
      <4>2. bal[k].onHand - bal[k].reserved >= items[v]
        BY <2>1, <3>2, <4>1 DEF Larger, Rows
      <4>3. moves[k] = [qty |-> -items[v], res |-> 0]
        BY <2>1, <2>2, <2>3, <3>2 DEF Delta
      <4> QED
        BY <2>1, <2>2, <2>3, <3>1, <3>2, <4>2, <4>3 DEF Rows
    <3>3. CASE ~(items[v] > 0)
      BY <2>1, <2>2, <3>1, <3>3 DEF Rows
    <3> QED
      BY <3>2, <3>3
  <2>4. CASE w = to
    <3>1. after[k] = [onHand |-> bal[k].onHand + items[v], reserved |-> bal[k].reserved]
      BY <1>1, <2>1, <2>4 DEF Transferred, Rows
    <3>2. CASE items[v] > 0
      <4>1. moves[k] = [qty |-> items[v], res |-> 0]
        BY <1>1, <2>1, <2>2, <2>4, <3>2 DEF Delta
      <4> QED
        BY <2>1, <2>2, <2>4, <3>1, <3>2, <4>1 DEF Rows
    <3>3. CASE ~(items[v] > 0)
      BY <2>1, <2>2, <3>1, <3>3 DEF Rows
    <3> QED
      BY <3>2, <3>3
  <2>5. CASE w # from /\ w # to
    <3>1. after[k] = bal[k]
      BY <2>1, <2>5 DEF Transferred
    <3> QED
      BY <2>1, <2>2, <2>5, <3>1
  <2> QED
    BY <2>3, <2>4, <2>5
<1>3. \A k \in Keys : \E w \in Warehouses, v \in Variants : k = <<w, v>>
  BY DEF Keys
<1>4. Justified(after, moves)
  <2>1. after = [k \in Keys |-> after[k]]
    BY DEF Transferred
  <2>2. DOMAIN moves \subseteq Keys
    BY DEF Keys
  <2> HIDE DEF after, moves
  <2>3. after \in [Keys -> Rows]
    BY <1>2, <1>3, <2>1
  <2> QED
    BY <1>2, <1>3, <2>2, <2>3 DEF Justified
<1> QED
  BY <1>1, <1>4, CommitPreserves

\* A catalog write of ProductVariant.stock_quantity: units missing from the
\* figure are taken from what each warehouse has available, never from what it
\* has reserved; surplus goes to the default warehouse.
LEMMA ReconcilePreserves ==
    ASSUME IInv, NEW v \in Variants, NEW desired \in Nat,
           ReconcileCatalogStock(v, desired)
    PROVE  IInv'
<1> DEFINE available == VariantAvailable(bal, v)
           home == <<Default, v>>
<1>1. CASE /\ desired = available
           /\ cache' = [cache EXCEPT ![v] = desired]
           /\ UNCHANGED <<bal, ledger>>
  <2>1. TypeOK' /\ ReservedWithinOnHand' /\ LedgerExplainsBalance' /\ SnapshotCurrent'
    BY <1>1 DEF IInv, TypeOK, ReservedWithinOnHand, LedgerExplainsBalance, SnapshotCurrent
  <2>2. \A u \in Variants : cache'[u] = VariantAvailable(bal, u)
    BY <1>1 DEF IInv, TypeOK, CacheFresh
  <2>3. CacheFresh'
    BY <1>1, <2>2 DEF CacheFresh, VariantAvailable, Available
  <2> QED
    BY <2>1, <2>3 DEF IInv
<1>2. ASSUME NEW extra \in Quantities,
             bal[home].onHand + extra <= MaxQty,
             Commit(Moved(bal, home, extra, 0), [k \in {home} |-> Delta(extra, 0)])
      PROVE  IInv'
  <2>1. extra \in Nat /\ home \in Keys
    BY InventoryAssumption DEF Quantities, Keys
  <2>2. Moved(bal, home, extra, 0)[home]
          = [onHand |-> bal[home].onHand + extra, reserved |-> bal[home].reserved + 0]
    BY <2>1 DEF IInv, TypeOK, Moved
  <2>3. /\ bal[home].onHand \in Nat /\ bal[home].reserved \in Nat
        /\ bal[home].reserved <= bal[home].onHand
    BY <2>1 DEF IInv, TypeOK, ReservedWithinOnHand
  <2>4. PostMovement(home, extra, 0)
    BY <1>2, <2>1, <2>2, <2>3 DEF PostMovement, RowAllowed
  <2> QED
    BY <2>1, <2>4, PostMovementPreserves
<1>3. ASSUME NEW take \in Takes(v, available - desired),
             Commit([k \in Keys |->
                        IF k[2] = v THEN [bal[k] EXCEPT !.onHand = @ - take[k[1]]]
                        ELSE bal[k]],
                    [k \in {w \in Warehouses : take[w] > 0} \X {v} |->
                        Delta(-take[k[1]], 0)])
      PROVE  IInv'
  <2> DEFINE giving == {w \in Warehouses : take[w] > 0}
             after == [k \in Keys |->
                        IF k[2] = v THEN [bal[k] EXCEPT !.onHand = @ - take[k[1]]]
                        ELSE bal[k]]
             moves == [k \in giving \X {v} |-> Delta(-take[k[1]], 0)]
  <2>1. \A w \in Warehouses : take[w] \in Nat /\ take[w] <= Available(bal, <<w, v>>)
    BY InventoryAssumption DEF Takes
  <2>2. ASSUME NEW w \in Warehouses, NEW u \in Variants
        PROVE  LET k == <<w, u>> IN
               /\ after[k] \in Rows
               /\ after[k].reserved <= after[k].onHand
               /\ IF k \in DOMAIN moves
                  THEN /\ moves[k] \in [qty : Int, res : Int]
                       /\ after[k].onHand = bal[k].onHand + moves[k].qty
                       /\ after[k].reserved = bal[k].reserved + moves[k].res
                  ELSE after[k] = bal[k]
    <3> DEFINE k == <<w, u>>
    <3>1. /\ k \in Keys /\ k[1] = w /\ k[2] = u
          /\ bal[k] \in Rows /\ bal[k].reserved <= bal[k].onHand
      BY DEF IInv, TypeOK, ReservedWithinOnHand, Keys, Rows
    <3>2. k \in DOMAIN moves <=> take[w] > 0 /\ u = v
      OBVIOUS
    <3>3. CASE u = v
      <4>1. after[k] = [onHand |-> bal[k].onHand - take[w], reserved |-> bal[k].reserved]
        BY <3>1, <3>3 DEF Rows
      <4>2. take[w] \in Nat /\ take[w] <= Larger(0, bal[k].onHand - bal[k].reserved)
        BY <2>1, <3>3 DEF Available
      <4>3. take[w] <= bal[k].onHand - bal[k].reserved
        BY <3>1, <4>2 DEF Larger, Rows
      <4>4. CASE take[w] > 0
        <5>1. moves[k] = [qty |-> -take[w], res |-> 0]
          BY <3>1, <3>2, <3>3, <4>4 DEF Delta
        <5> QED
          BY <3>1, <3>2, <3>3, <4>1, <4>2, <4>3, <4>4, <5>1 DEF Rows
      <4>5. CASE ~(take[w] > 0)
        BY <3>1, <3>2, <4>1, <4>2, <4>5 DEF Rows
      <4> QED
        BY <4>4, <4>5
    <3>4. CASE u # v
      <4>1. after[k] = bal[k]
        BY <3>1, <3>4
      <4> QED
        BY <3>1, <3>2, <3>4, <4>1
    <3> QED
      BY <3>3, <3>4
  <2>3. \A k \in Keys : \E w \in Warehouses, u \in Variants : k = <<w, u>>
    BY DEF Keys
  <2>4. Justified(after, moves)
    <3>1. after = [k \in Keys |-> after[k]]
      OBVIOUS
    <3>2. DOMAIN moves \subseteq Keys
      BY DEF Keys
    <3> HIDE DEF after, moves
    <3>3. after \in [Keys -> Rows]
      BY <2>2, <2>3, <3>1
    <3> QED
      BY <2>2, <2>3, <3>2, <3>3 DEF Justified
  <2> QED
    BY <1>3, <2>4, CommitPreserves
<1> QED
  BY <1>1, <1>2, <1>3 DEF ReconcileCatalogStock

-----------------------------------------------------------------------------
(* Which operations leave promises alone. *)

\* A catalog write takes units from what is available only: no reservation of
\* any row changes.
LEMMA ReconcileSparesReservations ==
    ASSUME IInv, NEW v \in Variants, NEW desired, ReconcileCatalogStock(v, desired)
    PROVE  \A k \in Keys : bal'[k].reserved = bal[k].reserved
<1> SUFFICES ASSUME NEW k \in Keys PROVE bal'[k].reserved = bal[k].reserved
  OBVIOUS
<1>1. bal \in [Keys -> Rows] /\ bal[k].reserved \in Nat
  BY DEF IInv, TypeOK, Rows
<1>2. CASE UNCHANGED <<bal, ledger>>
  BY <1>2
<1>3. ASSUME NEW extra \in Quantities, bal' = Moved(bal, <<Default, v>>, extra, 0)
      PROVE  bal'[k].reserved = bal[k].reserved
  BY <1>1, <1>3 DEF Moved
<1>4. ASSUME NEW take, bal' = [j \in Keys |->
                        IF j[2] = v THEN [bal[j] EXCEPT !.onHand = @ - take[j[1]]] ELSE bal[j]]
      PROVE  bal'[k].reserved = bal[k].reserved
  BY <1>1, <1>4 DEF Rows
<1> QED
  BY <1>2, <1>3, <1>4 DEF ReconcileCatalogStock, Commit

\* Neither do receipts, removals, counts and transfers.
LEMMA StockWorkSparesReservations ==
    ASSUME IInv, Receive \/ Remove \/ Adjust \/ Transfer \/ Reconcile
    PROVE  \A k \in Keys : bal'[k].reserved = bal[k].reserved
<1>1. bal \in [Keys -> Rows] /\ \A k \in Keys : bal[k].reserved \in Nat
  BY DEF IInv, TypeOK, Rows
<1>2. ASSUME NEW j \in Keys, NEW n, PostMovement(j, n, 0)
      PROVE  \A k \in Keys : bal'[k].reserved = bal[k].reserved
  <2>1. bal' = Moved(bal, j, n, 0)
    BY <1>2 DEF PostMovement, Commit
  <2> QED
    BY <1>1, <2>1 DEF Moved
<1>3. CASE Receive
  BY <1>2, <1>3 DEF Receive, StockIn
<1>4. CASE Remove
  BY <1>2, <1>4 DEF Remove, StockOut
<1>5. CASE Adjust
  <2>1. PICK j \in Keys, actual \in 0 .. MaxQty : AdjustStock(j, actual)
    BY <1>5 DEF Adjust
  <2>2. bal' = [bal EXCEPT ![j].onHand = actual]
    BY <2>1 DEF AdjustStock, Commit
  <2> QED
    BY <1>1, <2>2 DEF Rows
<1>6. CASE Transfer
  <2>1. PICK from \in Warehouses, to \in Warehouses, items \in [Variants -> 0 .. MaxQty] :
           TransferStock(from, to, items)
    BY <1>6 DEF Transfer
  <2>2. bal' = Transferred(from, to, items)
    BY <2>1 DEF TransferStock, Commit
  <2> QED
    BY <1>1, <2>2 DEF Transferred, Rows
<1>7. CASE Reconcile
  BY <1>7, ReconcileSparesReservations DEF Reconcile
<1> QED
  BY <1>3, <1>4, <1>5, <1>6, <1>7

-----------------------------------------------------------------------------

LEMMA InvInitIInv == InvInit => IInv
<1> SUFFICES ASSUME InvInit PROVE IInv
  OBVIOUS
<1>1. TypeOK /\ ReservedWithinOnHand /\ LedgerExplainsBalance /\ SnapshotCurrent
  BY DEF InvInit, TypeOK, ReservedWithinOnHand, LedgerExplainsBalance, SnapshotCurrent
<1>2. CacheFresh
  BY DEF InvInit, CacheFresh
<1> QED
  BY <1>1, <1>2 DEF IInv

LEMMA InvNextIInv == IInv /\ [InvNext]_invVars => IInv'
<1> SUFFICES ASSUME IInv, [InvNext]_invVars PROVE IInv'
  OBVIOUS
<1>1. Quantities \subseteq Int /\ 0 .. MaxQty \subseteq Nat
  BY InventoryAssumption DEF Quantities
<1>2. CASE Reserve
  <2>1. PICK k \in Keys, n \in Quantities : PostMovement(k, 0, n)
    BY <1>2 DEF Reserve, ReserveStock
  <2> QED
    BY <1>1, <2>1, PostMovementPreserves
<1>3. CASE Release
  <2>1. PICK k \in Keys, n \in Quantities : PostMovement(k, 0, -n)
    BY <1>3 DEF Release, ReleaseReservedStock
  <2>2. -n \in Int
    BY <1>1
  <2> QED
    BY <2>1, <2>2, PostMovementPreserves
<1>4. CASE Issue
  <2>1. PICK k \in Keys, n \in Quantities : PostMovement(k, -n, -n)
    BY <1>4 DEF Issue, IssueReservedStock
  <2>2. -n \in Int
    BY <1>1
  <2> QED
    BY <2>1, <2>2, PostMovementPreserves
<1>5. CASE Receive
  <2>1. PICK k \in Keys, n \in Quantities : PostMovement(k, n, 0)
    BY <1>5 DEF Receive, StockIn
  <2> QED
    BY <1>1, <2>1, PostMovementPreserves
<1>6. CASE Remove
  <2>1. PICK k \in Keys, n \in Quantities : PostMovement(k, -n, 0)
    BY <1>6 DEF Remove, StockOut
  <2>2. -n \in Int
    BY <1>1
  <2> QED
    BY <2>1, <2>2, PostMovementPreserves
<1>7. CASE Adjust
  BY <1>1, <1>7, AdjustPreserves DEF Adjust
<1>8. CASE Transfer
  <2>1. PICK from \in Warehouses, to \in Warehouses, items \in [Variants -> 0 .. MaxQty] :
           TransferStock(from, to, items)
    BY <1>8 DEF Transfer
  <2>2. items \in [Variants -> Nat]
    BY <1>1
  <2> QED
    BY <2>1, <2>2, TransferPreserves
<1>9. CASE Reconcile
  BY <1>1, <1>9, ReconcilePreserves DEF Reconcile
<1>10. CASE UNCHANGED invVars
  BY <1>10 DEF invVars, IInv, TypeOK, ReservedWithinOnHand, LedgerExplainsBalance,
               SnapshotCurrent, CacheFresh, VariantAvailable, Available
<1> QED
  BY <1>2, <1>3, <1>4, <1>5, <1>6, <1>7, <1>8, <1>9, <1>10 DEF InvNext

\* The invariant holds in every reachable state of the stock engine.
THEOREM InventoryInvariant == InvSpec => []IInv
<1> QED
  BY InvInitIInv, InvNextIInv, PTL DEF InvSpec

\* Rows and ledger keep their types: no quantity ever becomes negative.
THEOREM InventoryTypeOK == InvSpec => []TypeOK
<1>1. IInv => TypeOK
  BY DEF IInv
<1> QED
  BY <1>1, InventoryInvariant, PTL

\* No unit is promised that is not on the shelf of that warehouse, whatever
\* mix of sales, counts, transfers and catalog edits runs.
THEOREM InventoryNeverOversells == InvSpec => []ReservedWithinOnHand
<1>1. IInv => ReservedWithinOnHand
  BY DEF IInv
<1> QED
  BY <1>1, InventoryInvariant, PTL

\* The movement ledger alone determines the stock: the deltas of its immutable
\* rows add up to every balance row.
THEOREM LedgerDeterminesStock == InvSpec => []LedgerExplainsBalance
<1>1. IInv => LedgerExplainsBalance
  BY DEF IInv
<1> QED
  BY <1>1, InventoryInvariant, PTL

\* The snapshot on the newest movement of a row is that row, whichever service
\* wrote it, so that reports read from movements agree with the balances.
THEOREM SnapshotsAreCurrent == InvSpec => []SnapshotCurrent
<1>1. IInv => SnapshotCurrent
  BY DEF IInv
<1> QED
  BY <1>1, InventoryInvariant, PTL

\* The storefront figure is never stale between transactions.
THEOREM CacheNeverStale == InvSpec => []CacheFresh
<1>1. IInv => CacheFresh
  BY DEF IInv
<1> QED
  BY <1>1, InventoryInvariant, PTL

-----------------------------------------------------------------------------
(* The stock engine keeps the promise of StockPromise *)

\* The bound of the model, kept by every operation: a column of a variant can be summed.
Bounded == \A k \in Keys : bal[k].onHand <= MaxQty

OnHandColumn(b, v)   == [w \in Warehouses |-> b[<<w, v>>].onHand]
ReservedColumn(b, v) == [w \in Warehouses |-> b[<<w, v>>].reserved]

\* Balances whose columns can be summed.
Fits(b) ==
    /\ b \in [Keys -> Rows]
    /\ \A k \in Keys : b[k].reserved <= b[k].onHand /\ b[k].onHand <= MaxQty

LEMMA Columns ==
    ASSUME NEW b, Fits(b), NEW v \in Variants
    PROVE  /\ OnHandColumn(b, v) \in [Warehouses -> 0 .. MaxQty]
           /\ ReservedColumn(b, v) \in [Warehouses -> 0 .. MaxQty]
           /\ Total(OnHandColumn(b, v), MaxQty) \in Nat
           /\ Total(ReservedColumn(b, v), MaxQty) \in Nat
           /\ Total(ReservedColumn(b, v), MaxQty) <= Total(OnHandColumn(b, v), MaxQty)
<1>1. \A w \in Warehouses : <<w, v>> \in Keys
  BY DEF Keys
<1>2. \A w \in Warehouses : /\ b[<<w, v>>].onHand \in 0 .. MaxQty
                            /\ b[<<w, v>>].reserved \in 0 .. MaxQty
                            /\ b[<<w, v>>].reserved <= b[<<w, v>>].onHand
  BY <1>1, InventoryAssumption DEF Fits, Rows
<1>3. /\ OnHandColumn(b, v) \in [Warehouses -> 0 .. MaxQty]
      /\ ReservedColumn(b, v) \in [Warehouses -> 0 .. MaxQty]
      /\ \A w \in Warehouses : ReservedColumn(b, v)[w] <= OnHandColumn(b, v)[w]
  BY <1>2 DEF OnHandColumn, ReservedColumn
<1> QED
  BY <1>3, TotalNat, TotalMonotone, InventoryAssumption

LEMMA KeyParts ==
    /\ \A k \in Keys : \E w \in Warehouses, v \in Variants : k = <<w, v>>
    /\ \A w \in Warehouses, v \in Variants : <<w, v>> \in Keys
BY DEF Keys

\* Only rows that are written change.
LEMMA PostedRow ==
    ASSUME IInv, NEW k \in Keys, NEW dq \in Int, NEW dr \in Int, PostMovement(k, dq, dr)
    PROVE  /\ bal'[k] = [onHand |-> bal[k].onHand + dq, reserved |-> bal[k].reserved + dr]
           /\ bal'[k].onHand <= MaxQty
           /\ \A j \in Keys : j # k => bal'[j] = bal[j]
<1>1. bal' = Moved(bal, k, dq, dr)
  BY DEF PostMovement, Commit
<1>2. bal \in [Keys -> [onHand : Nat, reserved : Nat]]
  BY DEF IInv, TypeOK
<1> QED
  BY <1>1, <1>2 DEF PostMovement, Moved

\* A catalog write takes no more than what is available, and adds no more than fits.
LEMMA ReconcileBounded ==
    ASSUME IInv, Bounded, NEW v \in Variants, NEW desired, ReconcileCatalogStock(v, desired)
    PROVE  Bounded' /\ \A k \in Keys : bal'[k].onHand >= bal[k].reserved
<1> USE InventoryAssumption
<1> SUFFICES ASSUME NEW k \in Keys
             PROVE  bal'[k].onHand <= MaxQty /\ bal'[k].onHand >= bal[k].reserved
  BY DEF Bounded
<1>1. /\ bal \in [Keys -> Rows] /\ bal[k].onHand \in Nat /\ bal[k].reserved \in Nat
      /\ bal[k].reserved <= bal[k].onHand /\ bal[k].onHand <= MaxQty
  BY DEF IInv, TypeOK, Rows, ReservedWithinOnHand, Bounded
<1>2. CASE UNCHANGED <<bal, ledger>>
  BY <1>1, <1>2
<1>3. ASSUME NEW extra \in Quantities, bal[<<Default, v>>].onHand + extra <= MaxQty,
             bal' = Moved(bal, <<Default, v>>, extra, 0)
      PROVE  bal'[k].onHand <= MaxQty /\ bal'[k].onHand >= bal[k].reserved
  BY <1>1, <1>3 DEF Moved, Quantities
<1>4. ASSUME NEW need, NEW take \in Takes(v, need),
             bal' = [j \in Keys |->
                        IF j[2] = v THEN [bal[j] EXCEPT !.onHand = @ - take[j[1]]] ELSE bal[j]]
      PROVE  bal'[k].onHand <= MaxQty /\ bal'[k].onHand >= bal[k].reserved
  <2>1. CASE k[2] = v
    <3>1. k = <<k[1], v>> /\ k[1] \in Warehouses
      BY <2>1 DEF Keys
    <3>2. take[k[1]] \in Nat /\ take[k[1]] <= Larger(0, bal[k].onHand - bal[k].reserved)
      BY <1>4, <3>1 DEF Takes, Available
    <3>3. bal'[k].onHand = bal[k].onHand - take[k[1]]
      BY <1>1, <1>4, <2>1 DEF Rows
    <3> QED
      BY <1>1, <3>2, <3>3 DEF Larger
  <2>2. CASE k[2] # v
    BY <1>1, <1>4, <2>2
  <2> QED
    BY <2>1, <2>2
<1> QED
  BY <1>2, <1>3, <1>4 DEF ReconcileCatalogStock, Commit

LEMMA InvNextBounded == IInv /\ Bounded /\ [InvNext]_invVars => Bounded'
<1> SUFFICES ASSUME IInv, Bounded, [InvNext]_invVars PROVE Bounded'
  OBVIOUS
<1> USE InventoryAssumption
<1>1. bal \in [Keys -> [onHand : Nat, reserved : Nat]]
  BY DEF IInv, TypeOK
<1>2. ASSUME NEW k \in Keys, NEW dq \in Int, NEW dr \in Int, PostMovement(k, dq, dr)
      PROVE  Bounded'
  BY <1>2, PostedRow DEF Bounded
<1>3. CASE Reserve \/ Release \/ Issue \/ Receive \/ Remove
  <2>1. \A n \in Quantities : n \in Int /\ -n \in Int
    BY DEF Quantities
  <2> QED
    BY <1>2, <1>3, <2>1 DEF Reserve, ReserveStock, Release, ReleaseReservedStock, Issue,
          IssueReservedStock, Receive, StockIn, Remove, StockOut
<1>4. CASE Adjust
  <2>1. PICK k \in Keys, actual \in 0 .. MaxQty : AdjustStock(k, actual)
    BY <1>4 DEF Adjust
  <2>2. bal' = [bal EXCEPT ![k].onHand = actual]
    BY <2>1 DEF AdjustStock, Commit
  <2> QED
    BY <1>1, <2>2 DEF Bounded
<1>5. CASE Transfer
  <2>1. PICK from \in Warehouses, to \in Warehouses, items \in [Variants -> 0 .. MaxQty] :
           TransferStock(from, to, items)
    BY <1>5 DEF Transfer
  <2>2. bal' = Transferred(from, to, items)
    BY <2>1 DEF TransferStock, Commit
  <2> SUFFICES ASSUME NEW w \in Warehouses, NEW v \in Variants
               PROVE  bal'[<<w, v>>].onHand <= MaxQty
    BY KeyParts DEF Bounded
  <2>3. <<w, v>> \in Keys
    BY DEF Keys
  <2>4. bal[<<w, v>>].onHand \in Nat /\ bal[<<w, v>>].onHand <= MaxQty /\ items[v] \in Nat
    BY <1>1, <2>3 DEF Bounded
  <2>5. CASE w = from
    <3>1. bal'[<<w, v>>].onHand = bal[<<w, v>>].onHand - items[v]
      BY <1>1, <2>2, <2>3, <2>5 DEF Transferred
    <3> QED
      BY <2>4, <3>1
  <2>6. CASE w = to /\ w # from
    <3>1. bal'[<<w, v>>].onHand = bal[<<w, v>>].onHand + items[v]
      BY <1>1, <2>2, <2>3, <2>6 DEF Transferred
    <3>2. items[v] > 0 => Transferred(from, to, items)[<<to, v>>].onHand <= MaxQty
      BY <2>1 DEF TransferStock
    <3> QED
      BY <2>2, <2>4, <2>6, <3>1, <3>2
  <2>7. CASE w # to /\ w # from
    BY <2>2, <2>3, <2>4, <2>7 DEF Transferred
  <2> QED
    BY <2>5, <2>6, <2>7
<1>6. CASE Reconcile
  <2>1. PICK v \in Variants, desired \in 0 .. MaxQty : ReconcileCatalogStock(v, desired)
    BY <1>6 DEF Reconcile
  <2> QED
    BY <2>1, ReconcileBounded
<1>7. CASE UNCHANGED invVars
  BY <1>7 DEF invVars, Bounded
<1> QED
  BY <1>3, <1>4, <1>5, <1>6, <1>7 DEF InvNext

\* Rows c that lack n units and n promises of the rows b, in row k alone.
Fewer(b, c, k, n) ==
    /\ b[k].onHand = c[k].onHand + n
    /\ b[k].reserved = c[k].reserved + n
    /\ \A j \in Keys : j # k => c[j] = b[j]

LEMMA FewerTotals ==
    ASSUME NEW b, NEW c, Fits(b), Fits(c), NEW w \in Warehouses, NEW v \in Variants,
           NEW n \in 0 .. MaxQty, Fewer(b, c, <<w, v>>, n)
    PROVE  /\ Total(OnHandColumn(b, v), MaxQty) = Total(OnHandColumn(c, v), MaxQty) + n
           /\ Total(ReservedColumn(b, v), MaxQty) = Total(ReservedColumn(c, v), MaxQty) + n
<1>1. IsFiniteSet(Warehouses) /\ MaxQty \in Nat
  BY InventoryAssumption
<1>2. ASSUME NEW x \in Warehouses
      PROVE  /\ b[<<x, v>>].onHand = c[<<x, v>>].onHand + (IF x = w THEN n ELSE 0)
             /\ b[<<x, v>>].reserved = c[<<x, v>>].reserved + (IF x = w THEN n ELSE 0)
  <2>1. <<x, v>> \in Keys /\ (<<x, v>> = <<w, v>> <=> x = w)
    BY DEF Keys
  <2>2. c[<<x, v>>].onHand \in Nat /\ c[<<x, v>>].reserved \in Nat
    BY <2>1 DEF Fits, Rows
  <2> QED
    BY <2>1, <2>2 DEF Fewer
<1>3. Total(OnHandColumn(b, v), MaxQty) = Total(OnHandColumn(c, v), MaxQty) + n
  <2> DEFINE f == OnHandColumn(b, v)
             g == OnHandColumn(c, v)
  <2>1. f \in [Warehouses -> 0 .. MaxQty] /\ g \in [Warehouses -> 0 .. MaxQty]
    BY Columns
  <2>2. RowMore(Warehouses, f, g, w, n)
    BY <1>2 DEF RowMore, OnHandColumn
  <2> HIDE DEF f, g
  <2>3. Total(f, MaxQty) = Total(g, MaxQty) + n
    BY <1>1, <2>1, <2>2, TotalRowMore
  <2> QED
    BY <2>3 DEF f, g
<1>4. Total(ReservedColumn(b, v), MaxQty) = Total(ReservedColumn(c, v), MaxQty) + n
  <2> DEFINE f == ReservedColumn(b, v)
             g == ReservedColumn(c, v)
  <2>1. f \in [Warehouses -> 0 .. MaxQty] /\ g \in [Warehouses -> 0 .. MaxQty]
    BY Columns
  <2>2. RowMore(Warehouses, f, g, w, n)
    BY <1>2 DEF RowMore, ReservedColumn
  <2> HIDE DEF f, g
  <2>3. Total(f, MaxQty) = Total(g, MaxQty) + n
    BY <1>1, <2>1, <2>2, TotalRowMore
  <2> QED
    BY <2>3 DEF f, g
<1> QED
  BY <1>3, <1>4

\* An issue ships n units of its variant against n promises.
LEMMA IssueShips ==
    ASSUME IInv, Bounded, IInv', Bounded', NEW k \in Keys, NEW n \in Quantities,
           IssueReservedStock(k, n), NEW v \in Variants
    PROVE  IF v = k[2]
           THEN /\ TotalOnHand(v) = TotalOnHand(v)' + n
                /\ TotalReserved(v) = TotalReserved(v)' + n
           ELSE TotalReserved(v)' = TotalReserved(v)
<1>1. n \in 0 .. MaxQty /\ n \in Int /\ -n \in Int
  BY InventoryAssumption DEF Quantities
<1>2. Fits(bal) /\ Fits(bal')
  BY DEF IInv, Bounded, TypeOK, ReservedWithinOnHand, Fits, Rows
<1>3. k = <<k[1], k[2]>> /\ k[1] \in Warehouses /\ k[2] \in Variants
  BY DEF Keys
<1>4. Fewer(bal, bal', k, n)
  <2>1. bal' = Moved(bal, k, -n, -n)
    BY DEF IssueReservedStock, PostMovement, Commit
  <2> QED
    BY <1>1, <2>1 DEF Moved, Fewer, IInv, TypeOK
<1>5. CASE v = k[2]
  <2>1. /\ Total(OnHandColumn(bal, v), MaxQty) = Total(OnHandColumn(bal', v), MaxQty) + n
        /\ Total(ReservedColumn(bal, v), MaxQty) = Total(ReservedColumn(bal', v), MaxQty) + n
    BY <1>1, <1>2, <1>3, <1>4, <1>5, FewerTotals
  <2> QED
    BY <1>5, <2>1 DEF TotalOnHand, TotalReserved, OnHandColumn, ReservedColumn
<1>6. CASE v # k[2]
  <2>1. \A w \in Warehouses : bal'[<<w, v>>] = bal[<<w, v>>]
    BY <1>4, <1>6 DEF Fewer, Keys
  <2>2. [w \in Warehouses |-> bal'[<<w, v>>].reserved] = [w \in Warehouses |-> bal[<<w, v>>].reserved]
    BY <2>1
  <2> QED
    BY <1>6, <2>2 DEF TotalReserved
<1> QED
  BY <1>5, <1>6

\* Reservations and releases leave the shelf alone.
LEMMA PromisesLeaveShelf ==
    ASSUME IInv, Reserve \/ Release, NEW v \in Variants
    PROVE  TotalOnHand(v)' = TotalOnHand(v)
<1>1. PICK k \in Keys, n \in Quantities : PostMovement(k, 0, n) \/ PostMovement(k, 0, -n)
  BY DEF Reserve, ReserveStock, Release, ReleaseReservedStock
<1>2. n \in Int /\ -n \in Int
  BY InventoryAssumption DEF Quantities
<1>3. \A j \in Keys : bal'[j].onHand = bal[j].onHand
  <2>1. bal[k].onHand \in Nat
    BY DEF IInv, TypeOK
  <2>2. bal' = Moved(bal, k, 0, n) \/ bal' = Moved(bal, k, 0, -n)
    BY <1>1 DEF PostMovement, Commit
  <2> QED
    BY <2>1, <2>2 DEF Moved, IInv, TypeOK
<1>4. [w \in Warehouses |-> bal'[<<w, v>>].onHand] = [w \in Warehouses |-> bal[<<w, v>>].onHand]
  BY <1>3 DEF Keys
<1> QED
  BY <1>4 DEF TotalOnHand

LEMMA StockWorkSparesTotals ==
    ASSUME IInv, Receive \/ Remove \/ Adjust \/ Transfer \/ Reconcile, NEW v \in Variants
    PROVE  TotalReserved(v)' = TotalReserved(v)
<1>1. \A w \in Warehouses : bal'[<<w, v>>].reserved = bal[<<w, v>>].reserved
  BY StockWorkSparesReservations DEF Keys
<1>2. [w \in Warehouses |-> bal'[<<w, v>>].reserved] = [w \in Warehouses |-> bal[<<w, v>>].reserved]
  BY <1>1
<1> QED
  BY <1>2 DEF TotalReserved

\* Seen from outside the warehouses: every step of the engine is one of StockPromise,
\* whichever warehouse it writes and however a transfer or a catalog write spreads it.
LEMMA StepKeepsPromise ==
    ASSUME IInv, Bounded, [InvNext]_invVars
    PROVE  [Promise!Next]_(Promise!vars)
<1>1. IInv' /\ Bounded'
  BY InvNextIInv, InvNextBounded
<1>2. CASE UNCHANGED invVars
  <2>1. \A v \in Variants : TotalOnHand(v)' = TotalOnHand(v) /\ TotalReserved(v)' = TotalReserved(v)
    BY <1>2 DEF invVars, TotalOnHand, TotalReserved
  <2> QED
    BY <2>1 DEF Promise!vars
<1>3. CASE InvNext
  <2>1. \A v \in Variants : /\ TotalOnHand(v)' \in Nat /\ TotalReserved(v)' \in Nat
                            /\ TotalReserved(v)' <= TotalOnHand(v)'
    <3>1. Fits(bal')
      BY <1>1 DEF IInv, Bounded, TypeOK, ReservedWithinOnHand, Fits, Rows
    <3> QED
      BY <3>1, Columns DEF TotalOnHand, TotalReserved, OnHandColumn, ReservedColumn
  <2>2. ASSUME NEW v \in Variants
        PROVE  \/ TotalOnHand(v)' = TotalOnHand(v)
               \/ /\ TotalOnHand(v)' < TotalOnHand(v)
                  /\ TotalOnHand(v) - TotalOnHand(v)' = TotalReserved(v) - TotalReserved(v)'
               \/ TotalReserved(v)' = TotalReserved(v)
    <3>1. CASE Reserve \/ Release
      BY <3>1, PromisesLeaveShelf
    <3>2. CASE Receive \/ Remove \/ Adjust \/ Transfer \/ Reconcile
      BY <3>2, StockWorkSparesTotals
    <3>3. CASE Issue
      <4>1. PICK k \in Keys, n \in Quantities : IssueReservedStock(k, n)
        BY <3>3 DEF Issue
      <4>2. IF v = k[2] THEN /\ TotalOnHand(v) = TotalOnHand(v)' + n
                             /\ TotalReserved(v) = TotalReserved(v)' + n
                        ELSE TotalReserved(v)' = TotalReserved(v)
        BY <1>1, <4>1, IssueShips
      <4>3. n \in Nat /\ n > 0
        BY InventoryAssumption DEF Quantities
      <4> QED
        BY <2>1, <4>2, <4>3
    <3> QED
      BY <1>3, <3>1, <3>2, <3>3 DEF InvNext
  <2> QED
    BY <2>1, <2>2 DEF Promise!Next, Promise!Promised, Promise!Shipped, Promise!Counted
<1> QED
  BY <1>2, <1>3

\* The detailed engine implements the abstract one.
THEOREM KeepsPromise == InvSpec => ImplementsPromise
<1>1. InvInit => IInv /\ Bounded
  BY InvInitIInv, InventoryAssumption DEF InvInit, Bounded
<1>2. InvInit => Promise!Init
  <2> SUFFICES ASSUME InvInit, NEW v \in Variants
               PROVE  TotalOnHand(v) = 0 /\ TotalReserved(v) = 0
    BY DEF Promise!Init
  <2>1. \A k \in Keys : bal[k].onHand = 0 /\ bal[k].reserved = 0
    BY DEF InvInit
  <2>2. UnitsOf([w \in Warehouses |-> bal[<<w, v>>].onHand], MaxQty) = {}
    BY <2>1 DEF UnitsOf, Keys
  <2>3. UnitsOf([w \in Warehouses |-> bal[<<w, v>>].reserved], MaxQty) = {}
    BY <2>1 DEF UnitsOf, Keys
  <2> QED
    BY <2>2, <2>3, FS_EmptySet DEF TotalOnHand, TotalReserved, Total
<1>3. IInv /\ Bounded /\ [InvNext]_invVars => IInv' /\ Bounded' /\ [Promise!Next]_(Promise!vars)
  BY InvNextIInv, InvNextBounded, StepKeepsPromise
<1> QED
  BY <1>1, <1>2, <1>3, PTL DEF InvSpec, ImplementsPromise, Promise!Spec

\* The storefront's figure is a number of units.
LEMMA CacheIsNat ==
    ASSUME IInv, Bounded, NEW v \in Variants
    PROVE  cache[v] \in Nat
<1> DEFINE free == [w \in Warehouses |-> Available(bal, <<w, v>>)]
<1>1. ASSUME NEW w \in Warehouses PROVE free[w] \in 0 .. MaxQty
  <2>1. /\ bal[<<w, v>>].onHand \in Nat /\ bal[<<w, v>>].reserved \in Nat
        /\ bal[<<w, v>>].onHand <= MaxQty
    BY KeyParts DEF IInv, TypeOK, Bounded
  <2> QED
    BY <2>1, InventoryAssumption DEF Available, Larger
<1>2. free \in [Warehouses -> 0 .. MaxQty]
  BY <1>1
<1> HIDE DEF free
<1>3. Total(free, MaxQty) \in Nat
  BY <1>2, TotalNat, InventoryAssumption
<1> QED
  BY <1>3 DEF free, IInv, CacheFresh, VariantAvailable


-----------------------------------------------------------------------------
(* The stock reports tell the stock *)

\* Some row of a position with movements is the balance: that of its newest movement.
ReportIInv ==
    /\ IInv /\ Bounded
    /\ skuOf \in [Variants -> Skus]
    /\ \A k \in Keys : DOMAIN shown[k] \subseteq Skus
    /\ \A k \in Keys : \A s \in DOMAIN shown[k] :
          shown[k][s] \in Rows /\ shown[k][s].onHand <= MaxQty
    /\ \A k \in Keys : DOMAIN shown[k] # {} => \E s \in DOMAIN shown[k] : shown[k][s] = bal[k]

LEMMA ReportInitIInv == ReportInit => ReportIInv
<1> SUFFICES ASSUME ReportInit PROVE ReportIInv
  OBVIOUS
<1>1. IInv /\ Bounded
  BY InvInitIInv, InventoryAssumption DEF ReportInit, InvInit, Bounded
<1>2. \A k \in Keys : DOMAIN shown[k] = {}
  BY DEF ReportInit
<1> QED
  BY <1>1, <1>2 DEF ReportIInv, ReportInit

\* A step that keeps the rows and labels what it moves keeps the reports' invariant.
LEMMA LabelledIInv ==
    ASSUME ReportIInv, IInv', Bounded', skuOf' \in [Variants -> Skus], Labelled
    PROVE  ReportIInv'
<1> DEFINE newest(k) == [onHand |-> ledger'[k].qtyAfter, reserved |-> ledger'[k].resAfter]
<1>1. ASSUME NEW k \in Keys
      PROVE  /\ newest(k) = bal'[k] /\ bal'[k] \in Rows /\ bal'[k].onHand <= MaxQty
             /\ ledger'[k] = ledger[k] => bal'[k] = bal[k]
             /\ skuOf'[k[2]] \in Skus
  <2>1. bal[k] \in Rows /\ bal'[k] \in Rows /\ bal'[k].onHand <= MaxQty
    BY DEF ReportIInv, IInv, TypeOK, Bounded, Rows
  <2>2. /\ ledger[k].qtyAfter = bal[k].onHand /\ ledger[k].resAfter = bal[k].reserved
        /\ ledger'[k].qtyAfter = bal'[k].onHand /\ ledger'[k].resAfter = bal'[k].reserved
    BY DEF ReportIInv, IInv, SnapshotCurrent
  <2>3. k[2] \in Variants
    BY DEF Keys
  <2> QED
    BY <2>1, <2>2, <2>3 DEF Rows
<1>2. ASSUME NEW k \in Keys, ledger'[k] = ledger[k]
      PROVE  shown'[k] = shown[k]
  BY <1>2 DEF Labelled
<1>3. ASSUME NEW k \in Keys, ledger'[k] # ledger[k]
      PROVE  /\ DOMAIN shown'[k] = DOMAIN shown[k] \cup {skuOf'[k[2]]}
             /\ shown'[k][skuOf'[k[2]]] = bal'[k]
             /\ \A s \in DOMAIN shown[k] : s # skuOf'[k[2]] => shown'[k][s] = shown[k][s]
  BY <1>1, <1>3 DEF Labelled
<1> HIDE DEF newest
<1>4. ASSUME NEW k \in Keys
      PROVE  /\ DOMAIN shown'[k] \subseteq Skus
             /\ \A s \in DOMAIN shown'[k] : shown'[k][s] \in Rows /\ shown'[k][s].onHand <= MaxQty
             /\ DOMAIN shown'[k] # {} => \E s \in DOMAIN shown'[k] : shown'[k][s] = bal'[k]
  <2>1. CASE ledger'[k] = ledger[k]
    BY <1>1, <1>2, <2>1 DEF ReportIInv
  <2>2. CASE ledger'[k] # ledger[k]
    BY <1>1, <1>3, <2>2 DEF ReportIInv
  <2> QED
    BY <2>1, <2>2
<1> QED
  BY <1>4 DEF ReportIInv

LEMMA ReportNextIInv == ReportIInv /\ [ReportNext]_reportVars => ReportIInv'
<1> SUFFICES ASSUME ReportIInv, [ReportNext]_reportVars PROVE ReportIInv'
  OBVIOUS
<1>1. CASE ReportNext
  <2>1. InvNext /\ skuOf' \in [Variants -> Skus]
    <3>1. CASE InvNext /\ UNCHANGED skuOf
      BY <3>1 DEF ReportIInv
    <3>2. ASSUME NEW v \in Variants, NEW sku \in Skus, NEW desired \in 0 .. MaxQty,
                 SaveVariantForm(v, sku, desired)
          PROVE  InvNext /\ skuOf' \in [Variants -> Skus]
      <4>1. Reconcile
        BY <3>2 DEF SaveVariantForm, Reconcile
      <4>2. skuOf' \in [Variants -> Skus]
        BY <3>2 DEF SaveVariantForm, ReportIInv
      <4> QED
        BY <4>1, <4>2 DEF InvNext
    <3> QED
      BY <1>1, <3>1, <3>2 DEF ReportNext
  <2>2. IInv' /\ Bounded'
    BY <2>1, InvNextIInv, InvNextBounded DEF ReportIInv
  <2>3. Labelled
    BY <1>1 DEF ReportNext
  <2> QED
    BY <2>1, <2>2, <2>3, LabelledIInv
<1>2. CASE UNCHANGED reportVars
  <2>1. UNCHANGED invVars
    BY <1>2 DEF reportVars, invVars
  <2>2. IInv' /\ Bounded'
    BY <2>1, InvNextIInv, InvNextBounded DEF ReportIInv
  <2>3. UNCHANGED <<bal, skuOf, shown>>
    BY <1>2 DEF reportVars
  <2> QED
    BY <2>2, <2>3 DEF ReportIInv
<1> QED
  BY <1>1, <1>2

\* A column sums to at least each of its rows, and to a row beside zeros.
LEMMA RowCounts ==
    ASSUME NEW S, IsFiniteSet(S), NEW max \in Nat, NEW f \in [S -> 0 .. max], NEW s \in S
    PROVE  /\ f[s] <= Total(f, max)
           /\ (\A t \in S : t # s => f[t] = 0) => Total(f, max) = f[s]
<1> DEFINE n == f[s]
           alone == [t \in S |-> IF t = s THEN n ELSE 0]
<1>1. n \in 0 .. max /\ alone \in [S -> 0 .. max]
  OBVIOUS
<1>2. Total(alone, max) = n
  BY <1>1, TotalSingle
<1>3. \A t \in S : alone[t] <= f[t]
  OBVIOUS
<1>4. (\A t \in S : t # s => f[t] = 0) => alone = f
  OBVIOUS
<1> HIDE DEF alone
<1>5. Total(alone, max) <= Total(f, max)
  BY <1>1, <1>3, TotalMonotone
<1> QED
  BY <1>2, <1>4, <1>5

\* The sum does not depend on the bound, and is at most the bound in every row.
LEMMA SumBounds ==
    ASSUME NEW S, IsFiniteSet(S), NEW low \in Nat, NEW max \in Nat, low <= max,
           NEW f \in [S -> 0 .. low]
    PROVE  /\ f \in [S -> 0 .. max]
           /\ Total(f, max) = Total(f, low)
           /\ Total(f, low) \in 0 .. low * Cardinality(S)
<1>1. f \in [S -> 0 .. max]
  OBVIOUS
<1>2. UnitsOf(f, max) = UnitsOf(f, low)
  BY DEF UnitsOf
<1>3. UnitsOf(f, low) \subseteq S \X (1 .. low)
  BY DEF UnitsOf
<1>4. IsFiniteSet(1 .. low) /\ Cardinality(1 .. low) = low
  BY FS_Interval
<1>5. IsFiniteSet(S \X (1 .. low)) /\ Cardinality(S \X (1 .. low)) = Cardinality(S) * low
  BY <1>4, FS_Product
<1>6. Cardinality(UnitsOf(f, low)) <= Cardinality(S) * low /\ Total(f, low) \in Nat
  BY <1>3, <1>5, FS_Subset, TotalNat
<1>7. Cardinality(S) \in Nat
  BY FS_CardinalityType
<1>8. Cardinality(S) * low = low * Cardinality(S) /\ low * Cardinality(S) \in Nat
  BY <1>7
<1> QED
  BY <1>1, <1>2, <1>6, <1>8 DEF Total

\* What a position is reported with, against its balance.
Reported(k) ==
    /\ ReportedOnHand(k) \in 0 .. MaxListed /\ ReportedAvailable(k) \in 0 .. MaxListed
    /\ bal[k].onHand \in 0 .. MaxQty /\ Available(bal, k) \in 0 .. MaxQty
    /\ bal[k].onHand <= ReportedOnHand(k)
    /\ Available(bal, k) <= ReportedAvailable(k)
    /\ \E s \in ListedUnder(k) : AvailableAt(k, s) = Available(bal, k)
    /\ ListedOnce(k) => /\ ReportedOnHand(k) = bal[k].onHand
                        /\ ReportedAvailable(k) = Available(bal, k)

LEMMA ListedBound == MaxListed \in Nat /\ MaxQty <= MaxListed
<1>1. Cardinality(Skus) \in Nat /\ Cardinality(Skus) # 0 /\ MaxQty \in Nat
  BY ReportAssumption, InventoryAssumption, FS_CardinalityType, FS_EmptySet
<1>2. \A c \in Nat : c # 0 => MaxQty * c \in Nat /\ MaxQty <= MaxQty * c
  BY <1>1
<1> QED
  BY <1>1, <1>2 DEF MaxListed

LEMMA PositionReported == ASSUME ReportIInv, NEW k \in Keys PROVE Reported(k)
<1> DEFINE held == [s \in Skus |-> OnHandAt(k, s)]
           free == [s \in Skus |-> AvailableAt(k, s)]
<1> USE InventoryAssumption, ReportAssumption
<1>1. bal[k] \in Rows /\ bal[k].onHand <= MaxQty /\ bal[k].reserved <= bal[k].onHand
  BY DEF ReportIInv, IInv, TypeOK, Rows, Bounded, ReservedWithinOnHand
<1>2. PICK s \in ListedUnder(k) : ListedRow(k, s) = bal[k] /\ s \in Skus
  <2>1. k[2] \in Variants /\ skuOf[k[2]] \in Skus
    BY DEF Keys, ReportIInv
  <2> QED
    BY <2>1 DEF ReportIInv, ListedUnder, ListedRow
<1>3. \A t \in Skus : ListedRow(k, t) \in Rows /\ ListedRow(k, t).onHand <= MaxQty
  BY <1>1 DEF ReportIInv, ListedRow
<1>4. held \in [Skus -> 0 .. MaxQty] /\ held[s] = bal[k].onHand
  <2>1. \A t \in Skus : OnHandAt(k, t) \in 0 .. MaxQty
    BY <1>3 DEF OnHandAt, Rows
  <2> QED
    BY <1>2, <2>1 DEF OnHandAt
<1>5. free \in [Skus -> 0 .. MaxQty] /\ free[s] = Available(bal, k)
  <2>1. \A t \in Skus : OnHandAt(k, t) \in 0 .. MaxQty /\ ListedRow(k, t).reserved \in Nat
    BY <1>3 DEF OnHandAt, Rows
  <2>2. \A t \in Skus : AvailableAt(k, t) \in 0 .. MaxQty
    BY <2>1 DEF AvailableAt, ReservedAt, Larger
  <2>3. AvailableAt(k, s) = Available(bal, k)
    BY <1>1, <1>2 DEF AvailableAt, ReservedAt, OnHandAt, Larger, Available, Rows
  <2> QED
    BY <1>2, <2>2, <2>3
<1>6. ASSUME ListedOnce(k), NEW t \in Skus, t # s PROVE held[t] = 0 /\ free[t] = 0
  <2>1. t \notin ListedUnder(k)
    BY <1>2, <1>6 DEF ListedOnce
  <2>2. OnHandAt(k, t) = 0 /\ ListedRow(k, t).reserved \in Nat
    BY <1>3, <2>1 DEF OnHandAt, Rows
  <2>3. ReservedAt(k, t) = 0
    BY <2>2 DEF ReservedAt
  <2> QED
    BY <2>2, <2>3 DEF AvailableAt, Larger
<1>7. ReportedOnHand(k) = Total(held, MaxQty) /\ ReportedAvailable(k) = Total(free, MaxQty)
  BY DEF ReportedOnHand, ReportedAvailable
<1>8. AvailableAt(k, s) = free[s]
  BY <1>2
<1> HIDE DEF held, free
<1>9. /\ bal[k].onHand <= Total(held, MaxQty)
      /\ ListedOnce(k) => Total(held, MaxQty) = bal[k].onHand
  BY <1>2, <1>4, <1>6, RowCounts
<1>10. /\ Available(bal, k) <= Total(free, MaxQty)
       /\ ListedOnce(k) => Total(free, MaxQty) = Available(bal, k)
  BY <1>2, <1>5, <1>6, RowCounts
<1>11. Total(held, MaxQty) \in 0 .. MaxListed /\ Total(free, MaxQty) \in 0 .. MaxListed
  BY <1>4, <1>5, SumBounds DEF MaxListed
<1>12. bal[k].onHand \in 0 .. MaxQty /\ Available(bal, k) \in 0 .. MaxQty
  BY <1>1 DEF Rows, Available, Larger
<1> QED
  BY <1>2, <1>5, <1>7, <1>8, <1>9, <1>10, <1>11, <1>12 DEF Reported

\* Columns of what rows are reported with and what they are: the reported sum is no
\* less, and no more if no row is.
LEMMA ColumnReported ==
    ASSUME NEW S, IsFiniteSet(S), NEW real \in [S -> 0 .. MaxQty],
           NEW listed \in [S -> 0 .. MaxListed], \A s \in S : real[s] <= listed[s]
    PROVE  /\ Total(real, MaxQty) <= Total(listed, MaxListed)
           /\ (\A s \in S : real[s] = listed[s]) => Total(listed, MaxListed) = Total(real, MaxQty)
<1>1. real \in [S -> 0 .. MaxListed] /\ Total(real, MaxListed) = Total(real, MaxQty)
  BY ListedBound, SumBounds, InventoryAssumption
<1>2. Total(real, MaxListed) <= Total(listed, MaxListed)
  BY <1>1, ListedBound, TotalMonotone
<1>3. (\A s \in S : real[s] = listed[s]) => real = listed
  OBVIOUS
<1> QED
  BY <1>1, <1>2, <1>3

LEMMA ReportsTell == ASSUME ReportIInv PROVE StockReportTrue
<1> USE InventoryAssumption, ReportAssumption
<1>1. \A k \in Keys : Reported(k)
  BY PositionReported
<1>2. ASSUME NEW v \in Variants
      PROVE  /\ ReportedStock(v) >= cache[v]
             /\ (\A w \in Warehouses : ListedOnce(<<w, v>>)) => ReportedStock(v) = cache[v]
  <2> DEFINE real == [w \in Warehouses |-> Available(bal, <<w, v>>)]
             listed == [w \in Warehouses |-> ReportedAvailable(<<w, v>>)]
  <2>1. \A w \in Warehouses : Reported(<<w, v>>)
    BY <1>1 DEF Keys
  <2>2. /\ real \in [Warehouses -> 0 .. MaxQty] /\ listed \in [Warehouses -> 0 .. MaxListed]
        /\ \A w \in Warehouses : real[w] <= listed[w]
        /\ (\A w \in Warehouses : ListedOnce(<<w, v>>)) =>
              \A w \in Warehouses : real[w] = listed[w]
    BY <2>1 DEF Reported
  <2>3. cache[v] = Total(real, MaxQty) /\ ReportedStock(v) = Total(listed, MaxListed)
    BY DEF ReportIInv, IInv, CacheFresh, VariantAvailable, ReportedStock
  <2> HIDE DEF real, listed
  <2>4. Total(real, MaxQty) \in Nat /\ Total(listed, MaxListed) \in Nat
    BY <2>2, TotalNat, ListedBound
  <2>5. /\ Total(real, MaxQty) <= Total(listed, MaxListed)
        /\ (\A w \in Warehouses : real[w] = listed[w]) =>
              Total(listed, MaxListed) = Total(real, MaxQty)
    BY <2>2, ColumnReported
  <2> QED
    BY <2>2, <2>3, <2>4, <2>5
<1>3. ASSUME NEW w \in Warehouses
      PROVE  /\ ValuedOnHand(w) >= NetQuantity(w)
             /\ (\A v \in Variants : ListedOnce(<<w, v>>)) => ValuedOnHand(w) = NetQuantity(w)
  <2> DEFINE real == [v \in Variants |-> ledger[<<w, v>>].qty]
             listed == [v \in Variants |-> ReportedOnHand(<<w, v>>)]
  <2>1. \A v \in Variants : Reported(<<w, v>>) /\ ledger[<<w, v>>].qty = bal[<<w, v>>].onHand
    BY <1>1 DEF Keys, ReportIInv, IInv, LedgerExplainsBalance
  <2>2. /\ real \in [Variants -> 0 .. MaxQty] /\ listed \in [Variants -> 0 .. MaxListed]
        /\ \A v \in Variants : real[v] <= listed[v]
        /\ (\A v \in Variants : ListedOnce(<<w, v>>)) => \A v \in Variants : real[v] = listed[v]
    BY <2>1 DEF Reported
  <2>3. NetQuantity(w) = Total(real, MaxQty) /\ ValuedOnHand(w) = Total(listed, MaxListed)
    BY DEF NetQuantity, ValuedOnHand
  <2> HIDE DEF real, listed
  <2>4. Total(real, MaxQty) \in Nat /\ Total(listed, MaxListed) \in Nat
    BY <2>2, TotalNat, ListedBound
  <2>5. /\ Total(real, MaxQty) <= Total(listed, MaxListed)
        /\ (\A v \in Variants : real[v] = listed[v]) =>
              Total(listed, MaxListed) = Total(real, MaxQty)
    BY <2>2, ColumnReported
  <2> QED
    BY <2>2, <2>3, <2>4, <2>5
<1>4. ASSUME NEW threshold \in 0 .. MaxQty, NEW k \in Keys
      PROVE  /\ Available(bal, k) <= threshold => k \in LowPositions(threshold)
             /\ ListedOnce(k) /\ k \in LowPositions(threshold) => Available(bal, k) <= threshold
  <2>1. PICK s \in ListedUnder(k) : AvailableAt(k, s) = Available(bal, k)
    BY <1>1 DEF Reported
  <2>2. ListedOnce(k) => ListedUnder(k) = {s}
    BY <2>1 DEF ListedOnce
  <2> QED
    BY <2>1, <2>2 DEF LowPositions
<1> QED
  BY <1>2, <1>3, <1>4 DEF StockReportTrue

\* The stock, valuation, low stock and movement reports, the storefront's figure and
\* the balances tell one story of the stock, whatever SKUs the variant form gave the
\* variants, but for the positions listed again under a former SKU.
THEOREM StockReportIsTrue == ReportSpec => []StockReportTrue
<1>1. ReportIInv => StockReportTrue
  BY ReportsTell
<1> QED
  BY <1>1, ReportInitIInv, ReportNextIInv, PTL DEF ReportSpec

-----------------------------------------------------------------------------
(* Requests that save a loaded variant *)

\* A loaded instance is one of a variant, whatever became of its stock since.
EditIInv ==
    /\ IInv /\ Bounded
    /\ loaded \in [Editors -> [variant : Variants, stock : Nat] \cup {NoInstance}]

\* A step of the pages is one of the stock engine, or only reads.
LEMMA EditSteps ==
    ASSUME EditIInv, [EditNext]_editVars
    PROVE  [InvNext]_invVars \/ \E e \in Editors : SaveVariant(e) /\ loaded[e] # NoInstance
BY DEF EditNext, editVars, invVars, LoadSome, LoadVariant, SaveLoaded, SaveVariant

\* Saving an instance writes the stock of its variant only, and takes none of it that
\* is reserved.
LEMMA SaveSpares ==
    ASSUME EditIInv, NEW e \in Editors, SaveVariant(e)
    PROVE  /\ IInv' /\ Bounded'
           /\ \A k \in Keys : bal'[k].reserved = bal[k].reserved /\ bal'[k].onHand >= bal[k].reserved
<1>1. /\ loaded[e].variant \in Variants /\ loaded[e].stock \in Nat
      /\ ReconcileCatalogStock(loaded[e].variant, loaded[e].stock)
  BY DEF EditIInv, SaveVariant
<1> QED
  BY <1>1, ReconcilePreserves, ReconcileBounded, ReconcileSparesReservations DEF EditIInv

LEMMA EditNextEditIInv == EditIInv /\ [EditNext]_editVars => EditIInv'
<1> SUFFICES ASSUME EditIInv, [EditNext]_editVars PROVE EditIInv'
  OBVIOUS
<1>1. IInv' /\ Bounded'
  BY EditSteps, SaveSpares, InvNextIInv, InvNextBounded DEF EditIInv
<1>2. loaded' \in [Editors -> [variant : Variants, stock : Nat] \cup {NoInstance}]
  <2>1. ASSUME NEW e \in Editors, NEW v \in Variants, LoadVariant(e, v)
        PROVE  loaded' \in [Editors -> [variant : Variants, stock : Nat] \cup {NoInstance}]
    <3>1. cache[v] \in Nat
      BY CacheIsNat DEF EditIInv
    <3> QED
      BY <2>1, <3>1 DEF LoadVariant, EditIInv
  <2>2. ASSUME NEW e \in Editors, SaveVariant(e)
        PROVE  loaded' \in [Editors -> [variant : Variants, stock : Nat] \cup {NoInstance}]
    BY <2>2 DEF SaveVariant, EditIInv
  <2>3. CASE UNCHANGED loaded
    BY <2>3 DEF EditIInv
  <2> QED
    BY <2>1, <2>2, <2>3 DEF EditNext, editVars, LoadSome, SaveLoaded
<1> QED
  BY <1>1, <1>2 DEF EditIInv

\* However long a page held a variant before it saved it, and whatever was reserved
\* meanwhile, the save takes no promised unit from any warehouse.
THEOREM StaleSavesSparePromises == EditSpec => EditsSparePromises
<1>1. EditInit => EditIInv
  BY InvInitIInv, InventoryAssumption DEF EditInit, EditIInv, InvInit, Bounded
<1>2. EditIInv /\ [EditNext]_editVars =>
         [SaveLoaded => \A k \in Keys : /\ bal'[k].reserved = bal[k].reserved
                                        /\ bal'[k].onHand >= bal[k].reserved]_editVars
  BY SaveSpares DEF SaveLoaded
<1> QED
  BY <1>1, <1>2, EditNextEditIInv, PTL DEF EditSpec, EditsSparePromises
=============================================================================
