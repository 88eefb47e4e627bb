---------------------------- MODULE CatalogEdits ----------------------------
(***************************************************************************)
(* Requests that write stock as a side effect of editing something else,   *)
(* around the stock engine.                                                *)
(*                                                                         *)
(* A dashboard request loads a ProductVariant, changes its prices, name or *)
(* activity and saves it: the save reconciles Inventory with the           *)
(* stock_quantity the instance was loaded with.  No lock is held between   *)
(* the load and the save, so other transactions commit in between.         *)
(***************************************************************************)
EXTENDS Inventory

CONSTANT Editors    \* requests that load and save a variant

VARIABLE loaded     \* loaded[e]: the variant instance e holds, or none

editVars == <<bal, ledger, cache, loaded>>

NoInstance == [variant |-> "none", stock |-> 0]

\* The request reads the row of v without locking it.
LoadVariant(e, v) ==
    /\ loaded[e] = NoInstance
    /\ loaded' = [loaded EXCEPT ![e] = [variant |-> v, stock |-> cache[v]]]
    /\ UNCHANGED <<bal, ledger, cache>>

\* variant.save() of the loaded instance, its stock_quantity as it was loaded,
\* and the post_save receiver on it.
SaveVariant(e) ==
    /\ loaded[e] # NoInstance
    /\ ReconcileCatalogStock(loaded[e].variant, loaded[e].stock)
    /\ loaded' = [loaded EXCEPT ![e] = NoInstance]

-----------------------------------------------------------------------------

EditInit ==
    /\ InvInit
    /\ loaded = [e \in Editors |-> NoInstance]

LoadSome == \E e \in Editors, v \in Variants : LoadVariant(e, v)
SaveLoaded == \E e \in Editors : SaveVariant(e)

EditNext ==
    \/ LoadSome \/ SaveLoaded
    \/ InvNext /\ UNCHANGED loaded

EditSpec == EditInit /\ [][EditNext]_editVars

-----------------------------------------------------------------------------
(* Properties *)

\* However stale the instance, saving it takes no unit an order has reserved: the
\* reduction stops at what each warehouse has available when it is saved.
EditsSparePromises ==
    [][SaveLoaded => \A k \in Keys : /\ bal'[k].reserved = bal[k].reserved
                                     /\ bal'[k].onHand >= bal[k].reserved]_editVars
=============================================================================
