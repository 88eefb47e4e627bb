---------------------------- MODULE StockPromise ----------------------------
(***************************************************************************)
(* What the stock engine promises to the rest of the system, without       *)
(* warehouses, rows or a ledger: of every variant there are physical units *)
(* and promises on them, and a unit leaves either against its promise or   *)
(* while nobody was promised it.                                           *)
(***************************************************************************)
EXTENDS Integers

CONSTANT Variants

VARIABLES physical, promised

vars == <<physical, promised>>

Init ==
    /\ physical = [v \in Variants |-> 0]
    /\ promised = [v \in Variants |-> 0]

\* Promises are made or withdrawn, the shelf is untouched.
Promised(v) == physical'[v] = physical[v]

\* Units are shipped against as many promises.
Shipped(v) ==
    /\ physical'[v] < physical[v]
    /\ physical[v] - physical'[v] = promised[v] - promised'[v]

\* Units arrive or are written off, the promises stand.
Counted(v) == promised'[v] = promised[v]

Next ==
    /\ physical' \in [Variants -> Nat]
    /\ promised' \in [Variants -> Nat]
    /\ \A v \in Variants : /\ promised'[v] <= physical'[v]
                           /\ Promised(v) \/ Shipped(v) \/ Counted(v)

Spec == Init /\ [][Next]_vars
=============================================================================
