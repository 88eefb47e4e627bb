------------------------------ MODULE MCCheckout -----------------------------
(* Two requests with one token and one with another compete for the stock    *)
(* and for the last use of a coupon, beside the dashboard's sales; or two    *)
(* customers shop, register and are edited, one of them with addresses.      *)
(* What an account is and what an order takes from the stock are separate    *)
(* rows: only one of the two sides moves in a behaviour.                     *)
EXTENDS Checkout, CustomerAccounts, TLC

CONSTANTS o1, o2, c1, c2, p1, p2, plus1, e1, e2

MCWarehouses == {1}
MCDefault == 1
MCTokenOf == [r \in {"r1", "r2"} |-> o1] @@ [r \in {"r3"} |-> o2]

\* The first number has a spelling with a country code; the second e-mail address is
\* that number with a domain behind it.
MCNumberIn == (p1 :> p1) @@ (plus1 :> p1) @@ (p2 :> p2) @@ (e1 :> "none") @@ (e2 :> p1)

Untouched == <<book, saving, mixed, kept>> =
    <<[c \in Customers |-> [a \in Slots |-> "none"]], [t \in Tabs |-> NoJob], {},
      [c \in Customers |-> "kept"]>>

\* Addresses are saved by the first customer as he registered, without an order; one
\* customer checks out at a time.
FewPages ==
    /\ opened # {c1, c2}
    /\ \/ Untouched
       \/ /\ crm[c1] = [phone |-> p1, email |-> NoEmail, active |-> TRUE] /\ crm[c2] = NoCustomer
          /\ opened = {} /\ \A o \in Purchases : purchase[o] = Unplaced

StoreInit == CheckoutInit /\ AccountInit

StoreNext ==
    \/ AccountInit /\ CheckoutNext /\ UNCHANGED accountVars
    \/ CheckoutInit /\ coupon.limit = 1 /\ AccountNext /\ FewPages' /\ UNCHANGED checkoutVars

StoreSpec == StoreInit /\ [][StoreNext]_<<checkoutVars, accountVars>>
=============================================================================
