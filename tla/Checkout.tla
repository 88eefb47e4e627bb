------------------------------- MODULE Checkout ------------------------------
(***************************************************************************)
(* The storefront's checkout and the coupons it redeems, around the sales  *)
(* orders: storefront/checkout_services.py, promotions/services.py and the *)
(* coupon page of backoffice/marketing_views.py.                           *)
(*                                                                         *)
(* The page carries a signed token with the number its order will have, so *)
(* that a request sent twice places one order.  A request first looks for  *)
(* that order without a lock; what follows runs under the lock of the      *)
(* coupon and is one step.  The coupon page loads the whole row without a  *)
(* lock and saves all of it, the usage count included.                     *)
(***************************************************************************)
EXTENDS SalesOrders, FiniteSets

CONSTANTS
    Requests,       \* checkout requests, each submitted once
    TokenOf,        \* TokenOf[r]: the order its token names
    Limits          \* usage limits the coupon page may set

ASSUME CheckoutAssumption ==
    /\ TokenOf \in [Requests -> Orders]
    /\ Limits \subseteq Nat

VARIABLES
    request,        \* how far each request got
    coupon,         \* Coupon: is_active, usage_limit, usage_count
    redeemed,       \* orders that have a CouponRedemption
    form,           \* the usage count in the instance the coupon page holds
    overwritten     \* history: a coupon page has put back an older count

checkoutVars == <<bal, ledger, cache, orders, request, coupon, redeemed, form, overwritten>>

couponVars == <<coupon, redeemed, form, overwritten>>

NotLoaded == -1

Carts == ItemRows

-----------------------------------------------------------------------------
(* A checkout request *)

\* place_checkout_order up to the lock: an order of that number is returned.
LookForOrder(r) ==
    /\ request[r] = "sent"
    /\ request' = [request EXCEPT ![r] =
                      IF orders[TokenOf[r]] = NoOrder THEN "new" ELSE "returned"]
    /\ UNCHANGED <<invVars, orders, couponVars>>

\* coupon_discount_for_rows, with the coupon locked.
CouponUsable == coupon.active /\ coupon.count < coupon.limit

\* redeem_coupon
RedeemCoupon(o) ==
    /\ redeemed' = redeemed \cup {o}
    /\ coupon' = [coupon EXCEPT !.count = @ + 1]

\* order_number is unique, and the default warehouse has the whole cart free.
Placeable(o, items) ==
    /\ orders[o] = NoOrder
    /\ Allowed(Reserved(bal, Saved("pending", Default, items)))

\* Slip: the coupon was tested when the cart was priced, and not again.
PlaceOrderPriced(r, items, withCoupon) ==
    LET o == TokenOf[r] IN
    /\ request[r] = "new"
    /\ Placeable(o, items)
    /\ SaveSalesOrder(o, "pending", Default, items)
    /\ IF withCoupon THEN RedeemCoupon(o) ELSE UNCHANGED <<coupon, redeemed>>
    /\ request' = [request EXCEPT ![r] = "placed"]
    /\ UNCHANGED <<form, overwritten>>

\* Slip: an order that exists by now is saved again.
PlaceOrderAgain(r, items, withCoupon) ==
    LET o == TokenOf[r] IN
    /\ request[r] = "new"
    /\ withCoupon => CouponUsable
    /\ SaveSalesOrder(o, "pending", Default, items)
    /\ IF withCoupon THEN RedeemCoupon(o) ELSE UNCHANGED <<coupon, redeemed>>
    /\ request' = [request EXCEPT ![r] = "placed"]
    /\ UNCHANGED <<form, overwritten>>

\* The rest of place_checkout_order: the order is saved and its coupon counted
\* in one transaction.
PlaceOrder(r, items, withCoupon) ==
    LET o == TokenOf[r] IN
    /\ request[r] = "new"
    /\ withCoupon => CouponUsable
    /\ Placeable(o, items)
    /\ SaveSalesOrder(o, "pending", Default, items)
    /\ IF withCoupon THEN RedeemCoupon(o) ELSE UNCHANGED <<coupon, redeemed>>
    /\ request' = [request EXCEPT ![r] = "placed"]
    /\ UNCHANGED <<form, overwritten>>

\* Anything that fails rolls all of it back: nothing is left but the answer.
RefuseOrder(r, items, withCoupon) ==
    /\ request[r] = "new"
    /\ ~ (Placeable(TokenOf[r], items) /\ (withCoupon => CouponUsable))
    /\ request' = [request EXCEPT ![r] = "refused"]
    /\ UNCHANGED <<invVars, orders, couponVars>>

-----------------------------------------------------------------------------
(* The coupon page, and the sales *)

\* coupon_add loads the coupon.
LoadCoupon ==
    /\ form = NotLoaded
    /\ form' = coupon.count
    /\ UNCHANGED <<invVars, orders, request, coupon, redeemed, overwritten>>

\* coupon_add saves it, full_clean having compared the limit with its count.
SaveCoupon(limit, active) ==
    /\ form # NotLoaded
    /\ form <= limit
    /\ coupon' = [active |-> active, limit |-> limit, count |-> form]
    /\ overwritten' = (overwritten \/ form # coupon.count)
    /\ form' = NotLoaded
    /\ UNCHANGED <<invVars, orders, request, redeemed>>

\* coupons: the switch writes is_active alone.
ToggleCoupon ==
    /\ coupon' = [coupon EXCEPT !.active = ~@]
    /\ UNCHANGED <<invVars, orders, request, redeemed, form, overwritten>>

\* delete_draft_order: a CouponRedemption protects its order.  The token of a
\* deleted order may place it anew.
DeleteUnredeemed(o) ==
    /\ o \notin redeemed
    /\ DeleteDraftOrder(o)
    /\ request' = [r \in Requests |-> IF TokenOf[r] = o /\ request[r] = "placed"
                                      THEN "deleted" ELSE request[r]]
    /\ UNCHANGED couponVars

-----------------------------------------------------------------------------

CheckoutInit ==
    /\ SalesInit
    /\ request = [r \in Requests |-> "sent"]
    /\ coupon \in [active : {TRUE}, limit : Limits, count : {0}]
    /\ redeemed = {}
    /\ form = NotLoaded
    /\ overwritten = FALSE

Checkouts ==
    \/ \E r \in Requests : LookForOrder(r)
    \/ \E r \in Requests, items \in Carts, withCoupon \in BOOLEAN :
          PlaceOrder(r, items, withCoupon) \/ RefuseOrder(r, items, withCoupon)

CouponPages ==
    \/ LoadCoupon \/ ToggleCoupon
    \/ \E limit \in Limits, active \in BOOLEAN : SaveCoupon(limit, active)

Dashboard ==
    \/ (Save \/ Move \/ Complete \/ Cancel \/ PosSale \/ OtherStock)
          /\ UNCHANGED <<request, couponVars>>
    \/ \E o \in Orders : DeleteUnredeemed(o)

CheckoutNext == Checkouts \/ CouponPages \/ Dashboard

CheckoutSpec == CheckoutInit /\ [][CheckoutNext]_checkoutVars

-----------------------------------------------------------------------------
(* Properties *)

\* Of the requests that carry one token, sent twice or at once, at most one
\* places the order, however their unlocked looks interleave and whatever the
\* dashboard does to the order in between.
OneOrderPerToken ==
    \A o \in Orders : Cardinality({r \in Requests : TokenOf[r] = o /\ request[r] = "placed"}) <= 1

\* The usage count is the number of redemptions and within the limit, with
\* checkouts that compete for the last use and edits that move the limit,
\* unless a coupon page put back the count it had loaded before a redemption.
CouponCountsRedemptions ==
    ~overwritten => /\ coupon.count = Cardinality(redeemed)
                    /\ coupon.count <= coupon.limit
=============================================================================
