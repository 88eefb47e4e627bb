--------------------------- MODULE PaymentsProofs ----------------------------
(***************************************************************************)
(* Proofs about module Payments: what the ledger, the cached amount and    *)
(* the payment status say together, for any number of payments and any     *)
(* amounts.  The sums over the ledger are handled by the lemmas of         *)
(* TotalsProofs.                                                           *)
(*                                                                         *)
(* Then about Shipping and CourierWebhook, for any number of messages: the *)
(* shipment is an actor more on the ledger of its order, so PInv is part   *)
(* of its invariant, and what the shipment needs to know of the payment    *)
(* services is what they leave alone.                                      *)
(*                                                                         *)
(* Last about Returns, PaymentReports and OrderForms: the claims of the    *)
(* returns, and the loops that refund what a return made an overpayment,   *)
(* which refund each other's payments through the receiver.                *)
(***************************************************************************)
EXTENDS CourierWebhook, OrderForms, PaymentReports, TotalsProofs

Sound(t) == t \in [Slots -> Payment] /\ \A p \in Slots : WithinPayment(t[p])

MoneyIn(payment) == IF Counts(payment) THEN payment.amount ELSE 0

\* The sums of a sound ledger: no more went out than came in, and what is left
\* is refundable on the payments.
LEMMA SoundSums ==
    ASSUME NEW t, Sound(t)
    PROVE  /\ Incoming(t) \in Nat
           /\ Outgoing(t) \in Nat
           /\ Outgoing(t) <= Incoming(t)
           /\ Net(t) = Incoming(t) - Outgoing(t)
           /\ Net(t) = Total([p \in Slots |-> Refundable(t[p])], MaxAmount)
<1> DEFINE in == [p \in Slots |-> IF Counts(t[p]) THEN t[p].amount ELSE 0]
           out == [p \in Slots |-> t[p].refunded]
           left == [p \in Slots |-> Refundable(t[p])]
<1>1. IsFiniteSet(Slots) /\ MaxAmount \in Nat  BY PaymentsAssumption
<1>2. /\ in \in [Slots -> 0 .. MaxAmount]
      /\ out \in [Slots -> 0 .. MaxAmount]
      /\ left \in [Slots -> 0 .. MaxAmount]
      /\ \A p \in Slots : in[p] = out[p] + left[p]
  BY <1>1 DEF Sound, Payment, WithinPayment, Counts, Refundable, Larger
<1>3. Incoming(t) = Total(in, MaxAmount) /\ Outgoing(t) = Total(out, MaxAmount)
  BY DEF Incoming, Outgoing
<1> HIDE DEF in, out, left
<1>4. Total(in, MaxAmount) = Total(out, MaxAmount) + Total(left, MaxAmount)
  BY <1>1, <1>2, TotalAdds
<1>5. Total(out, MaxAmount) \in Nat /\ Total(left, MaxAmount) \in Nat
  BY <1>1, <1>2, TotalNat
<1>6. Net(t) = Total(left, MaxAmount)
  BY <1>3, <1>4, <1>5 DEF Net, Larger
<1> QED  BY <1>3, <1>4, <1>5, <1>6 DEF left

\* A write to one payment changes the sums by what it changes there.
LEMMA OneRowSums ==
    ASSUME NEW t, NEW u, Sound(t), Sound(u), NEW p \in Slots,
           NEW a \in 0 .. MaxAmount, NEW r \in 0 .. MaxAmount,
           \A q \in Slots \ {p} : u[q] = t[q],
           MoneyIn(u[p]) = MoneyIn(t[p]) + a,
           u[p].refunded = t[p].refunded + r
    PROVE  Incoming(u) = Incoming(t) + a /\ Outgoing(u) = Outgoing(t) + r
<1> DEFINE inT == [q \in Slots |-> IF Counts(t[q]) THEN t[q].amount ELSE 0]
           inU == [q \in Slots |-> IF Counts(u[q]) THEN u[q].amount ELSE 0]
           outT == [q \in Slots |-> t[q].refunded]
           outU == [q \in Slots |-> u[q].refunded]
           onlyA == [q \in Slots |-> IF q = p THEN a ELSE 0]
           onlyR == [q \in Slots |-> IF q = p THEN r ELSE 0]
<1>1. IsFiniteSet(Slots) /\ MaxAmount \in Nat  BY PaymentsAssumption
<1>2. /\ inT \in [Slots -> 0 .. MaxAmount] /\ inU \in [Slots -> 0 .. MaxAmount]
      /\ outT \in [Slots -> 0 .. MaxAmount] /\ outU \in [Slots -> 0 .. MaxAmount]
  BY <1>1 DEF Sound, Payment, WithinPayment, Counts
<1>3. onlyA \in [Slots -> 0 .. MaxAmount] /\ onlyR \in [Slots -> 0 .. MaxAmount]
  BY <1>1
<1>4. \A q \in Slots : inU[q] = inT[q] + onlyA[q]
  BY <1>2 DEF MoneyIn
<1>5. \A q \in Slots : outU[q] = outT[q] + onlyR[q]
  BY <1>2
<1>6. Total(onlyA, MaxAmount) = a /\ Total(onlyR, MaxAmount) = r
  BY <1>1, TotalSingle
<1>7. /\ Incoming(u) = Total(inU, MaxAmount) /\ Incoming(t) = Total(inT, MaxAmount)
      /\ Outgoing(u) = Total(outU, MaxAmount) /\ Outgoing(t) = Total(outT, MaxAmount)
  BY DEF Incoming, Outgoing
<1> HIDE DEF inT, inU, outT, outU, onlyA, onlyR
<1>8. Total(inU, MaxAmount) = Total(inT, MaxAmount) + Total(onlyA, MaxAmount)
  BY <1>1, <1>2, <1>3, <1>4, TotalAdds
<1>9. Total(outU, MaxAmount) = Total(outT, MaxAmount) + Total(onlyR, MaxAmount)
  <2>1. outU \in [Slots -> 0 .. MaxAmount] /\ outT \in [Slots -> 0 .. MaxAmount]
        /\ onlyR \in [Slots -> 0 .. MaxAmount]
    BY <1>2, <1>3
  <2> QED  BY <1>1, <1>5, <2>1, TotalAdds
<1> QED  BY <1>6, <1>7, <1>8, <1>9

\* Refunds split over several payments leave a sound ledger and take out what
\* they sum to.
LEMMA SplitRefund ==
    ASSUME NEW t, Sound(t), NEW take \in [Slots -> 0 .. MaxAmount],
           \A p \in Slots : take[p] <= Refundable(t[p])
    PROVE  LET u == [p \in Slots |-> [t[p] EXCEPT !.refunded = @ + take[p]]] IN
           /\ Sound(u)
           /\ Incoming(u) = Incoming(t)
           /\ Outgoing(u) = Outgoing(t) + Total(take, MaxAmount)
<1> DEFINE u == [p \in Slots |-> [t[p] EXCEPT !.refunded = @ + take[p]]]
           outT == [q \in Slots |-> t[q].refunded]
           outU == [q \in Slots |-> u[q].refunded]
<1>1. IsFiniteSet(Slots) /\ MaxAmount \in Nat  BY PaymentsAssumption
<1>2. ASSUME NEW p \in Slots PROVE u[p] \in Payment /\ WithinPayment(u[p])
  <2>1. t[p] \in Payment /\ WithinPayment(t[p]) /\ take[p] \in Nat /\ take[p] <= Refundable(t[p])
    BY DEF Sound
  <2>2. /\ u[p] = [t[p] EXCEPT !.refunded = @ + take[p]]
        /\ u[p].refunded = t[p].refunded + take[p]
        /\ u[p].status = t[p].status /\ u[p].amount = t[p].amount
    BY <2>1 DEF Payment
  <2>3. u[p] \in Payment  BY <2>1, <2>2 DEF Payment
  <2>4. CASE Counts(t[p])
    <3>1. take[p] <= t[p].amount - t[p].refunded
      BY <2>1, <2>4 DEF Refundable, Larger, WithinPayment, Payment
    <3>2. t[p].status = "reversed" => take[p] = 0
      BY <2>1, <3>1 DEF WithinPayment, Payment
    <3> QED  BY <2>1, <2>2, <2>3, <2>4, <3>1, <3>2 DEF WithinPayment, Payment, Counts
  <2>5. CASE ~Counts(t[p])
    BY <2>1, <2>2, <2>3, <2>5 DEF WithinPayment, Payment, Counts, Refundable
  <2> QED  BY <2>4, <2>5
<1>3. Sound(u)  BY <1>2 DEF Sound
<1>4. Incoming(u) = Incoming(t)
  <2>1. \A p \in Slots : u[p].status = t[p].status /\ u[p].amount = t[p].amount
    BY DEF Sound, Payment
  <2>2. [p \in Slots |-> IF Counts(u[p]) THEN u[p].amount ELSE 0]
          = [p \in Slots |-> IF Counts(t[p]) THEN t[p].amount ELSE 0]
    BY <2>1 DEF Counts
  <2> QED  BY <2>2 DEF Incoming
<1>5. /\ outT \in [Slots -> 0 .. MaxAmount] /\ outU \in [Slots -> 0 .. MaxAmount]
  <2>1. ASSUME NEW s, Sound(s), NEW q \in Slots PROVE s[q].refunded \in 0 .. MaxAmount
    BY <1>1, <2>1 DEF Sound, Payment, WithinPayment
  <2> HIDE DEF u
  <2> QED  BY <1>3, <2>1
<1>6. \A q \in Slots : outU[q] = outT[q] + take[q]
  <2>1. \A q \in Slots : t[q] \in Payment  BY DEF Sound
  <2> QED  BY <2>1 DEF Payment
<1>7. Outgoing(u) = Total(outU, MaxAmount) /\ Outgoing(t) = Total(outT, MaxAmount)
  BY DEF Outgoing
<1> HIDE DEF outT, outU
<1>8. Total(outU, MaxAmount) = Total(outT, MaxAmount) + Total(take, MaxAmount)
  BY <1>1, <1>5, <1>6, TotalAdds
<1> QED  BY <1>3, <1>4, <1>7, <1>8

\* Synchronizing an order whose ledger is not above the payable total makes
\* the cached amount and the status fit the ledger.
LEMMA SyncFits ==
    ASSUME NEW o \in Order, NEW t, Sound(t), Incoming(t) - Outgoing(t) <= Payable(o)
    PROVE  Synced(o, t) \in Order /\ PaidFits(Synced(o, t), t) /\ StatusFits(Synced(o, t), t)
<1>1. /\ Incoming(t) \in Nat /\ Outgoing(t) \in Nat
      /\ Net(t) = Incoming(t) - Outgoing(t) /\ Net(t) \in Nat
  <2>1. /\ Incoming(t) \in Nat /\ Outgoing(t) \in Nat /\ Outgoing(t) <= Incoming(t)
        /\ Net(t) = Incoming(t) - Outgoing(t)
    BY SoundSums
  <2> QED  BY <2>1
<1>2. Synced(o, t) = [o EXCEPT !.paid = Net(t), !.payStatus = LedgerStatus(o, t)]
  BY <1>1 DEF Synced, Smaller, Order, Payable, Larger
<1>3. LedgerStatus(o, t) \in PayStatuses  BY DEF LedgerStatus, PayStatuses
<1>4. Synced(o, t) \in Order  BY <1>1, <1>2, <1>3 DEF Order
<1>5. Payable(Synced(o, t)) = Payable(o)  BY <1>2 DEF Payable, Order
<1>6. PaidFits(Synced(o, t), t)  BY <1>1, <1>2, <1>5 DEF PaidFits, Order
<1>7. StatusFits(Synced(o, t), t)
  BY <1>1, <1>2, <1>5 DEF StatusFits, LedgerStatus, Order, Payable, Larger
<1> QED  BY <1>4, <1>6, <1>7

\* The rule of the order services fits as well, when the cached amount does.
LEMMA DerivedFits ==
    ASSUME NEW o \in Order, NEW t, PaidFits(o, t)
    PROVE  LET d == [o EXCEPT !.payStatus = DerivedStatus(o)] IN
           d \in Order /\ PaidFits(d, t) /\ StatusFits(d, t)
<1>1. DerivedStatus(o) \in PayStatuses  BY DEF DerivedStatus, PayStatuses
<1> QED  BY <1>1 DEF PaidFits, StatusFits, DerivedStatus, Order, Payable, Larger

-----------------------------------------------------------------------------
(* The inductive invariant *)

PInv == PayTypeOK /\ RefundsWithinPayment /\ CacheMatchesLedger /\ StatusSaysPaid

\* The invariant read as facts about the ledger and the order.
LEMMA PInvSound == PInv => Sound(txn) /\ order \in Order
  BY DEF PInv, Sound, PayTypeOK, RefundsWithinPayment

\* A step that leaves a sound ledger not above the payable total and
\* synchronizes the order keeps the invariant.
LEMMA SyncedStep ==
    ASSUME PInv, Sound(txn'), Incoming(txn') - Outgoing(txn') <= Payable(order),
           order' = Synced(order, txn')
    PROVE  PInv'
<1>1. order' \in Order /\ PaidFits(order', txn') /\ StatusFits(order', txn')
  BY SyncFits, PInvSound
<1> QED
  BY <1>1 DEF PInv, Sound, PayTypeOK, RefundsWithinPayment, CacheMatchesLedger, StatusSaysPaid

\* A write to one payment, as an action.
LEMMA OneRowStep ==
    ASSUME PInv, NEW p \in Slots, NEW new \in Payment, WithinPayment(new),
           NEW a \in 0 .. MaxAmount, NEW r \in 0 .. MaxAmount,
           txn' = [txn EXCEPT ![p] = new],
           MoneyIn(new) = MoneyIn(txn[p]) + a,
           new.refunded = txn[p].refunded + r
    PROVE  /\ Sound(txn')
           /\ Incoming(txn') = Incoming(txn) + a
           /\ Outgoing(txn') = Outgoing(txn) + r
<1>1. Sound(txn)  BY PInvSound
<1>2. Sound(txn') /\ txn'[p] = new /\ \A q \in Slots \ {p} : txn'[q] = txn[q]
  BY <1>1 DEF Sound
<1>3. MoneyIn(txn'[p]) = MoneyIn(txn[p]) + a /\ txn'[p].refunded = txn[p].refunded + r
  BY <1>2
<1> QED  BY <1>1, <1>2, <1>3, OneRowSums

\* Recording a completed payment.
LEMMA CapturedSums ==
    ASSUME PInv, NEW p \in Slots, NEW a \in Amounts, Captured(p, a)
    PROVE  /\ Sound(txn')
           /\ Incoming(txn') = Incoming(txn) + a
           /\ Outgoing(txn') = Outgoing(txn)
<1> DEFINE new == NewPayment("completed", a)
<1>1. MaxAmount \in Nat /\ a \in 0 .. MaxAmount /\ 0 \in 0 .. MaxAmount
  BY PaymentsAssumption DEF Amounts
<1>2. txn[p].status = "none" /\ txn[p] \in Payment /\ WithinPayment(txn[p])
  BY PInvSound DEF Captured, Sound
<1>3. txn[p].refunded = 0 /\ MoneyIn(txn[p]) = 0
  BY <1>2 DEF WithinPayment, Counts, MoneyIn
<1>4. new \in Payment /\ WithinPayment(new) /\ MoneyIn(new) = a /\ new.refunded = 0
  <2>1. new = [status |-> "completed", amount |-> a, refunded |-> 0, reconciled |-> FALSE]
    BY DEF NewPayment
  <2> HIDE DEF new
  <2> QED  BY <1>1, <2>1 DEF Payment, WithinPayment, Counts, MoneyIn
<1>5. txn' = [txn EXCEPT ![p] = new]  BY DEF Captured
<1>6. MoneyIn(new) = MoneyIn(txn[p]) + a /\ new.refunded = txn[p].refunded + 0
  BY <1>1, <1>3, <1>4
<1> HIDE DEF new
<1>7. /\ Sound(txn') /\ Incoming(txn') = Incoming(txn) + a
      /\ Outgoing(txn') = Outgoing(txn) + 0
  BY <1>1, <1>4, <1>5, <1>6, OneRowStep
<1>8. Outgoing(txn) \in Nat  BY PInvSound, SoundSums
<1> QED  BY <1>7, <1>8

\* The receiver brings the ledger to the amount that was written.
LEMMA MirrorReaches ==
    ASSUME PInv, NEW status, NEW desired \in 0 .. MaxAmount, Mirror(status, desired)
    PROVE  Sound(txn') /\ Incoming(txn') - Outgoing(txn') = desired
<1>1. /\ Sound(txn)
      /\ Incoming(txn) \in Nat /\ Outgoing(txn) \in Nat /\ Outgoing(txn) <= Incoming(txn)
      /\ Net(txn) = Incoming(txn) - Outgoing(txn)
      /\ MaxAmount \in Nat
  BY PInvSound, SoundSums, PaymentsAssumption
<1>2. CASE desired = Net(txn) /\ UNCHANGED txn
  BY <1>1, <1>2
<1>3. ASSUME NEW p \in Slots, desired > Net(txn), Captured(p, desired - Net(txn))
      PROVE  Sound(txn') /\ Incoming(txn') - Outgoing(txn') = desired
  <2>1. desired - Net(txn) \in Amounts  BY <1>1, <1>3 DEF Amounts
  <2>2. /\ Sound(txn') /\ Incoming(txn') = Incoming(txn) + (desired - Net(txn))
        /\ Outgoing(txn') = Outgoing(txn)
    BY <1>3, <2>1, CapturedSums
  <2> QED  BY <1>1, <2>2
<1>4. ASSUME desired < Net(txn), NEW take \in NewestFirst(Net(txn) - desired), Refunded(take)
      PROVE  Sound(txn') /\ Incoming(txn') - Outgoing(txn') = desired
  <2>1. /\ take \in [Slots -> 0 .. MaxAmount]
        /\ \A p \in Slots : take[p] <= Refundable(txn[p])
        /\ Total(take, MaxAmount) = Net(txn) - desired
    BY DEF NewestFirst
  <2>2. /\ Sound(txn') /\ Incoming(txn') = Incoming(txn)
        /\ Outgoing(txn') = Outgoing(txn) + (Net(txn) - desired)
    BY <1>1, <1>4, <2>1, SplitRefund DEF Refunded
  <2> QED  BY <1>1, <2>2
<1> QED  BY <1>2, <1>3, <1>4 DEF Mirror

-----------------------------------------------------------------------------
(* Preservation, one step per action *)

\* A new order has an empty, sound ledger.
LEMMA PayInitPInv == PayInit => PInv
<1> SUFFICES ASSUME PayInit PROVE PInv  OBVIOUS
<1>1. MaxAmount \in Nat /\ IsFiniteSet(Slots)  BY PaymentsAssumption
<1>2. order \in Order /\ order.credit = 0 /\ order.paid = 0 /\ order.payStatus = "unpaid"
  BY <1>1 DEF PayInit, Order, PayStatuses, Statuses, Editable, Reserving
<1>3. Sound(txn)
  BY <1>1 DEF PayInit, Sound, NoPayment, NewPayment, Payment, WithinPayment, Counts
<1>4. Incoming(txn) = 0 /\ Outgoing(txn) = 0
  <2> DEFINE zero == [p \in Slots |-> 0]
  <2>1. Incoming(txn) = Total(zero, MaxAmount) /\ Outgoing(txn) = Total(zero, MaxAmount)
    <3>1. \A p \in Slots : ~Counts(txn[p]) /\ txn[p].refunded = 0
      BY DEF PayInit, NoPayment, NewPayment, Counts
    <3>2. /\ [p \in Slots |-> IF Counts(txn[p]) THEN txn[p].amount ELSE 0] = zero
          /\ [p \in Slots |-> txn[p].refunded] = zero
      BY <3>1
    <3> QED  BY <3>2 DEF Incoming, Outgoing
  <2>2. zero \in [Slots -> 0 .. MaxAmount] /\ \A p \in Slots : zero[p] = zero[p] + zero[p]
    BY <1>1
  <2> HIDE DEF zero
  <2>3. /\ Total(zero, MaxAmount) \in Nat
        /\ Total(zero, MaxAmount) = Total(zero, MaxAmount) + Total(zero, MaxAmount)
    BY <1>1, <2>2, TotalNat, TotalAdds
  <2>4. \A x \in Nat : x = x + x => x = 0  OBVIOUS
  <2>5. Total(zero, MaxAmount) = 0  BY <2>3, <2>4, Zenon
  <2> QED  BY <2>1, <2>5
<1>5. PaidFits(order, txn) /\ StatusFits(order, txn)
  BY <1>2, <1>4 DEF PaidFits, StatusFits, Payable, Larger, Order
<1> QED
  BY <1>2, <1>3, <1>5
  DEF PInv, PayTypeOK, Sound, RefundsWithinPayment, CacheMatchesLedger, StatusSaysPaid

\* Every step keeps the invariant.
LEMMA PayNextPInv == PInv /\ [PayNext]_payVars => PInv'
<1> SUFFICES ASSUME PInv, [PayNext]_payVars PROVE PInv'  OBVIOUS
<1>1. /\ Sound(txn) /\ order \in Order
      /\ Incoming(txn) \in Nat /\ Outgoing(txn) \in Nat /\ Outgoing(txn) <= Incoming(txn)
      /\ Net(txn) = Incoming(txn) - Outgoing(txn)
      /\ Payable(order) \in Nat
      /\ MaxAmount \in Nat
  <2>1. Payable(order) \in Nat  BY PInvSound DEF Payable, Larger, Order
  <2> QED  BY <2>1, PInvSound, SoundSums, PaymentsAssumption
<1>2. PaidFits(order, txn) /\ StatusFits(order, txn)
  BY DEF PInv, CacheMatchesLedger, StatusSaysPaid
<1>3. \A p \in Slots : txn[p] \in Payment /\ WithinPayment(txn[p])  BY <1>1 DEF Sound
<1>4. Outstanding \in Nat /\ Net(txn) + Outstanding = Payable(order)
  BY <1>1, <1>2 DEF Outstanding, PaidFits, Larger
<1>5. ASSUME Sound(txn'), Incoming(txn') = Incoming(txn), Outgoing(txn') = Outgoing(txn),
             order' = order
      PROVE  PInv'
  BY <1>1, <1>2, <1>5 DEF PInv, Sound, PayTypeOK, RefundsWithinPayment,
     CacheMatchesLedger, StatusSaysPaid, PaidFits, StatusFits
<1>6. ASSUME NEW p \in Slots, NEW new \in Payment, WithinPayment(new),
             txn' = [txn EXCEPT ![p] = new],
             MoneyIn(new) = MoneyIn(txn[p]), new.refunded = txn[p].refunded,
             order' = order
      PROVE  PInv'
  <2>1. MoneyIn(txn[p]) \in Nat /\ txn[p].refunded \in Nat
    BY <1>3, <1>1 DEF MoneyIn, Payment
  <2>2. 0 \in 0 .. MaxAmount /\ MoneyIn(new) = MoneyIn(txn[p]) + 0
        /\ new.refunded = txn[p].refunded + 0
    BY <1>1, <1>6, <2>1
  <2>3. /\ Sound(txn') /\ Incoming(txn') = Incoming(txn) + 0
        /\ Outgoing(txn') = Outgoing(txn) + 0
    BY <1>6, <2>2, OneRowStep
  <2> QED  BY <1>1, <1>5, <1>6, <2>3
<1>7. CASE Capture
  <2> PICK p \in Slots, a \in Amounts : CapturePayment(p, a)  BY <1>7 DEF Capture
  <2>1. /\ Sound(txn') /\ Incoming(txn') = Incoming(txn) + a
        /\ Outgoing(txn') = Outgoing(txn)
    BY CapturedSums DEF CapturePayment
  <2>2. Incoming(txn') - Outgoing(txn') <= Payable(order)
    BY <1>1, <1>2, <2>1 DEF CapturePayment, Outstanding, Larger, Amounts, PaidFits
  <2> QED  BY <2>1, <2>2, SyncedStep DEF CapturePayment
<1>8. CASE Register
  <2> PICK p \in Slots, a \in Amounts, s \in {"pending", "failed"} : RegisterPayment(p, a, s)
    BY <1>8 DEF Register
  <2> DEFINE new == NewPayment(s, a)
  <2>1. new \in Payment /\ WithinPayment(new) /\ MoneyIn(new) = 0 /\ new.refunded = 0
    <3>1. new = [status |-> s, amount |-> a, refunded |-> 0, reconciled |-> FALSE]
      BY DEF NewPayment
    <3> HIDE DEF new
    <3>2. s # "completed" /\ s # "reversed" /\ a \in 0 .. MaxAmount  BY <1>1 DEF Amounts
    <3> QED  BY <3>1, <3>2 DEF Payment, WithinPayment, Counts, MoneyIn
  <2>2. MoneyIn(txn[p]) = 0 /\ txn[p].refunded = 0
    BY <1>3 DEF RegisterPayment, MoneyIn, Counts, WithinPayment
  <2> QED  BY <1>6, <2>1, <2>2 DEF RegisterPayment
<1>9. CASE CompletePending
  <2> PICK p \in Slots : CompletePendingPayment(p)  BY <1>9 DEF CompletePending
  <2> DEFINE new == [txn[p] EXCEPT !.status = "completed"]
             a == txn[p].amount
  <2>1. /\ txn[p].status = "pending" /\ txn[p] \in Payment /\ WithinPayment(txn[p])
        /\ a <= Outstanding
    BY <1>3 DEF CompletePendingPayment
  <2>2. txn[p].refunded = 0 /\ MoneyIn(txn[p]) = 0 /\ a \in 0 .. MaxAmount
    BY <2>1 DEF WithinPayment, Counts, MoneyIn, Payment
  <2>3. /\ new \in Payment /\ new.status = "completed" /\ new.amount = a /\ new.refunded = 0
    BY <2>1, <2>2 DEF Payment
  <2>4. WithinPayment(new) /\ MoneyIn(new) = a
    BY <2>2, <2>3 DEF WithinPayment, MoneyIn, Counts
  <2>5. txn' = [txn EXCEPT ![p] = new]  BY DEF CompletePendingPayment
  <2> HIDE DEF new, a
  <2>6. /\ Sound(txn') /\ Incoming(txn') = Incoming(txn) + a
        /\ Outgoing(txn') = Outgoing(txn) + 0
    <3>1. MoneyIn(new) = MoneyIn(txn[p]) + a /\ new.refunded = txn[p].refunded + 0
          /\ 0 \in 0 .. MaxAmount
      BY <1>1, <2>2, <2>3, <2>4
    <3> QED  BY <2>2, <2>3, <2>4, <2>5, <3>1, OneRowStep
  <2>7. Incoming(txn') - Outgoing(txn') <= Payable(order)
    BY <1>1, <1>4, <2>1, <2>2, <2>6
  <2> QED  BY <2>6, <2>7, SyncedStep DEF CompletePendingPayment
<1>10. CASE Fail
  <2> PICK p \in Slots : FailPendingPayment(p)  BY <1>10 DEF Fail
  <2> DEFINE new == [txn[p] EXCEPT !.status = "failed"]
  <2>1. txn[p].status = "pending" /\ txn[p] \in Payment /\ WithinPayment(txn[p])
    BY <1>3 DEF FailPendingPayment
  <2>2. new \in Payment /\ new.status = "failed" /\ new.amount = txn[p].amount
        /\ new.refunded = txn[p].refunded
    BY <2>1 DEF Payment
  <2>3. WithinPayment(new) /\ MoneyIn(new) = MoneyIn(txn[p])
    BY <2>1, <2>2 DEF WithinPayment, MoneyIn, Counts
  <2> QED  BY <1>6, <2>2, <2>3 DEF FailPendingPayment
<1>11. CASE Refund
  <2> PICK p \in Slots, r \in Amounts : RefundPayment(p, r)  BY <1>11 DEF Refund
  <2> DEFINE new == [txn[p] EXCEPT !.refunded = @ + r]
  <2>1. /\ Counts(txn[p]) /\ r <= Refundable(txn[p]) /\ r \in 0 .. MaxAmount
        /\ r > 0 /\ txn[p] \in Payment /\ WithinPayment(txn[p])
    BY <1>1, <1>3 DEF RefundPayment, Amounts
  <2>2. txn[p].refunded + r <= txn[p].amount
    BY <2>1 DEF Refundable, Larger, Payment, WithinPayment
  <2>3. /\ new \in Payment /\ new.refunded = txn[p].refunded + r
        /\ new.status = txn[p].status /\ new.amount = txn[p].amount
    BY <2>1 DEF Payment
  <2>4. WithinPayment(new) /\ MoneyIn(new) = MoneyIn(txn[p])
    BY <2>1, <2>2, <2>3 DEF WithinPayment, MoneyIn, Counts, Payment
  <2>5. txn' = [txn EXCEPT ![p] = new]  BY DEF RefundPayment
  <2> HIDE DEF new
  <2>6. /\ Sound(txn') /\ Incoming(txn') = Incoming(txn) + 0
        /\ Outgoing(txn') = Outgoing(txn) + r
    <3>1. MoneyIn(txn[p]) \in Nat  BY <2>1, <1>1 DEF MoneyIn, Payment
    <3>2. MoneyIn(new) = MoneyIn(txn[p]) + 0 /\ 0 \in 0 .. MaxAmount  BY <1>1, <2>4, <3>1
    <3> QED  BY <2>1, <2>3, <2>4, <2>5, <3>2, OneRowStep
  <2>7. Incoming(txn') - Outgoing(txn') <= Payable(order)
    BY <1>1, <1>2, <2>1, <2>6 DEF PaidFits
  <2> QED  BY <2>6, <2>7, SyncedStep DEF RefundPayment
<1>12. CASE Reversal
  <2> PICK p \in Slots : ReversePayment(p)  BY <1>12 DEF Reversal
  <2> DEFINE new == [txn[p] EXCEPT !.status = "reversed", !.refunded = @ + txn[p].amount]
             r == txn[p].amount
  <2>1. /\ txn[p].status = "completed" /\ txn[p] \in Payment /\ WithinPayment(txn[p])
        /\ Refundable(txn[p]) = r
    BY <1>3 DEF ReversePayment
  <2>2. txn[p].refunded = 0 /\ r \in 0 .. MaxAmount
    BY <2>1, <1>1 DEF Refundable, Larger, Payment, WithinPayment, Counts
  <2>3. /\ new \in Payment /\ new.refunded = txn[p].refunded + r
        /\ new.status = "reversed" /\ new.amount = r
    <3>1. txn[p].refunded + txn[p].amount \in Nat  BY <1>1, <2>2
    <3> QED  BY <2>1, <3>1 DEF Payment
  <2>4. WithinPayment(new) /\ MoneyIn(new) = MoneyIn(txn[p])
    BY <2>1, <2>2, <2>3 DEF WithinPayment, MoneyIn, Counts, Payment
  <2>5. txn' = [txn EXCEPT ![p] = new]  BY DEF ReversePayment
  <2> HIDE DEF new, r
  <2>6. /\ Sound(txn') /\ Incoming(txn') = Incoming(txn) + 0
        /\ Outgoing(txn') = Outgoing(txn) + r
    <3>1. MoneyIn(txn[p]) \in Nat  BY <2>1, <1>1 DEF MoneyIn, Payment
    <3>2. MoneyIn(new) = MoneyIn(txn[p]) + 0 /\ 0 \in 0 .. MaxAmount  BY <1>1, <2>4, <3>1
    <3> QED  BY <2>2, <2>3, <2>4, <2>5, <3>2, OneRowStep
  <2>7. Incoming(txn') - Outgoing(txn') <= Payable(order)
    BY <1>1, <1>2, <2>2, <2>6 DEF PaidFits
  <2> QED  BY <2>6, <2>7, SyncedStep DEF ReversePayment
<1>13. CASE Reconcile
  <2> PICK p \in Slots, b \in BOOLEAN : ReconcilePayment(p, b)  BY <1>13 DEF Reconcile
  <2> DEFINE new == [txn[p] EXCEPT !.reconciled = b]
  <2>1. txn[p] \in Payment /\ WithinPayment(txn[p])  BY <1>3
  <2>2. new \in Payment /\ new.status = txn[p].status /\ new.amount = txn[p].amount
        /\ new.refunded = txn[p].refunded
    BY <2>1 DEF Payment
  <2>3. WithinPayment(new) /\ MoneyIn(new) = MoneyIn(txn[p])
    BY <2>1, <2>2 DEF WithinPayment, MoneyIn, Counts
  <2> QED  BY <1>6, <2>2, <2>3 DEF ReconcilePayment
<1>14. CASE Update
  <2> PICK desired \in 0 .. MaxAmount : UpdateOrderPayment(desired)  BY <1>14 DEF Update
  <2>1. Sound(txn') /\ Incoming(txn') - Outgoing(txn') = desired
    BY MirrorReaches DEF UpdateOrderPayment
  <2>2. CASE desired = Net(txn)
    <3> DEFINE o == [order EXCEPT !.paid = desired]
    <3>1. o \in Order /\ PaidFits(o, txn')
      BY <1>1, <2>1 DEF Order, PaidFits, Payable, UpdateOrderPayment
    <3>2. order' = [o EXCEPT !.payStatus = DerivedStatus(o)]
      BY <1>1, <2>2 DEF UpdateOrderPayment, Order
    <3> HIDE DEF o
    <3>3. order' \in Order /\ PaidFits(order', txn') /\ StatusFits(order', txn')
      BY <3>1, <3>2, DerivedFits
    <3> QED
      BY <2>1, <3>3 DEF PInv, Sound, PayTypeOK, RefundsWithinPayment,
         CacheMatchesLedger, StatusSaysPaid
  <2>3. CASE desired # Net(txn)
    BY <2>1, <2>3, SyncedStep DEF UpdateOrderPayment
  <2> QED  BY <2>2, <2>3
<1>15. CASE Edit
  <2> PICK s \in Editable, total \in 0 .. MaxAmount, desired \in 0 .. MaxAmount :
           EditOrder(s, total, desired)
    BY <1>15 DEF Edit
  <2> DEFINE o == [order EXCEPT !.status = s, !.total = total, !.paid = desired]
  <2>1. Sound(txn') /\ Incoming(txn') - Outgoing(txn') = desired
    BY MirrorReaches DEF EditOrder
  <2>2. o \in Order /\ PaidFits(o, txn')
    <3>1. s \in Statuses /\ total \in Nat /\ desired \in Nat  BY <1>1 DEF Statuses
    <3>2. o \in Order /\ o.paid = desired  BY <1>1, <3>1 DEF Order
    <3>3. desired <= Payable(o)  BY DEF EditOrder
    <3> QED  BY <2>1, <3>2, <3>3 DEF PaidFits
  <2>3. order' = [o EXCEPT !.payStatus = DerivedStatus(o)]  BY DEF EditOrder
  <2> HIDE DEF o
  <2>4. order' \in Order /\ PaidFits(order', txn') /\ StatusFits(order', txn')
    BY <2>2, <2>3, DerivedFits
  <2> QED
    BY <2>1, <2>4 DEF PInv, Sound, PayTypeOK, RefundsWithinPayment,
       CacheMatchesLedger, StatusSaysPaid
<1>16. CASE Transition
  <2> PICK new \in Statuses : TransitionOrder(new)  BY <1>16 DEF Transition
  <2>1. order' = [order EXCEPT !.status = new] /\ txn' = txn  BY DEF TransitionOrder
  <2>2. order' \in Order /\ PaidFits(order', txn') /\ StatusFits(order', txn')
    BY <1>1, <1>2, <2>1 DEF Order, PaidFits, StatusFits, Payable
  <2> QED
    BY <1>1, <2>1, <2>2 DEF PInv, Sound, PayTypeOK, RefundsWithinPayment,
       CacheMatchesLedger, StatusSaysPaid
<1>17. CASE UNCHANGED payVars
  BY <1>1, <1>5, <1>17 DEF payVars
<1> QED
  BY <1>7, <1>8, <1>9, <1>10, <1>11, <1>12, <1>13, <1>14, <1>15, <1>16, <1>17 DEF PayNext

\* The invariant holds in every state of an order's ledger.
THEOREM PaymentsInvariant == PaySpec => []PInv
  BY PayInitPInv, PayNextPInv, PTL DEF PaySpec

\* However many payments there are and whichever services run, no payment is
\* refunded beyond its amount (payments/services.py refundable_amount).
THEOREM RefundsBounded == PaySpec => []RefundsWithinPayment
<1>1. PInv => RefundsWithinPayment  BY DEF PInv
<1> QED  BY <1>1, PaymentsInvariant, PTL

\* amount_paid of the order equals the net of the ledger and never exceeds the
\* payable total.
THEOREM LedgerAndOrderAgree == PaySpec => []CacheMatchesLedger
<1>1. PInv => CacheMatchesLedger  BY DEF PInv
<1> QED  BY <1>1, PaymentsInvariant, PTL

\* Whichever of the two rules derived the payment status last, the status says
\* what the ledger of the order says.
THEOREM StatusTellsWhatIsPaid == PaySpec => []StatusSaysPaid
<1>1. PInv => StatusSaysPaid  BY DEF PInv
<1> QED  BY <1>1, PaymentsInvariant, PTL

\* The two aggregates of sales_payment_totals agree with refundable_amount
\* summed over the payments: all of the net can be given back.
THEOREM NetAlwaysRefundable == PaySpec => []NetIsRefundable
<1>1. PInv => NetIsRefundable  BY PInvSound, SoundSums DEF NetIsRefundable
<1> QED  BY <1>1, PaymentsInvariant, PTL

\* The columns of the order and of its payments keep their types: amounts stay
\* positive and bounded, and the cached amount_paid is never negative
\* (payments/models.py, sales/models.py).
THEOREM PayTypes == PaySpec => []PayTypeOK
<1>1. PInv => PayTypeOK  BY DEF PInv
<1> QED  BY <1>1, PaymentsInvariant, PTL

-----------------------------------------------------------------------------
(* Shipping and courier messages *)

Shipment == [status : ShipmentStatuses, expected : Nat, collected : Nat, settled : Nat,
             codStatus : {"not_applicable", "pending", "collected", "disputed",
                          "partially_settled", "settled"}]

\* The payments of settlements are there, and money is collected and settled
\* for a delivered parcel only.
SettlementsRecorded ==
    /\ codPayments \subseteq {p \in Slots : txn[p].status # "none"}
    /\ ship.collected > 0 => ship.status = "delivered"

ShipInv ==
    /\ PInv
    /\ ship \in Shipment
    /\ SettlementsRecorded
    /\ HandedOverIsSold
    /\ CODExplained
    /\ CODStatusHonest

-----------------------------------------------------------------------------
(* What the payment services leave alone *)

\* A sold order stays sold, and a payment keeps the amount it was recorded with.
LEMMA PaymentsLeave ==
    ASSUME PInv, [PayNext]_payVars
    PROVE  /\ order.status = "completed" => order'.status = "completed"
           /\ \A p \in Slots : txn[p].status # "none" =>
                 txn'[p].status # "none" /\ txn'[p].amount = txn[p].amount
<1>0. order \in Order /\ txn \in [Slots -> Payment]
  BY PInvSound DEF Sound
<1>1. CASE Capture
  BY <1>0, <1>1 DEF Capture, CapturePayment, Captured, NewPayment, Synced, Order
<1>2. CASE Register
  BY <1>0, <1>2 DEF Register, RegisterPayment, NewPayment
<1>3. CASE CompletePending
  BY <1>0, <1>3 DEF CompletePending, CompletePendingPayment, Synced, Order, Payment
<1>4. CASE Fail
  BY <1>0, <1>4 DEF Fail, FailPendingPayment, Payment
<1>5. CASE Refund
  BY <1>0, <1>5 DEF Refund, RefundPayment, Synced, Order, Payment
<1>6. CASE Reversal
  BY <1>0, <1>6 DEF Reversal, ReversePayment, Synced, Order, Payment
<1>7. CASE Reconcile
  BY <1>0, <1>7 DEF Reconcile, ReconcilePayment, Payment
<1>8. ASSUME NEW status, NEW desired, Mirror(status, desired)
      PROVE  \A p \in Slots : txn[p].status # "none" =>
                txn'[p].status # "none" /\ txn'[p].amount = txn[p].amount
  BY <1>0, <1>8 DEF Mirror, Captured, NewPayment, Refunded, Payment
<1>9. CASE Update
  BY <1>0, <1>8, <1>9 DEF Update, UpdateOrderPayment, Synced, Order
<1>10. CASE Edit
  BY <1>0, <1>8, <1>10 DEF Edit, EditOrder, Editable
<1>11. CASE Transition
  BY <1>0, <1>11 DEF Transition, TransitionOrder, AllowedTransitions, Order, Statuses
<1>12. CASE UNCHANGED payVars
  BY <1>12 DEF payVars
<1> QED
  BY <1>1, <1>2, <1>3, <1>4, <1>5, <1>6, <1>7, <1>9, <1>10, <1>11, <1>12 DEF PayNext

\* The column of settled amounts.
SettledColumn == [p \in Slots |-> IF p \in codPayments THEN txn[p].amount ELSE 0]

LEMMA SettledColumnType == PInv => SettledColumn \in [Slots -> 0 .. MaxAmount]
  BY PInvSound, PaymentsAssumption DEF Sound, SettledColumn, Payment

\* So the payment services keep the whole invariant of the shipment.
LEMMA PaymentsKeepShipment ==
    ASSUME ShipInv, [PayNext]_payVars, UNCHANGED <<ship, codPayments>>
    PROVE  ShipInv'
<1>1. PInv'
  BY PayNextPInv DEF ShipInv
<1>2. /\ order.status = "completed" => order'.status = "completed"
      /\ \A p \in Slots : txn[p].status # "none" =>
            txn'[p].status # "none" /\ txn'[p].amount = txn[p].amount
  BY PaymentsLeave DEF ShipInv
<1>3. SettledColumn' = SettledColumn
  BY <1>2 DEF ShipInv, SettlementsRecorded, SettledColumn
<1>4. CODExplained'
  BY <1>3 DEF ShipInv, CODExplained, SettledColumn
<1> QED
  BY <1>1, <1>2, <1>4 DEF ShipInv, SettlementsRecorded, HandedOverIsSold, CODStatusHonest
-----------------------------------------------------------------------------
(* The shipment's own services *)

\* What _shipment_cod_status says of three ordered amounts.
LEMMA CODStatusSays ==
    ASSUME NEW e \in Nat, NEW c \in Nat, NEW s \in Nat, c <= e, s <= c
    PROVE  /\ CODStatusOf(e, c, s) \in
                 {"not_applicable", "pending", "collected", "disputed",
                  "partially_settled", "settled"}
           /\ CODStatusOf(e, c, s) = "disputed" <=> 0 < c /\ c < e
           /\ CODStatusOf(e, c, s) = "settled" => e > 0 /\ c = e /\ s = e
BY DEF CODStatusOf

LEMMA CreateKeeps ==
    ASSUME ShipInv, NEW cod \in 0 .. MaxAmount, CreateShipment(cod)
    PROVE  ShipInv'
<1>1. MaxAmount \in Nat /\ cod \in Nat
  BY PaymentsAssumption
<1>2. ship' = [status |-> "draft", expected |-> cod, collected |-> 0, settled |-> 0,
               codStatus |-> CODStatusOf(cod, 0, 0)]
  BY DEF CreateShipment, NoShipment
<1>3. ship' \in Shipment /\ CODStatusHonest'
  <2>1. /\ CODStatusOf(cod, 0, 0) # "disputed" /\ CODStatusOf(cod, 0, 0) # "settled"
        /\ CODStatusOf(cod, 0, 0) \in {"not_applicable", "pending", "collected", "disputed",
                                        "partially_settled", "settled"}
    BY <1>1, CODStatusSays
  <2> QED
    BY <1>1, <1>2, <2>1 DEF Shipment, ShipmentStatuses, ShipmentTransitions,
                            CODStatusHonest, Homeward
<1>4. PInv'
  BY DEF CreateShipment, ShipInv, PInv, PayTypeOK, RefundsWithinPayment,
         CacheMatchesLedger, StatusSaysPaid
<1>5. SettlementsRecorded' /\ HandedOverIsSold'
  <2>1. ship'.status = "draft" /\ ship'.collected = 0
    BY <1>2
  <2>2. txn' = txn /\ codPayments' = codPayments
    BY DEF CreateShipment
  <2>3. ~(ship'.collected > 0)
    BY <2>1
  <2> QED
    BY <2>1, <2>2, <2>3 DEF ShipInv, SettlementsRecorded, HandedOverIsSold
<1>6. CODExplained'
  <2>1. ship.settled = 0
    BY DEF CreateShipment, NoShipment
  <2>2. SettledColumn' = SettledColumn
    BY DEF CreateShipment, SettledColumn
  <2> QED
    BY <1>1, <1>2, <2>1, <2>2 DEF ShipInv, CODExplained, SettledColumn
<1> QED
  BY <1>3, <1>4, <1>5, <1>6 DEF ShipInv

LEMMA ChangeKeeps ==
    ASSUME ShipInv, NEW new \in ShipmentStatuses, NEW given \in 0 .. MaxAmount,
           ChangeShipmentStatus(new, given)
    PROVE  ShipInv'
<1>1. /\ ship \in Shipment /\ order \in Order
      /\ ship.settled <= ship.collected /\ ship.collected <= ship.expected
      /\ given \in Nat
  BY PInvSound, PaymentsAssumption DEF ShipInv, CODExplained
<1>2. PICK collected \in Collected(new, given) :
         ship' = [ship EXCEPT
              !.status = new,
              !.collected = collected,
              !.codStatus = IF new \in Homeward /\ ship.expected > 0 THEN "disputed"
                            ELSE CODStatusOf(ship.expected, collected, ship.settled)]
  BY DEF ChangeShipmentStatus
<1> DEFINE cod == IF new \in Homeward /\ ship.expected > 0 THEN "disputed"
                  ELSE CODStatusOf(ship.expected, collected, ship.settled)
<1>3. /\ collected \in Nat /\ ship.collected <= collected /\ collected <= ship.expected
      /\ new # "delivered" => collected = ship.collected
  BY <1>1 DEF Collected, Shipment
<1>4. /\ ship'.status = new /\ ship'.collected = collected /\ ship'.codStatus = cod
      /\ ship'.expected = ship.expected /\ ship'.settled = ship.settled
  BY <1>1, <1>2 DEF Shipment
<1>5. ship.collected = 0
  BY <1>1 DEF ShipInv, SettlementsRecorded, ChangeShipmentStatus, ShipmentTransitions, Shipment
<1>6. /\ cod \in {"not_applicable", "pending", "collected", "disputed",
                   "partially_settled", "settled"}
      /\ cod = "disputed" <=> \/ new \in Homeward /\ ship.expected > 0
                              \/ 0 < collected /\ collected < ship.expected
      /\ cod = "settled" => ship.expected > 0 /\ ship.settled = ship.expected
  BY <1>1, <1>3, CODStatusSays DEF Shipment
<1> HIDE DEF cod
<1>7. ship' \in Shipment
  BY <1>1, <1>2, <1>3, <1>6 DEF Shipment, cod
<1>8. CODStatusHonest'
  <2>1. ship.settled = 0
    BY <1>1, <1>5 DEF Shipment
  <2> QED
    BY <1>1, <1>4, <1>6, <2>1 DEF CODStatusHonest, Homeward, Shipment
<1>9. HandedOverIsSold'
  <2>1. new \in Outward => order'.status = "completed"
    BY <1>1 DEF ChangeShipmentStatus, Fulfilled, Order
  <2>2. order.status = "completed" => order'.status = "completed"
    BY <1>1 DEF ChangeShipmentStatus, Fulfilled, Order
  <2>3. new \notin Outward /\ new \notin {"none", "draft", "ready", "cancelled"} =>
           ship.status \notin {"none", "draft", "ready", "cancelled"}
    BY <1>1 DEF ChangeShipmentStatus, ShipmentTransitions, Outward, Shipment, ShipmentStatuses
  <2> QED
    BY <1>4, <2>1, <2>2, <2>3 DEF ShipInv, HandedOverIsSold
<1>10. PInv'
  <2>1. txn' = txn /\ \/ order' = order
                       \/ order' = [order EXCEPT !.status = "completed"]
    BY DEF ChangeShipmentStatus, Fulfilled
  <2>2. order' \in Order /\ PaidFits(order', txn') /\ StatusFits(order', txn')
    BY <1>1, <2>1 DEF ShipInv, PInv, CacheMatchesLedger, StatusSaysPaid,
       Order, PaidFits, StatusFits, Payable, Statuses, Reserving, Editable
  <2> QED
    BY <2>1, <2>2 DEF ShipInv, PInv, PayTypeOK, RefundsWithinPayment,
       CacheMatchesLedger, StatusSaysPaid
<1>11. CODExplained'
  <2>1. SettledColumn' = SettledColumn
    BY DEF ChangeShipmentStatus, SettledColumn
  <2> QED
    BY <1>1, <1>3, <1>4, <2>1 DEF ShipInv, CODExplained, SettledColumn, Shipment
<1>12. SettlementsRecorded'
  BY <1>3, <1>4, <1>5 DEF ShipInv, SettlementsRecorded, ChangeShipmentStatus
<1> QED
  BY <1>7, <1>8, <1>9, <1>10, <1>11, <1>12 DEF ShipInv

LEMMA SettleKeeps ==
    ASSUME ShipInv, NEW p \in Slots, NEW a \in Amounts, SettleCOD(p, a)
    PROVE  ShipInv'
<1> DEFINE new == [status |-> "completed", amount |-> a, refunded |-> 0, reconciled |-> TRUE]
           only == [q \in Slots |-> IF q = p THEN a ELSE 0]
<1>1. /\ IsFiniteSet(Slots) /\ MaxAmount \in Nat /\ a \in Nat /\ a \in 0 .. MaxAmount
      /\ 0 \in 0 .. MaxAmount
  BY PaymentsAssumption DEF Amounts
<1>2. PInv /\ Sound(txn) /\ order \in Order /\ PaidFits(order, txn)
  BY PInvSound DEF ShipInv, PInv, CacheMatchesLedger
<1>3. /\ ship \in Shipment /\ ship.status = "delivered"
      /\ ship.settled <= ship.collected /\ ship.collected <= ship.expected
      /\ a <= ship.collected - ship.settled
  BY DEF ShipInv, CODExplained, SettleCOD
<1>4. txn[p].status = "none" /\ p \notin codPayments
  BY DEF SettleCOD, ShipInv, SettlementsRecorded
<1>5. txn[p].refunded = 0 /\ MoneyIn(txn[p]) = 0
  BY <1>2, <1>4 DEF Sound, WithinPayment, Counts, MoneyIn
<1>6. txn' = [txn EXCEPT ![p] = new]
  <2> DEFINE plain == NewPayment("completed", a)
             made == [plain EXCEPT !.reconciled = TRUE]
  <2>1. plain = [status |-> "completed", amount |-> a, refunded |-> 0, reconciled |-> FALSE]
    BY DEF NewPayment
  <2>2. txn' = [txn EXCEPT ![p] = made]
    BY DEF SettleCOD
  <2> HIDE DEF plain
  <2>3. plain \in Payment
    BY <1>1, <2>1 DEF Payment
  <2>4. /\ made \in Payment /\ made.status = plain.status /\ made.amount = plain.amount
        /\ made.refunded = plain.refunded /\ made.reconciled = TRUE
    BY <2>3 DEF Payment
  <2>5. plain.status = "completed" /\ plain.amount = a /\ plain.refunded = 0
    BY <2>1
  <2> HIDE DEF made
  <2>6. made = new
    BY <2>4, <2>5 DEF Payment
  <2> QED
    BY <2>2, <2>6
<1>7. new \in Payment /\ WithinPayment(new) /\ MoneyIn(new) = a /\ new.refunded = 0
  BY <1>1 DEF Payment, WithinPayment, Counts, MoneyIn
<1> HIDE DEF new
<1>8. /\ Sound(txn') /\ Incoming(txn') = Incoming(txn) + a
      /\ Outgoing(txn') = Outgoing(txn) + 0
  <2>1. MoneyIn(new) = MoneyIn(txn[p]) + a /\ new.refunded = txn[p].refunded + 0
    BY <1>1, <1>5, <1>7
  <2> QED
    BY <1>1, <1>2, <1>6, <1>7, <2>1, OneRowStep
<1>9. PInv'
  <2>1. Incoming(txn) \in Nat /\ Outgoing(txn) \in Nat
    BY <1>2, SoundSums
  <2>2. a <= OrderDue
    BY DEF SettleCOD
  <2>3. Incoming(txn') - Outgoing(txn') <= Payable(order)
    BY <1>1, <1>2, <1>8, <2>1, <2>2 DEF OrderDue, Larger, PaidFits, Amounts, Payable, Order
  <2> QED
    BY <1>2, <1>8, <2>3, SyncedStep DEF SettleCOD
<1>10. /\ ship'.status = "delivered" /\ ship'.expected = ship.expected
       /\ ship'.collected = ship.collected /\ ship'.settled = ship.settled + a
       /\ ship'.codStatus = CODStatusOf(ship.expected, ship.collected, ship.settled + a)
       /\ ship' = [ship EXCEPT !.settled = ship.settled + a,
                     !.codStatus = CODStatusOf(ship.expected, ship.collected, ship.settled + a)]
  BY <1>3 DEF SettleCOD, Shipment
<1>11. /\ ship.settled + a \in Nat /\ ship.settled + a <= ship.collected
       /\ ship.expected \in Nat /\ ship.collected \in Nat
  BY <1>1, <1>3 DEF Shipment
<1> DEFINE cod == CODStatusOf(ship.expected, ship.collected, ship.settled + a)
<1>12. /\ cod \in {"not_applicable", "pending", "collected", "disputed",
                    "partially_settled", "settled"}
       /\ cod = "disputed" <=> 0 < ship.collected /\ ship.collected < ship.expected
       /\ cod = "settled" => /\ ship.expected > 0
                             /\ ship.settled + a = ship.expected
  BY <1>3, <1>11, CODStatusSays
<1> HIDE DEF cod
<1>13. ship' \in Shipment
  BY <1>3, <1>10, <1>11, <1>12 DEF Shipment, cod
<1>14. CODStatusHonest'
  BY <1>10, <1>12 DEF CODStatusHonest, Homeward, cod
<1>15. order'.status = order.status
  BY <1>2 DEF SettleCOD, Synced, Order
<1>16. HandedOverIsSold'
  BY <1>3, <1>10, <1>15 DEF ShipInv, HandedOverIsSold
<1>17. SettlementsRecorded'
  <2>1. codPayments' = codPayments \cup {p}
    BY DEF SettleCOD
  <2>2. txn'[p].status = "completed" /\ \A q \in Slots \ {p} : txn'[q] = txn[q]
    BY <1>2, <1>6 DEF Sound, new
  <2> QED
    BY <1>10, <2>1, <2>2 DEF ShipInv, SettlementsRecorded
<1>18. CODExplained'
  <2>1. SettledColumn \in [Slots -> 0 .. MaxAmount] /\ (SettledColumn \in [Slots -> 0 .. MaxAmount])'
    BY <1>2, <1>9, SettledColumnType, PTL
  <2>2. only \in [Slots -> 0 .. MaxAmount] /\ Total(only, MaxAmount) = a
    BY <1>1, TotalSingle
  <2>3. codPayments' = codPayments \cup {p}
    BY DEF SettleCOD
  <2>4. txn'[p].amount = a /\ \A q \in Slots \ {p} : txn'[q] = txn[q]
    BY <1>2, <1>6 DEF Sound, new
  <2>5. \A q \in Slots : SettledColumn'[q] = SettledColumn[q] + only[q]
    <3>1. ASSUME NEW q \in Slots, q = p
          PROVE  SettledColumn'[q] = SettledColumn[q] + only[q]
      <4>1. SettledColumn'[q] = a /\ SettledColumn[q] = 0 /\ only[q] = a
        BY <1>4, <2>3, <2>4, <3>1 DEF SettledColumn
      <4> QED
        BY <1>1, <4>1
    <3>2. ASSUME NEW q \in Slots, q # p
          PROVE  SettledColumn'[q] = SettledColumn[q] + only[q]
      <4>1. SettledColumn'[q] = SettledColumn[q] /\ only[q] = 0
        BY <2>3, <2>4, <3>2 DEF SettledColumn
      <4>2. SettledColumn[q] \in Nat
        BY <1>1, <2>1
      <4> QED
        BY <4>1, <4>2
    <3> QED
      BY <3>1, <3>2
  <2> HIDE DEF only
  <2>6. Total(SettledColumn', MaxAmount) = Total(SettledColumn, MaxAmount) + a
    BY <1>1, <2>1, <2>2, <2>5, TotalAdds
  <2>7. ship.settled = Total(SettledColumn, MaxAmount)
    BY DEF ShipInv, CODExplained, SettledColumn
  <2> QED
    BY <1>3, <1>10, <1>11, <2>6, <2>7 DEF CODExplained, SettledColumn
<1> QED
  BY <1>9, <1>13, <1>14, <1>16, <1>17, <1>18 DEF ShipInv

-----------------------------------------------------------------------------
(* The invariant of the shipment *)

LEMMA ShipInitInv == ShipInit => ShipInv
<1> SUFFICES ASSUME ShipInit PROVE ShipInv
  OBVIOUS
<1>1. PInv
  BY PayInitPInv DEF ShipInit
<1>2. /\ ship = [status |-> "none", expected |-> 0, collected |-> 0, settled |-> 0,
                 codStatus |-> "not_applicable"]
      /\ codPayments = {}
  BY DEF ShipInit, NoShipment
<1>3. ship \in Shipment /\ HandedOverIsSold /\ CODStatusHonest
  BY <1>2 DEF Shipment, ShipmentStatuses, ShipmentTransitions, HandedOverIsSold,
              CODStatusHonest, Homeward
<1>4. SettlementsRecorded
  BY <1>2 DEF SettlementsRecorded
<1>5. Total(SettledColumn, MaxAmount) = 0
  <2>1. UnitsOf(SettledColumn, MaxAmount) = {}
    BY <1>2, PaymentsAssumption DEF UnitsOf, SettledColumn
  <2> QED
    BY <2>1, FS_EmptySet DEF Total
<1>6. CODExplained
  BY <1>2, <1>5 DEF CODExplained, SettledColumn
<1> QED
  BY <1>1, <1>3, <1>4, <1>6 DEF ShipInv

LEMMA ShipNextInv == ShipInv /\ [ShipNext]_shipVars => ShipInv'
<1> SUFFICES ASSUME ShipInv, [ShipNext]_shipVars PROVE ShipInv'
  OBVIOUS
<1>1. CASE Ship
  BY <1>1, CreateKeeps DEF Ship
<1>2. CASE Track
  BY <1>2, ChangeKeeps DEF Track
<1>3. CASE Settle
  BY <1>3, SettleKeeps DEF Settle
<1>4. CASE PayNext /\ UNCHANGED <<ship, codPayments>>
  BY <1>4, PaymentsKeepShipment
<1>5. CASE UNCHANGED shipVars
  BY <1>5, PaymentsKeepShipment DEF shipVars, payVars
<1> QED
  BY <1>1, <1>2, <1>3, <1>4, <1>5 DEF ShipNext

-----------------------------------------------------------------------------
(* With the courier's messages *)

Failures == {m \in receipts : m.status = "failed"}

HookInv ==
    /\ ShipInv
    /\ IsFiniteSet(receipts)
    /\ attempts \in Nat
    /\ AppliedOnce

LEMMA WebhookKeeps ==
    ASSUME HookInv, NEW m \in Messages, Webhook(m)
    PROVE  HookInv'
<1>1. ShipInv'
  <2>1. CASE UNCHANGED shipVars
    BY <2>1, ShipNextInv DEF HookInv
  <2>2. CASE ChangeShipmentStatus(m.status, m.cod)
    <3>1. m.cod \in 0 .. MaxAmount
      BY DEF Messages
    <3>2. m.status \in ShipmentStatuses
      BY <2>2 DEF HookInv, ShipInv, Shipment, ChangeShipmentStatus,
                  ShipmentStatuses, ShipmentTransitions
    <3> QED
      BY <2>2, <3>1, <3>2, ChangeKeeps DEF HookInv
  <2> QED
    BY <2>1, <2>2 DEF Webhook
<1>2. IsFiniteSet(receipts') /\ m \notin receipts /\ receipts' = receipts \cup {m}
  BY FS_AddElement DEF HookInv, Webhook
<1>3. IsFiniteSet(Failures) /\ Cardinality(Failures) \in Nat /\ attempts <= Cardinality(Failures)
  BY FS_Subset, FS_CardinalityType DEF HookInv, AppliedOnce, Failures
<1>4. CASE m.status = "failed"
  <2>1. Failures' = Failures \cup {m} /\ m \notin Failures
    BY <1>2, <1>4 DEF Failures
  <2>2. Cardinality(Failures') = Cardinality(Failures) + 1
    BY <1>3, <2>1, FS_AddElement
  <2>3. attempts' \in Nat /\ attempts' <= attempts + 1
    BY DEF Webhook, HookInv
  <2>4. attempts' <= Cardinality(Failures')
    BY <1>3, <2>2, <2>3 DEF HookInv
  <2> QED
    BY <1>1, <1>2, <2>3, <2>4 DEF HookInv, AppliedOnce, Failures
<1>5. CASE m.status # "failed"
  <2>1. Failures' = Failures
    BY <1>2, <1>5 DEF Failures
  <2>2. attempts' = attempts
    BY <1>5 DEF Webhook
  <2> QED
    BY <1>1, <1>2, <1>3, <2>1, <2>2 DEF HookInv, AppliedOnce, Failures
<1> QED
  BY <1>4, <1>5

LEMMA HookNextInv == HookInv /\ [HookNext]_hookVars => HookInv'
<1> SUFFICES ASSUME HookInv, [HookNext]_hookVars PROVE HookInv'
  OBVIOUS
<1>1. ASSUME NEW m \in Messages, Webhook(m) PROVE HookInv'
  BY <1>1, WebhookKeeps
<1>2. CASE [ShipNext]_shipVars /\ UNCHANGED <<receipts, attempts>>
  BY <1>2, ShipNextInv DEF HookInv, AppliedOnce
<1> QED
  BY <1>1, <1>2 DEF HookNext, hookVars, shipVars

\* Everything ShipInv says of an order, its payments and its shipment holds
\* whichever services run and whatever the courier sends (shipping/services.py,
\* integrations/views.py).
THEOREM ShippingInvariant == HookSpec => []HookInv
<1>1. HookInit => HookInv
  <2> SUFFICES ASSUME HookInit PROVE HookInv
    OBVIOUS
  <2>1. ShipInv
    BY ShipInitInv DEF HookInit
  <2>2. receipts = {} /\ attempts = 0
    BY DEF HookInit
  <2>3. {m \in receipts : m.status = "failed"} = {}
    BY <2>2
  <2> QED
    BY <2>1, <2>2, <2>3, FS_EmptySet DEF HookInv, AppliedOnce
<1> QED
  BY <1>1, HookNextInv, PTL DEF HookSpec

\* A parcel that has left the shop belongs to a completed order, whatever the
\* courier reports and however late (_complete_sales_fulfillment refuses a
\* cancelled order).
THEOREM NothingShippedUnsold == HookSpec => []HandedOverIsSold
<1>1. HookInv => HandedOverIsSold
  BY DEF HookInv, ShipInv
<1> QED
  BY <1>1, ShippingInvariant, PTL

\* The settled amount of a shipment is the sum of the payments the settlements
\* made, within what was collected, for any amounts (post_cod_settlement).
THEOREM CODMoneyExplained == HookSpec => []CODExplained
<1>1. HookInv => CODExplained
  BY DEF HookInv, ShipInv
<1> QED
  BY <1>1, ShippingInvariant, PTL

\* The COD status says DISPUTED for short or returning money and SETTLED for
\* all of it (_shipment_cod_status and the override of change_shipment_status).
THEOREM CODStatusIsHonest == HookSpec => []CODStatusHonest
<1>1. HookInv => CODStatusHonest
  BY DEF HookInv, ShipInv
<1> QED
  BY <1>1, ShippingInvariant, PTL

\* amount_paid still equals the net of the ledger when couriers settle into it
\* and orders are completed by a hand-over.
THEOREM LedgerSurvivesSettlements == HookSpec => []CacheMatchesLedger
<1>1. HookInv => CacheMatchesLedger
  BY DEF HookInv, ShipInv, PInv
<1> QED
  BY <1>1, ShippingInvariant, PTL

\* However often messages arrive, each failed attempt counted has a receipt of
\* its own (the digest lookup of courier_webhook).
THEOREM MessagesApplyOnce == HookSpec => []AppliedOnce
<1>1. HookInv => AppliedOnce
  BY DEF HookInv
<1> QED
  BY <1>1, ShippingInvariant, PTL

-----------------------------------------------------------------------------
(* Returns: what they claim, and what the returns report adds up from them. *)

ReturnStatuses == Consuming \cup {"none", "rejected", "cancelled"}
ReturnLine == [qty : 0 .. MaxUnits, credit : 0 .. MaxAmount, restock : BOOLEAN]
ReturnRow == [status : ReturnStatuses, lines : [Items -> ReturnLine]]

\* A line within what was sold of its item.
LinesFit(lines) ==
    \A i \in Items : lines[i].qty <= Sold[i] /\ lines[i].credit <= LineTotal[i]

ReturnTypes ==
    /\ returns \in [Returns -> ReturnRow]
    /\ \A r \in Returns : LinesFit(returns[r].lines)

\* The order has its columns, and its totals are amounts.
OrderShape ==
    /\ {"status", "total", "credit", "paid", "payStatus"} \subseteq DOMAIN order
    /\ order.total \in Nat /\ order.credit \in Nat

\* The credit of the completed returns, item by item.
CreditPerItem == Total([i \in Items |-> ClaimedCredit(i, {"completed"})], MaxAmount)

ReturnInv ==
    /\ ReturnTypes
    /\ OrderShape
    /\ back \in [Items -> 0 .. MaxUnits]
    /\ \A i \in Items : /\ ClaimedQuantity(i, Consuming) <= Sold[i]
                        /\ ClaimedCredit(i, Consuming) <= LineTotal[i]
                        /\ back[i] <= ClaimedQuantity(i, {"completed"})
    /\ order.credit = CreditPerItem
    /\ AfterSalesAgree

\* What one return claims of an item.
UnitsIn(row, i, s)  == IF row.status \in s THEN row.lines[i].qty ELSE 0
CreditIn(row, i, s) == IF row.status \in s THEN row.lines[i].credit ELSE 0

UnitColumn(i, s)   == [r \in Returns |-> UnitsIn(returns[r], i, s)]
CreditColumn(i, s) == [r \in Returns |-> CreditIn(returns[r], i, s)]

\* The columns and their sums.
LEMMA ReturnColumns ==
    ASSUME ReturnTypes, NEW i \in Items, NEW s
    PROVE  /\ UnitColumn(i, s) \in [Returns -> 0 .. MaxUnits]
           /\ CreditColumn(i, s) \in [Returns -> 0 .. MaxAmount]
           /\ ClaimedQuantity(i, s) = Total(UnitColumn(i, s), MaxUnits)
           /\ ClaimedCredit(i, s) = Total(CreditColumn(i, s), MaxAmount)
           /\ ClaimedQuantity(i, s) \in Nat /\ ClaimedCredit(i, s) \in Nat
<1>1. IsFiniteSet(Returns) /\ MaxUnits \in Nat /\ MaxAmount \in Nat
  BY ReturnsAssumption, PaymentsAssumption
<1>2. \A r \in Returns : /\ returns[r].lines[i].qty \in 0 .. MaxUnits
                         /\ returns[r].lines[i].credit \in 0 .. MaxAmount
  BY DEF ReturnTypes, ReturnRow, ReturnLine
<1>3. /\ UnitColumn(i, s) \in [Returns -> 0 .. MaxUnits]
      /\ CreditColumn(i, s) \in [Returns -> 0 .. MaxAmount]
  BY <1>1, <1>2 DEF UnitColumn, CreditColumn, UnitsIn, CreditIn
<1>4. /\ ClaimedQuantity(i, s) = Total(UnitColumn(i, s), MaxUnits)
      /\ ClaimedCredit(i, s) = Total(CreditColumn(i, s), MaxAmount)
  BY DEF ClaimedQuantity, ClaimedCredit, UnitColumn, CreditColumn, UnitsIn, CreditIn, Claims
<1> QED
  BY <1>1, <1>3, <1>4, TotalNat

\* A step that writes the row of one return changes what all claim by that.
LEMMA ReturnChanges ==
    ASSUME ReturnTypes, ReturnTypes', NEW r \in Returns, NEW i \in Items, NEW s,
           \A q \in Returns : q # r => returns'[q] = returns[q]
    PROVE  /\ ClaimedQuantity(i, s)' =
                 ClaimedQuantity(i, s) - UnitsIn(returns[r], i, s) + UnitsIn(returns'[r], i, s)
           /\ ClaimedCredit(i, s)' =
                 ClaimedCredit(i, s) - CreditIn(returns[r], i, s) + CreditIn(returns'[r], i, s)
<1>1. IsFiniteSet(Returns) /\ MaxUnits \in Nat /\ MaxAmount \in Nat
  BY ReturnsAssumption, PaymentsAssumption
<1> DEFINE f == UnitColumn(i, s)
           g == [q \in Returns |-> UnitsIn(returns'[q], i, s)]
           c == CreditColumn(i, s)
           d == [q \in Returns |-> CreditIn(returns'[q], i, s)]
<1>2. /\ f \in [Returns -> 0 .. MaxUnits] /\ c \in [Returns -> 0 .. MaxAmount]
      /\ ClaimedQuantity(i, s) = Total(f, MaxUnits) /\ ClaimedCredit(i, s) = Total(c, MaxAmount)
  BY ReturnColumns
<1>3. \A q \in Returns : /\ returns'[q].lines[i].qty \in 0 .. MaxUnits
                         /\ returns'[q].lines[i].credit \in 0 .. MaxAmount
  BY DEF ReturnTypes, ReturnRow, ReturnLine
<1>4. g \in [Returns -> 0 .. MaxUnits] /\ d \in [Returns -> 0 .. MaxAmount]
  BY <1>1, <1>3 DEF UnitsIn, CreditIn
<1>5. ClaimedQuantity(i, s)' = Total(g, MaxUnits) /\ ClaimedCredit(i, s)' = Total(d, MaxAmount)
  BY DEF ClaimedQuantity, ClaimedCredit, UnitsIn, CreditIn, Claims
<1>6. \A q \in Returns : q # r => f[q] = g[q]
  BY DEF UnitColumn
<1>a. \A q \in Returns : q # r => c[q] = d[q]
  BY DEF CreditColumn
<1>7. /\ f[r] = UnitsIn(returns[r], i, s) /\ g[r] = UnitsIn(returns'[r], i, s)
      /\ c[r] = CreditIn(returns[r], i, s) /\ d[r] = CreditIn(returns'[r], i, s)
  BY DEF UnitColumn, CreditColumn
<1> HIDE DEF f, g, c, d
<1>8. Total(g, MaxUnits) = Total(f, MaxUnits) - f[r] + g[r]
  <2>1. f \in [Returns -> 0 .. MaxUnits] /\ g \in [Returns -> 0 .. MaxUnits]
    BY <1>2, <1>4
  <2> QED
    BY <1>1, <1>6, <2>1, TotalRowChanges
<1>9. Total(d, MaxAmount) = Total(c, MaxAmount) - c[r] + d[r]
  <2>1. c \in [Returns -> 0 .. MaxAmount] /\ d \in [Returns -> 0 .. MaxAmount]
    BY <1>2, <1>4
  <2>2. IsFiniteSet(Returns) /\ MaxAmount \in Nat
    BY <1>1
  <2> QED
    BY <1>a, <2>1, <2>2, TotalRowChanges
<1> QED
  BY <1>2, <1>5, <1>7, <1>8, <1>9

\* Fewer statuses claim no more.
LEMMA CompletedConsumes ==
    ASSUME ReturnTypes, NEW i \in Items
    PROVE  /\ ClaimedQuantity(i, {"completed"}) <= ClaimedQuantity(i, Consuming)
           /\ ClaimedCredit(i, {"completed"}) <= ClaimedCredit(i, Consuming)
<1> DEFINE f == UnitColumn(i, {"completed"})
           g == UnitColumn(i, Consuming)
           c == CreditColumn(i, {"completed"})
           d == CreditColumn(i, Consuming)
<1>1. IsFiniteSet(Returns) /\ MaxUnits \in Nat /\ MaxAmount \in Nat
  BY ReturnsAssumption, PaymentsAssumption
<1>2. /\ f \in [Returns -> 0 .. MaxUnits] /\ g \in [Returns -> 0 .. MaxUnits]
      /\ c \in [Returns -> 0 .. MaxAmount] /\ d \in [Returns -> 0 .. MaxAmount]
  BY ReturnColumns
<1>3. ASSUME NEW r \in Returns PROVE f[r] <= g[r] /\ c[r] <= d[r]
  <2>1. returns[r].lines[i].qty \in Nat /\ returns[r].lines[i].credit \in Nat
    BY <1>1 DEF ReturnTypes, ReturnRow, ReturnLine
  <2> QED
    BY <2>1 DEF UnitColumn, CreditColumn, UnitsIn, CreditIn, Consuming
<1> HIDE DEF f, g, c, d
<1>4. Total(f, MaxUnits) <= Total(g, MaxUnits)
  BY <1>1, <1>2, <1>3, TotalMonotone
<1>5. Total(c, MaxAmount) <= Total(d, MaxAmount)
  BY <1>1, <1>2, <1>3, TotalMonotone
<1> QED
  BY <1>4, <1>5, ReturnColumns DEF f, g, c, d

\* A return that is open, and those completed, claim no more than all of them.
LEMMA OpenBesideCompleted ==
    ASSUME ReturnTypes, NEW i \in Items, NEW r \in Returns,
           Claims(r, {"requested", "approved", "received"})
    PROVE  /\ ClaimedQuantity(i, {"completed"}) + returns[r].lines[i].qty
                 <= ClaimedQuantity(i, Consuming)
           /\ ClaimedCredit(i, {"completed"}) + returns[r].lines[i].credit
                 <= ClaimedCredit(i, Consuming)
<1> DEFINE m == returns[r].lines[i].qty
           n == returns[r].lines[i].credit
           u == UnitColumn(i, {"completed"})
           v == [q \in Returns |-> IF q = r THEN m ELSE u[q]]
           w == UnitColumn(i, Consuming)
           c == CreditColumn(i, {"completed"})
           f == [q \in Returns |-> IF q = r THEN n ELSE c[q]]
           d == CreditColumn(i, Consuming)
<1>1. IsFiniteSet(Returns) /\ MaxAmount \in Nat /\ n \in 0 .. MaxAmount
      /\ MaxUnits \in Nat /\ m \in 0 .. MaxUnits
  BY ReturnsAssumption, PaymentsAssumption DEF ReturnTypes, ReturnRow, ReturnLine
<1>2. c \in [Returns -> 0 .. MaxAmount] /\ d \in [Returns -> 0 .. MaxAmount]
      /\ u \in [Returns -> 0 .. MaxUnits] /\ w \in [Returns -> 0 .. MaxUnits]
  BY ReturnColumns
<1>3. f \in [Returns -> 0 .. MaxAmount] /\ f[r] = n /\ \A q \in Returns : q # r => c[q] = f[q]
  BY <1>1, <1>2
<1>a. v \in [Returns -> 0 .. MaxUnits] /\ v[r] = m /\ \A q \in Returns : q # r => u[q] = v[q]
  BY <1>1, <1>2
<1>4. c[r] = 0 /\ u[r] = 0
  BY DEF CreditColumn, CreditIn, UnitColumn, UnitsIn, Claims
<1>5. ASSUME NEW q \in Returns PROVE f[q] <= d[q] /\ v[q] <= w[q]
  <2>1. returns[q].lines[i].credit \in Nat /\ returns[q].lines[i].qty \in Nat
    BY <1>1 DEF ReturnTypes, ReturnRow, ReturnLine
  <2>2. f[q] <= d[q]
    BY <2>1 DEF CreditColumn, CreditIn, Claims, Consuming
  <2>3. v[q] <= w[q]
    BY <2>1 DEF UnitColumn, UnitsIn, Claims, Consuming
  <2> QED
    BY <2>2, <2>3
<1> HIDE DEF m, n, u, v, w, c, f, d
<1>6. Total(f, MaxAmount) = Total(c, MaxAmount) - c[r] + f[r] /\ Total(c, MaxAmount) \in Nat
  <2>1. IsFiniteSet(Returns) /\ MaxAmount \in Nat
    BY <1>1
  <2>2. c \in [Returns -> 0 .. MaxAmount]
    BY <1>2
  <2> QED
    BY <2>1, <2>2, <1>3, TotalRowChanges
<1>b. Total(v, MaxUnits) = Total(u, MaxUnits) - u[r] + v[r] /\ Total(u, MaxUnits) \in Nat
  <2>1. IsFiniteSet(Returns) /\ MaxUnits \in Nat
    BY <1>1
  <2>2. u \in [Returns -> 0 .. MaxUnits]
    BY <1>2
  <2> QED
    BY <2>1, <2>2, <1>a, TotalRowChanges
<1>7. Total(f, MaxAmount) <= Total(d, MaxAmount)
  BY <1>1, <1>2, <1>3, <1>5, TotalMonotone
<1>c. Total(v, MaxUnits) <= Total(w, MaxUnits)
  BY <1>1, <1>2, <1>a, <1>5, TotalMonotone
<1>8. Total(c, MaxAmount) + n <= Total(d, MaxAmount)
  BY <1>1, <1>3, <1>4, <1>6, <1>7
<1>d. Total(u, MaxUnits) + m <= Total(w, MaxUnits)
  BY <1>1, <1>a, <1>4, <1>b, <1>c
<1>9. Total(c, MaxAmount) = ClaimedCredit(i, {"completed"}) /\ Total(d, MaxAmount) = ClaimedCredit(i, Consuming)
  BY ReturnColumns DEF c, d
<1>e. Total(u, MaxUnits) = ClaimedQuantity(i, {"completed"}) /\ Total(w, MaxUnits) = ClaimedQuantity(i, Consuming)
  BY ReturnColumns DEF u, w
<1> QED
  BY <1>8, <1>9, <1>d, <1>e DEF m, n

\* Whatever is written to the ledger, an order that is synchronized keeps its totals.
LEMMA SyncKeepsTotals ==
    ASSUME NEW o, NEW t, {"status", "total", "credit", "paid", "payStatus"} \subseteq DOMAIN o
    PROVE  LET new == Synced(o, t) IN
           /\ {"status", "total", "credit", "paid", "payStatus"} \subseteq DOMAIN new
           /\ new.total = o.total /\ new.credit = o.credit /\ new.status = o.status
BY DEF Synced

\* What a line may carry is left of its item: the cap of its share only lowers it.
LEMMA CapWithinCreditable ==
    ASSUME NEW i \in Items, NEW q \in Nat, Creditable(i) \in Nat, Sold[i] # 0
    PROVE  LineCap(i, q) <= Creditable(i)
<1>1. Sold[i] \in Nat /\ LineTotal[i] \in Nat
  BY ReturnsAssumption, PaymentsAssumption
<1> DEFINE a == 2 * LineTotal[i] * q + Sold[i]
           b == 2 * Sold[i]
<1>2. a \in Int /\ b \in Nat /\ b # 0
  BY <1>1
<1> HIDE DEF a, b
<1>3. a \div b \in Int
  BY <1>2
<1>4. Smaller(Creditable(i), a \div b) <= Creditable(i)
  BY <1>3 DEF Smaller
<1> QED
  BY <1>4 DEF LineCap, a, b

\* A step that writes one return, of which no completed one, and leaves the order.
LEMMA OpenReturnStep ==
    ASSUME ReturnInv, ReturnTypes', NEW r \in Returns,
           \A q \in Returns : q # r => returns'[q] = returns[q],
           returns[r].status # "completed", returns'[r].status # "completed",
           UNCHANGED <<order, back>>,
           \A i \in Items : /\ ClaimedQuantity(i, Consuming)' <= Sold[i]
                           /\ ClaimedCredit(i, Consuming)' <= LineTotal[i]
    PROVE  ReturnInv'
<1>1. ASSUME NEW i \in Items
      PROVE  /\ ClaimedQuantity(i, {"completed"})' = ClaimedQuantity(i, {"completed"})
             /\ ClaimedCredit(i, {"completed"})' = ClaimedCredit(i, {"completed"})
  <2>1. ReturnTypes
    BY DEF ReturnInv
  <2>2. /\ UnitsIn(returns[r], i, {"completed"}) = 0 /\ UnitsIn(returns'[r], i, {"completed"}) = 0
        /\ CreditIn(returns[r], i, {"completed"}) = 0 /\ CreditIn(returns'[r], i, {"completed"}) = 0
    BY DEF UnitsIn, CreditIn
  <2>3. ClaimedQuantity(i, {"completed"}) \in Nat /\ ClaimedCredit(i, {"completed"}) \in Nat
    BY <2>1, ReturnColumns
  <2>4. /\ ClaimedQuantity(i, {"completed"})' = ClaimedQuantity(i, {"completed"}) - 0 + 0
        /\ ClaimedCredit(i, {"completed"})' = ClaimedCredit(i, {"completed"}) - 0 + 0
    BY <2>1, <2>2, ReturnChanges
  <2> QED
    BY <2>3, <2>4
<1>2. CreditPerItem' = CreditPerItem
  <2>1. [i \in Items |-> ClaimedCredit(i, {"completed"})]' = [i \in Items |-> ClaimedCredit(i, {"completed"})]
    BY <1>1
  <2> QED
    BY <2>1 DEF CreditPerItem
<1>3. RestockedUnits' = RestockedUnits /\ CompletedCredit' = CompletedCredit
  <2>1. \A q \in Returns :
           /\ (IF Claims(q, {"completed"}) THEN Restocked(returns[q].lines) ELSE 0)'
                 = (IF Claims(q, {"completed"}) THEN Restocked(returns[q].lines) ELSE 0)
           /\ (IF Claims(q, {"completed"}) THEN CreditOf(returns[q].lines) ELSE 0)'
                 = (IF Claims(q, {"completed"}) THEN CreditOf(returns[q].lines) ELSE 0)
    BY DEF Claims, Restocked, CreditOf
  <2> QED
    BY <2>1 DEF RestockedUnits, CompletedCredit
<1> QED
  BY <1>1, <1>2, <1>3 DEF ReturnInv, OrderShape, AfterSalesAgree

\* create_sales_return
LEMMA CreateKeepsClaims ==
    ASSUME ReturnInv, Create
    PROVE  ReturnInv'
<1>1. PICK r \in Returns, lines \in LineChoices : CreateSalesReturn(r, lines)
  BY DEF Create
<1>2. /\ returns[r].status = "none"
      /\ returns' = [returns EXCEPT ![r] = [status |-> "requested", lines |-> lines]]
      /\ UNCHANGED <<order, back>>
      /\ \A i \in Items : lines[i].qty > 0 =>
            /\ lines[i].qty <= Returnable(i)
            /\ lines[i].credit <= LineCap(i, lines[i].qty)
  BY <1>1 DEF CreateSalesReturn
<1>3. ReturnTypes /\ MaxUnits \in Nat /\ MaxAmount \in Nat
  BY ReturnsAssumption, PaymentsAssumption DEF ReturnInv
<1>4. ASSUME NEW i \in Items
      PROVE  /\ lines[i] \in ReturnLine
             /\ lines[i].qty <= Sold[i] /\ lines[i].credit <= LineTotal[i]
             /\ lines[i].qty \in Nat /\ lines[i].credit \in Nat
             /\ ~ (lines[i].qty > 0) => lines[i].qty = 0 /\ lines[i].credit = 0
  <2>1. lines[i] \in Lines(i)
    BY DEF LineChoices
  <2>2. Sold[i] \in 0 .. MaxUnits /\ LineTotal[i] \in 0 .. MaxAmount
    BY ReturnsAssumption
  <2>3. CASE lines[i] = NotReturned
    BY <1>3, <2>2, <2>3 DEF NotReturned, ReturnLine
  <2>4. CASE lines[i] \in [qty : 1 .. Sold[i], credit : 0 .. LineTotal[i], restock : BOOLEAN]
    BY <1>3, <2>2, <2>4 DEF ReturnLine
  <2> QED
    BY <2>1, <2>3, <2>4 DEF Lines
<1>5. lines \in [Items -> ReturnLine]
  BY <1>4 DEF LineChoices
<1>6. ReturnTypes'
  <2>1. LinesFit(lines)
    BY <1>4 DEF LinesFit
  <2>2. [status |-> "requested", lines |-> lines] \in ReturnRow
    BY <1>5 DEF ReturnRow, ReturnStatuses, Consuming
  <2> QED
    BY <1>2, <1>3, <2>1, <2>2 DEF ReturnTypes
<1>7. /\ returns'[r] = [status |-> "requested", lines |-> lines]
      /\ \A q \in Returns : q # r => returns'[q] = returns[q]
  BY <1>2, <1>3 DEF ReturnTypes
<1>8. ASSUME NEW i \in Items
      PROVE  /\ ClaimedQuantity(i, Consuming)' <= Sold[i]
             /\ ClaimedCredit(i, Consuming)' <= LineTotal[i]
  <2>1. /\ UnitsIn(returns[r], i, Consuming) = 0 /\ UnitsIn(returns'[r], i, Consuming) = lines[i].qty
        /\ CreditIn(returns[r], i, Consuming) = 0 /\ CreditIn(returns'[r], i, Consuming) = lines[i].credit
    BY <1>2, <1>7 DEF UnitsIn, CreditIn, Consuming
  <2>2. /\ ClaimedQuantity(i, Consuming) \in Nat /\ ClaimedCredit(i, Consuming) \in Nat
        /\ ClaimedQuantity(i, Consuming) <= Sold[i] /\ ClaimedCredit(i, Consuming) <= LineTotal[i]
    BY <1>3, ReturnColumns DEF ReturnInv
  <2>3. /\ ClaimedQuantity(i, Consuming)' = ClaimedQuantity(i, Consuming) - 0 + lines[i].qty
        /\ ClaimedCredit(i, Consuming)' = ClaimedCredit(i, Consuming) - 0 + lines[i].credit
    BY <1>3, <1>6, <1>7, <2>1, ReturnChanges
  <2>4. Sold[i] \in Nat /\ LineTotal[i] \in Nat
    BY ReturnsAssumption, <1>3
  <2>5. CASE lines[i].qty > 0
    <3>1. lines[i].qty <= Sold[i] - ClaimedQuantity(i, Consuming)
      BY <1>2, <2>2, <2>4, <2>5 DEF Returnable, Larger
    <3>2. Creditable(i) = LineTotal[i] - ClaimedCredit(i, Consuming) /\ Creditable(i) \in Nat
      BY <2>2, <2>4 DEF Creditable, Larger
    <3>3. Sold[i] # 0
      BY <1>4, <2>4, <2>5
    <3>4. LineCap(i, lines[i].qty) <= Creditable(i)
      BY <1>4, <3>2, <3>3, CapWithinCreditable
    <3>5. lines[i].credit <= LineCap(i, lines[i].qty)
      BY <1>2, <2>5
    <3>6. LineCap(i, lines[i].qty) \in Int
      <4> DEFINE a == 2 * LineTotal[i] * lines[i].qty + Sold[i]
                 b == 2 * Sold[i]
      <4>1. a \in Int /\ b \in Nat /\ b # 0
        BY <1>4, <2>4, <3>3
      <4> HIDE DEF a, b
      <4>2. a \div b \in Int
        BY <4>1
      <4>3. Smaller(Creditable(i), a \div b) \in Int
        BY <3>2, <4>2 DEF Smaller
      <4> QED
        BY <4>3 DEF LineCap, a, b
    <3>7. lines[i].credit <= LineTotal[i] - ClaimedCredit(i, Consuming)
      BY <1>4, <2>2, <2>4, <3>2, <3>4, <3>5, <3>6
    <3> QED
      BY <1>4, <2>2, <2>3, <2>4, <3>1, <3>7
  <2>6. CASE ~ (lines[i].qty > 0)
    BY <1>4, <2>2, <2>3, <2>6
  <2> QED
    BY <2>5, <2>6
<1> QED
  BY <1>2, <1>6, <1>7, <1>8, OpenReturnStep

\* Of the statuses a return may leave, none is completed, and none it may enter is.
LEMMA ReturnMoves ==
    ASSUME NEW old \in ReturnStatuses, NEW new \in ReturnTransitions[old]
    PROVE  /\ old \in {"requested", "approved", "received"}
           /\ new \in {"approved", "received", "rejected", "cancelled"}
BY DEF ReturnStatuses, ReturnTransitions, Consuming

\* approve, receive, reject and cancel
LEMMA AdvanceKeepsClaims ==
    ASSUME ReturnInv, Advance
    PROVE  ReturnInv'
<1>1. PICK r \in Returns, new \in Consuming \cup {"rejected", "cancelled"} : TransitionSalesReturn(r, new)
  BY DEF Advance
<1>2. /\ new \in ReturnTransitions[returns[r].status]
      /\ returns' = [returns EXCEPT ![r].status = new]
      /\ UNCHANGED <<order, back>>
  BY <1>1 DEF TransitionSalesReturn
<1>3. ReturnTypes /\ returns[r] \in ReturnRow /\ returns[r].status \in ReturnStatuses
  BY DEF ReturnInv, ReturnTypes, ReturnRow
<1>4. /\ returns[r].status \in {"requested", "approved", "received"}
      /\ new \in {"approved", "received", "rejected", "cancelled"}
  BY <1>2, <1>3, ReturnMoves
<1>5. /\ returns'[r].status = new /\ returns'[r].lines = returns[r].lines
      /\ returns'[r] \in ReturnRow
      /\ \A q \in Returns : q # r => returns'[q] = returns[q]
  BY <1>2, <1>3, <1>4 DEF ReturnTypes, ReturnRow, ReturnStatuses, Consuming
<1>6. ReturnTypes'
  <2>1. returns' \in [Returns -> ReturnRow]
    BY <1>2, <1>3, <1>5 DEF ReturnTypes
  <2>2. \A q \in Returns : returns'[q].lines = returns[q].lines
    BY <1>5
  <2> QED
    BY <1>3, <2>1, <2>2 DEF ReturnTypes
<1>7. ASSUME NEW i \in Items
      PROVE  /\ ClaimedQuantity(i, Consuming)' <= Sold[i]
             /\ ClaimedCredit(i, Consuming)' <= LineTotal[i]
  <2>1. returns[r].lines[i].qty \in Nat /\ returns[r].lines[i].credit \in Nat
    BY <1>3, ReturnsAssumption, PaymentsAssumption DEF ReturnRow, ReturnLine
  <2>2. /\ UnitsIn(returns[r], i, Consuming) = returns[r].lines[i].qty
        /\ UnitsIn(returns'[r], i, Consuming) \in 0 .. returns[r].lines[i].qty
        /\ CreditIn(returns[r], i, Consuming) = returns[r].lines[i].credit
        /\ CreditIn(returns'[r], i, Consuming) \in 0 .. returns[r].lines[i].credit
    BY <1>4, <1>5, <2>1 DEF UnitsIn, CreditIn, Consuming
  <2>3. /\ ClaimedQuantity(i, Consuming) \in Nat /\ ClaimedCredit(i, Consuming) \in Nat
        /\ ClaimedQuantity(i, Consuming) <= Sold[i] /\ ClaimedCredit(i, Consuming) <= LineTotal[i]
    BY <1>3, ReturnColumns DEF ReturnInv
  <2>4. /\ ClaimedQuantity(i, Consuming)' = ClaimedQuantity(i, Consuming)
               - UnitsIn(returns[r], i, Consuming) + UnitsIn(returns'[r], i, Consuming)
        /\ ClaimedCredit(i, Consuming)' = ClaimedCredit(i, Consuming)
               - CreditIn(returns[r], i, Consuming) + CreditIn(returns'[r], i, Consuming)
    BY <1>3, <1>5, <1>6, ReturnChanges
  <2>5. Sold[i] \in Nat /\ LineTotal[i] \in Nat
    BY ReturnsAssumption, PaymentsAssumption
  <2> QED
    BY <2>1, <2>2, <2>3, <2>4, <2>5
<1> QED
  BY <1>2, <1>4, <1>5, <1>6, <1>7, OpenReturnStep

\* What one return puts back and credits.
LEMMA LineSums ==
    ASSUME NEW lines \in [Items -> ReturnLine], LinesFit(lines)
    PROVE  /\ Restocked(lines) \in 0 .. Total(Sold, MaxUnits)
           /\ CreditOf(lines) \in 0 .. Total(LineTotal, MaxAmount)
           /\ Total(Sold, MaxUnits) \in Nat /\ Total(LineTotal, MaxAmount) \in Nat
           /\ [i \in Items |-> IF lines[i].restock THEN lines[i].qty ELSE 0] \in [Items -> 0 .. MaxUnits]
           /\ [i \in Items |-> lines[i].credit] \in [Items -> 0 .. MaxAmount]
<1> DEFINE f == [i \in Items |-> IF lines[i].restock THEN lines[i].qty ELSE 0]
           c == [i \in Items |-> lines[i].credit]
<1>1. IsFiniteSet(Items) /\ MaxUnits \in Nat /\ MaxAmount \in Nat
      /\ Sold \in [Items -> 0 .. MaxUnits] /\ LineTotal \in [Items -> 0 .. MaxAmount]
  BY ReturnsAssumption, PaymentsAssumption
<1>2. ASSUME NEW i \in Items
      PROVE  /\ f[i] \in 0 .. MaxUnits /\ f[i] <= Sold[i]
             /\ c[i] \in 0 .. MaxAmount /\ c[i] <= LineTotal[i]
  <2>1. /\ lines[i].qty \in 0 .. MaxUnits /\ lines[i].credit \in 0 .. MaxAmount
        /\ lines[i].qty <= Sold[i] /\ lines[i].credit <= LineTotal[i] /\ Sold[i] \in Nat
    BY <1>1 DEF ReturnLine, LinesFit
  <2> QED
    BY <1>1, <2>1
<1>3. f \in [Items -> 0 .. MaxUnits] /\ c \in [Items -> 0 .. MaxAmount]
  BY <1>2
<1>4. Restocked(lines) = Total(f, MaxUnits) /\ CreditOf(lines) = Total(c, MaxAmount)
  BY DEF Restocked, CreditOf
<1> HIDE DEF f, c
<1>5. Total(f, MaxUnits) \in Nat /\ Total(Sold, MaxUnits) \in Nat
      /\ Total(f, MaxUnits) <= Total(Sold, MaxUnits)
  BY <1>1, <1>2, <1>3, TotalNat, TotalMonotone
<1>6. Total(c, MaxAmount) \in Nat /\ Total(LineTotal, MaxAmount) \in Nat
      /\ Total(c, MaxAmount) <= Total(LineTotal, MaxAmount)
  BY <1>1, <1>2, <1>3, TotalNat, TotalMonotone
<1>7. Restocked(lines) \in 0 .. Total(Sold, MaxUnits) /\ CreditOf(lines) \in 0 .. Total(LineTotal, MaxAmount)
  BY <1>4, <1>5, <1>6
<1> QED
  BY <1>3, <1>5, <1>6, <1>7 DEF f, c

\* The columns of the returns report.
RestockColumn == [r \in Returns |-> IF Claims(r, {"completed"}) THEN Restocked(returns[r].lines) ELSE 0]
CreditedColumn == [r \in Returns |-> IF Claims(r, {"completed"}) THEN CreditOf(returns[r].lines) ELSE 0]

LEMMA ReportColumns ==
    ASSUME ReturnTypes
    PROVE  /\ RestockColumn \in [Returns -> 0 .. Total(Sold, MaxUnits)]
           /\ CreditedColumn \in [Returns -> 0 .. Total(LineTotal, MaxAmount)]
           /\ RestockedUnits = Total(RestockColumn, Total(Sold, MaxUnits))
           /\ CompletedCredit = Total(CreditedColumn, Total(LineTotal, MaxAmount))
<1>1. ASSUME NEW r \in Returns
      PROVE  /\ Restocked(returns[r].lines) \in 0 .. Total(Sold, MaxUnits)
             /\ CreditOf(returns[r].lines) \in 0 .. Total(LineTotal, MaxAmount)
             /\ Total(Sold, MaxUnits) \in Nat /\ Total(LineTotal, MaxAmount) \in Nat
  <2>1. returns[r].lines \in [Items -> ReturnLine] /\ LinesFit(returns[r].lines)
    BY DEF ReturnTypes, ReturnRow
  <2> QED
    BY <2>1, LineSums
<1>2. ASSUME NEW r \in Returns
      PROVE  /\ RestockColumn[r] \in 0 .. Total(Sold, MaxUnits)
             /\ CreditedColumn[r] \in 0 .. Total(LineTotal, MaxAmount)
  BY <1>1 DEF RestockColumn, CreditedColumn
<1> QED
  BY <1>2 DEF RestockColumn, CreditedColumn, RestockedUnits, CompletedCredit

\* complete_sales_return
LEMMA FinishKeepsClaims ==
    ASSUME ReturnInv, Finish
    PROVE  ReturnInv'
<1>1. PICK r \in Returns : CompleteReturn(r)
  BY DEF Finish
<1> DEFINE lines == returns[r].lines
           credit == CreditOf(lines)
           put == [i \in Items |-> IF lines[i].restock THEN lines[i].qty ELSE 0]
<1>2. /\ returns[r].status = "received"
      /\ returns' = [returns EXCEPT ![r].status = "completed"]
      /\ back' = [i \in Items |-> back[i] + put[i]]
      /\ order' = Synced(Credited(credit), txn')
  BY <1>1 DEF CompleteReturn, CompleteSalesReturn
<1>3. /\ ReturnTypes /\ OrderShape /\ back \in [Items -> 0 .. MaxUnits]
      /\ order.credit = CreditPerItem /\ AfterSalesAgree
      /\ returns[r] \in ReturnRow /\ lines \in [Items -> ReturnLine] /\ LinesFit(lines)
      /\ IsFiniteSet(Returns) /\ IsFiniteSet(Items) /\ MaxUnits \in Nat /\ MaxAmount \in Nat
  BY ReturnsAssumption, PaymentsAssumption DEF ReturnInv, ReturnTypes, ReturnRow
<1>4. /\ returns'[r].status = "completed" /\ returns'[r].lines = lines
      /\ returns'[r] \in ReturnRow
      /\ \A q \in Returns : q # r => returns'[q] = returns[q]
  BY <1>2, <1>3 DEF ReturnTypes, ReturnRow, ReturnStatuses, Consuming
<1>5. ReturnTypes'
  <2>1. returns' \in [Returns -> ReturnRow]
    BY <1>2, <1>3, <1>4 DEF ReturnTypes
  <2>2. \A q \in Returns : returns'[q].lines = returns[q].lines
    BY <1>4
  <2> QED
    BY <1>3, <2>1, <2>2 DEF ReturnTypes
<1>6. /\ put \in [Items -> 0 .. MaxUnits] /\ [i \in Items |-> lines[i].credit] \in [Items -> 0 .. MaxAmount]
      /\ Restocked(lines) \in 0 .. Total(Sold, MaxUnits) /\ Total(Sold, MaxUnits) \in Nat
      /\ credit \in 0 .. Total(LineTotal, MaxAmount) /\ Total(LineTotal, MaxAmount) \in Nat
  BY <1>3, LineSums
<1>7. OrderShape' /\ order'.credit = order.credit + credit
  <2>1. /\ {"status", "total", "credit", "paid", "payStatus"} \subseteq DOMAIN Credited(credit)
        /\ Credited(credit).total = order.total
        /\ Credited(credit).credit = order.credit + credit
    <3> HIDE DEF credit
    <3> QED
      BY <1>3 DEF OrderShape, Credited
  <2>2. /\ {"status", "total", "credit", "paid", "payStatus"} \subseteq DOMAIN order'
        /\ order'.total = order.total /\ order'.credit = order.credit + credit
    BY <1>2, <2>1, SyncKeepsTotals
  <2>3. order.credit + credit \in Nat
    BY <1>3, <1>6 DEF OrderShape
  <2> QED
    BY <1>3, <2>2, <2>3 DEF OrderShape
<1>8. ASSUME NEW i \in Items
      PROVE  /\ ClaimedQuantity(i, Consuming)' = ClaimedQuantity(i, Consuming)
             /\ ClaimedCredit(i, Consuming)' = ClaimedCredit(i, Consuming)
             /\ ClaimedQuantity(i, {"completed"})' = ClaimedQuantity(i, {"completed"}) + lines[i].qty
             /\ ClaimedCredit(i, {"completed"})' = ClaimedCredit(i, {"completed"}) + lines[i].credit
             /\ ClaimedQuantity(i, {"completed"})' <= ClaimedQuantity(i, Consuming)'
             /\ ClaimedCredit(i, {"completed"})' <= ClaimedCredit(i, Consuming)'
             /\ lines[i].qty \in Nat /\ lines[i].credit \in Nat
             /\ ClaimedQuantity(i, {"completed"}) \in Nat /\ ClaimedCredit(i, {"completed"}) \in Nat
             /\ ClaimedQuantity(i, Consuming) \in Nat /\ ClaimedCredit(i, Consuming) \in Nat
  <2>1. /\ UnitsIn(returns[r], i, Consuming) = lines[i].qty /\ UnitsIn(returns'[r], i, Consuming) = lines[i].qty
        /\ CreditIn(returns[r], i, Consuming) = lines[i].credit /\ CreditIn(returns'[r], i, Consuming) = lines[i].credit
        /\ UnitsIn(returns[r], i, {"completed"}) = 0 /\ UnitsIn(returns'[r], i, {"completed"}) = lines[i].qty
        /\ CreditIn(returns[r], i, {"completed"}) = 0 /\ CreditIn(returns'[r], i, {"completed"}) = lines[i].credit
    BY <1>2, <1>4 DEF UnitsIn, CreditIn, Consuming
  <2>2. lines[i].qty \in Nat /\ lines[i].credit \in Nat
    BY <1>3 DEF ReturnLine
  <2>3. \A s : ClaimedQuantity(i, s) \in Nat /\ ClaimedCredit(i, s) \in Nat
    BY <1>3, ReturnColumns
  <2>4. \A s : /\ ClaimedQuantity(i, s)' =
                      ClaimedQuantity(i, s) - UnitsIn(returns[r], i, s) + UnitsIn(returns'[r], i, s)
               /\ ClaimedCredit(i, s)' =
                      ClaimedCredit(i, s) - CreditIn(returns[r], i, s) + CreditIn(returns'[r], i, s)
    BY <1>3, <1>4, <1>5, ReturnChanges
  <2>5. /\ ClaimedQuantity(i, Consuming)' = ClaimedQuantity(i, Consuming) - lines[i].qty + lines[i].qty
        /\ ClaimedCredit(i, Consuming)' = ClaimedCredit(i, Consuming) - lines[i].credit + lines[i].credit
        /\ ClaimedQuantity(i, {"completed"})' = ClaimedQuantity(i, {"completed"}) - 0 + lines[i].qty
        /\ ClaimedCredit(i, {"completed"})' = ClaimedCredit(i, {"completed"}) - 0 + lines[i].credit
    BY <2>1, <2>4
  <2>6. Claims(r, {"requested", "approved", "received"})
    BY <1>2 DEF Claims
  <2>7. /\ ClaimedQuantity(i, {"completed"}) + lines[i].qty <= ClaimedQuantity(i, Consuming)
        /\ ClaimedCredit(i, {"completed"}) + lines[i].credit <= ClaimedCredit(i, Consuming)
    BY <1>3, <2>6, OpenBesideCompleted
  <2> HIDE DEF lines
  <2> QED
    BY <2>2, <2>3, <2>5, <2>7
<1>9. ASSUME NEW i \in Items
      PROVE  /\ ClaimedQuantity(i, Consuming)' <= Sold[i] /\ ClaimedCredit(i, Consuming)' <= LineTotal[i]
             /\ back'[i] <= ClaimedQuantity(i, {"completed"})'
             /\ back'[i] \in 0 .. MaxUnits
  <2>1. /\ ClaimedQuantity(i, Consuming) <= Sold[i] /\ ClaimedCredit(i, Consuming) <= LineTotal[i]
        /\ back[i] <= ClaimedQuantity(i, {"completed"}) /\ back[i] \in Nat
    BY <1>3 DEF ReturnInv
  <2>2. put[i] \in Nat /\ put[i] <= lines[i].qty
    BY <1>8, <1>6
  <2>3. back'[i] = back[i] + put[i]
    BY <1>2
  <2>5. Sold[i] \in Nat /\ Sold[i] <= MaxUnits
    BY <1>3, ReturnsAssumption
  <2> HIDE DEF put, lines
  <2> QED
    BY <1>3, <1>8, <2>1, <2>2, <2>3, <2>5
<1>10. back' \in [Items -> 0 .. MaxUnits]
  BY <1>2, <1>9
<1>11. order'.credit = CreditPerItem'
  <2> DEFINE f == [i \in Items |-> ClaimedCredit(i, {"completed"})]
             g == [i \in Items |-> ClaimedCredit(i, {"completed"})']
             c == [i \in Items |-> lines[i].credit]
  <2>1. ASSUME NEW i \in Items PROVE f[i] \in 0 .. MaxAmount /\ g[i] \in 0 .. MaxAmount /\ g[i] = f[i] + c[i]
    <3>2. LineTotal[i] \in Nat /\ LineTotal[i] <= MaxAmount
          /\ ClaimedCredit(i, Consuming)' <= LineTotal[i] /\ ClaimedCredit(i, Consuming) <= LineTotal[i]
      BY <1>3, <1>9, ReturnsAssumption DEF ReturnInv
    <3> HIDE DEF lines
    <3> QED
      BY <1>3, <1>8, <3>2
  <2>2. /\ f \in [Items -> 0 .. MaxAmount] /\ g \in [Items -> 0 .. MaxAmount]
        /\ c \in [Items -> 0 .. MaxAmount]
    BY <1>6, <2>1
  <2>3. CreditPerItem = Total(f, MaxAmount) /\ CreditPerItem' = Total(g, MaxAmount) /\ credit = Total(c, MaxAmount)
    BY DEF CreditPerItem, CreditOf
  <2> HIDE DEF f, g, c, credit
  <2>4. Total(g, MaxAmount) = Total(f, MaxAmount) + Total(c, MaxAmount)
    <3>1. \A i \in Items : g[i] = f[i] + c[i]
      BY <2>1
    <3>2. IsFiniteSet(Items) /\ MaxAmount \in Nat
      BY <1>3
    <3> QED
      BY <2>2, <3>1, <3>2, TotalAdds
  <2> QED
    BY <1>3, <1>7, <2>3, <2>4
<1>12. AfterSalesAgree'
  <2> DEFINE f == RestockColumn
             g == [q \in Returns |-> IF returns'[q].status \in {"completed"} THEN Restocked(returns'[q].lines) ELSE 0]
             c == CreditedColumn
             d == [q \in Returns |-> IF returns'[q].status \in {"completed"} THEN CreditOf(returns'[q].lines) ELSE 0]
             units == Total(Sold, MaxUnits)
             money == Total(LineTotal, MaxAmount)
  <2>1. /\ f \in [Returns -> 0 .. units] /\ c \in [Returns -> 0 .. money]
        /\ RestockedUnits = Total(f, units) /\ CompletedCredit = Total(c, money)
    BY <1>3, ReportColumns
  <2>2. /\ RestockedUnits' = Total(g, units) /\ CompletedCredit' = Total(d, money)
    BY DEF RestockedUnits, CompletedCredit, Claims, Restocked, CreditOf
  <2>3. /\ f[r] = 0 /\ c[r] = 0 /\ g[r] = Restocked(lines) /\ d[r] = credit
    BY <1>2, <1>4 DEF RestockColumn, CreditedColumn, Claims
  <2>4. \A q \in Returns : q # r => f[q] = g[q]
    BY <1>4 DEF RestockColumn, Claims
  <2>5. \A q \in Returns : q # r => c[q] = d[q]
    BY <1>4 DEF CreditedColumn, Claims
  <2>6. g \in [Returns -> 0 .. units] /\ d \in [Returns -> 0 .. money]
    <3>1. ASSUME NEW q \in Returns PROVE g[q] \in 0 .. units /\ d[q] \in 0 .. money
      <4>1. CASE q = r
        BY <1>6, <2>3, <4>1
      <4>2. CASE q # r
        <5>1. f[q] \in 0 .. units /\ c[q] \in 0 .. money
          BY <2>1
        <5> HIDE DEF f, g, c, d, units, money
        <5> QED
          BY <2>4, <2>5, <4>2, <5>1
      <4> QED
        BY <4>1, <4>2
    <3> QED
      BY <3>1
  <2>7. units \in Nat /\ money \in Nat
    BY <1>6
  <2> HIDE DEF f, g, c, d, units, money
  <2>8. Total(f, units) \in Nat /\ Total(g, units) = Total(f, units) - f[r] + g[r]
    <3>1. IsFiniteSet(Returns) /\ units \in Nat
      BY <1>3, <2>7
    <3>2. f \in [Returns -> 0 .. units] /\ g \in [Returns -> 0 .. units]
      BY <2>1, <2>6
    <3> QED
      BY <2>4, <3>1, <3>2, TotalRowChanges
  <2>9. Total(c, money) \in Nat /\ Total(d, money) = Total(c, money) - c[r] + d[r]
    <3>1. IsFiniteSet(Returns) /\ money \in Nat
      BY <1>3, <2>7
    <3>2. c \in [Returns -> 0 .. money] /\ d \in [Returns -> 0 .. money]
      BY <2>1, <2>6
    <3> QED
      BY <2>5, <3>1, <3>2, TotalRowChanges
  <2>10. Total(back', MaxUnits) = Total(back, MaxUnits) + Restocked(lines) /\ Total(back, MaxUnits) \in Nat
    <3>1. Restocked(lines) = Total(put, MaxUnits)
      BY DEF Restocked
    <3>2. \A i \in Items : back'[i] = back[i] + put[i]
      BY <1>2
    <3>3. put \in [Items -> 0 .. MaxUnits]
      BY <1>6
    <3> HIDE DEF put
    <3>4. Total(back', MaxUnits) = Total(back, MaxUnits) + Total(put, MaxUnits)
      <4>1. IsFiniteSet(Items) /\ MaxUnits \in Nat /\ back \in [Items -> 0 .. MaxUnits]
        BY <1>3
      <4> QED
        BY <1>10, <3>2, <3>3, <4>1, TotalAdds
    <3>5. Total(back, MaxUnits) \in Nat
      BY <1>3, TotalNat
    <3> QED
      BY <3>1, <3>4, <3>5
  <2>11. RestockedUnits = Total(back, MaxUnits) /\ CompletedCredit = order.credit
    BY <1>3 DEF AfterSalesAgree
  <2>12. Restocked(lines) \in Int /\ credit \in Int
    BY <1>6
  <2> HIDE DEF credit, lines
  <2>13. RestockedUnits' = Total(back', MaxUnits)
    BY <2>1, <2>2, <2>3, <2>8, <2>10, <2>11, <2>12
  <2>14. CompletedCredit' = order'.credit
    BY <1>7, <2>1, <2>2, <2>3, <2>9, <2>11, <2>12
  <2> QED
    BY <2>13, <2>14 DEF AfterSalesAgree
<1> QED
  BY <1>5, <1>7, <1>9, <1>10, <1>11, <1>12 DEF ReturnInv

\* A step that leaves the returns alone, and the totals of the order.
LEMMA ReturnsAlone ==
    ASSUME ReturnInv, UNCHANGED <<returns, back>>, OrderShape',
           order'.total = order.total, order'.credit = order.credit
    PROVE  ReturnInv'
<1>1. \A i \in Items : \A s : /\ ClaimedQuantity(i, s)' = ClaimedQuantity(i, s)
                              /\ ClaimedCredit(i, s)' = ClaimedCredit(i, s)
  BY DEF ClaimedQuantity, ClaimedCredit, Claims
<1>2. CreditPerItem' = CreditPerItem
  BY <1>1 DEF CreditPerItem
<1>3. RestockedUnits' = RestockedUnits /\ CompletedCredit' = CompletedCredit
  BY DEF RestockedUnits, CompletedCredit, Claims, Restocked, CreditOf
<1>4. ReturnTypes'
  BY DEF ReturnInv, ReturnTypes, LinesFit
<1> QED
  BY <1>1, <1>2, <1>3, <1>4 DEF ReturnInv, AfterSalesAgree

\* Payments, refunds, reversals and transitions of the order
LEMMA MoneyKeepsClaims ==
    ASSUME ReturnInv, Capture \/ Refund \/ Reversal \/ Transition, UNCHANGED <<returns, back>>
    PROVE  ReturnInv'
<1>1. OrderShape
  BY DEF ReturnInv
<1>2. CASE order' = Synced(order, txn')
  <2>1. /\ {"status", "total", "credit", "paid", "payStatus"} \subseteq DOMAIN order'
        /\ order'.total = order.total /\ order'.credit = order.credit
    BY <1>1, <1>2, SyncKeepsTotals DEF OrderShape
  <2> QED
    BY <1>1, <2>1, ReturnsAlone DEF OrderShape
<1>3. CASE \E new : order' = [order EXCEPT !.status = new]
  <2>1. /\ {"status", "total", "credit", "paid", "payStatus"} \subseteq DOMAIN order'
        /\ order'.total = order.total /\ order'.credit = order.credit
    BY <1>1, <1>3 DEF OrderShape
  <2> QED
    BY <1>1, <2>1, ReturnsAlone DEF OrderShape
<1> QED
  BY <1>2, <1>3 DEF Capture, CapturePayment, Refund, RefundPayment, Reversal, ReversePayment,
                    Transition, TransitionOrder

LEMMA ReturnsInitInv == ReturnsInit => ReturnInv
<1> SUFFICES ASSUME ReturnsInit PROVE ReturnInv
  OBVIOUS
<1>1. /\ returns = [r \in Returns |-> NoReturn] /\ back = [i \in Items |-> 0]
      /\ MaxUnits \in Nat /\ MaxAmount \in Nat /\ IsFiniteSet(Returns) /\ IsFiniteSet(Items)
      /\ Sold \in [Items -> 0 .. MaxUnits] /\ LineTotal \in [Items -> 0 .. MaxAmount]
  BY ReturnsAssumption, PaymentsAssumption DEF ReturnsInit
<1>2. ReturnTypes
  <2>1. NotReturned \in ReturnLine
    BY <1>1 DEF NotReturned, ReturnLine
  <2>2. NoReturn \in ReturnRow /\ LinesFit(NoReturn.lines)
    BY <1>1, <2>1 DEF NoReturn, ReturnRow, ReturnStatuses, LinesFit, NotReturned
  <2> QED
    BY <1>1, <2>2 DEF ReturnTypes
<1>3. OrderShape /\ order.credit = 0
  <2>1. PICK status \in Editable, total \in 0 .. MaxAmount :
           order = [status |-> status, total |-> total, credit |-> 0, paid |-> 0, payStatus |-> "unpaid"]
    BY DEF ReturnsInit, PayInit
  <2> QED
    BY <1>1, <2>1 DEF OrderShape
<1>4. \A r \in Returns, s \in {Consuming, {"completed"}} : ~Claims(r, s)
  BY <1>1 DEF Claims, NoReturn, Consuming
<1>5. ASSUME NEW i \in Items, NEW s \in {Consuming, {"completed"}}
      PROVE  ClaimedQuantity(i, s) = 0 /\ ClaimedCredit(i, s) = 0
  <2>1. /\ ClaimedQuantity(i, s) = Total([r \in Returns |-> 0], MaxUnits)
        /\ ClaimedCredit(i, s) = Total([r \in Returns |-> 0], MaxAmount)
    BY <1>4 DEF ClaimedQuantity, ClaimedCredit
  <2>2. Total([r \in Returns |-> 0], MaxUnits) = 0 /\ Total([r \in Returns |-> 0], MaxAmount) = 0
    BY <1>1, TotalZero
  <2> QED
    BY <2>1, <2>2
<1>6. CreditPerItem = 0
  <2>1. CreditPerItem = Total([i \in Items |-> 0], MaxAmount)
    BY <1>5 DEF CreditPerItem
  <2> QED
    BY <1>1, <2>1, TotalZero
<1>7. AfterSalesAgree
  <2>1. Total(Sold, MaxUnits) \in Nat /\ Total(LineTotal, MaxAmount) \in Nat
    BY <1>1, TotalNat
  <2>2. /\ RestockedUnits = Total([r \in Returns |-> 0], Total(Sold, MaxUnits))
        /\ CompletedCredit = Total([r \in Returns |-> 0], Total(LineTotal, MaxAmount))
    BY <1>4 DEF RestockedUnits, CompletedCredit
  <2>3. RestockedUnits = 0 /\ CompletedCredit = 0
    BY <2>1, <2>2, TotalZero
  <2>4. Total(back, MaxUnits) = 0
    BY <1>1, TotalZero
  <2> QED
    BY <1>3, <2>3, <2>4 DEF AfterSalesAgree
<1>8. \A i \in Items : /\ ClaimedQuantity(i, Consuming) <= Sold[i]
                       /\ ClaimedCredit(i, Consuming) <= LineTotal[i]
                       /\ back[i] <= ClaimedQuantity(i, {"completed"})
  BY <1>1, <1>5
<1>9. back \in [Items -> 0 .. MaxUnits]
  BY <1>1
<1> QED
  BY <1>2, <1>3, <1>6, <1>7, <1>8, <1>9 DEF ReturnInv

LEMMA ReturnsNextInv == ReturnInv /\ [ReturnsNext]_returnVars => ReturnInv'
<1> SUFFICES ASSUME ReturnInv, [ReturnsNext]_returnVars PROVE ReturnInv'
  OBVIOUS
<1>1. CASE Create
  BY <1>1, CreateKeepsClaims
<1>2. CASE Advance
  BY <1>2, AdvanceKeepsClaims
<1>3. CASE Finish
  BY <1>3, FinishKeepsClaims
<1>4. CASE (Capture \/ Refund \/ Reversal \/ Transition) /\ UNCHANGED <<returns, back>>
  BY <1>4, MoneyKeepsClaims
<1>5. CASE UNCHANGED returnVars
  BY <1>5, ReturnsAlone DEF returnVars, ReturnInv, OrderShape
<1> QED
  BY <1>1, <1>2, <1>3, <1>4, <1>5 DEF ReturnsNext

\* The returns, what they claim and what the order and the stock got of them
\* agree however services of returns/services.py and payments interleave.
THEOREM ReturnsInvariant == ReturnsSpec => []ReturnInv
<1> QED
  BY ReturnsInitInv, ReturnsNextInv, PTL DEF ReturnsSpec

\* An open return and what was credited before it fit in what the items sold for.
LEMMA CreditFits ==
    ASSUME ReturnInv, NEW r \in Returns, Claims(r, {"requested", "approved", "received"})
    PROVE  order.credit + CreditOf(returns[r].lines) <= Total(LineTotal, MaxAmount)
<1> DEFINE f == [i \in Items |-> ClaimedCredit(i, {"completed"})]
           c == [i \in Items |-> returns[r].lines[i].credit]
           h == [i \in Items |-> f[i] + c[i]]
<1>1. /\ IsFiniteSet(Items) /\ MaxAmount \in Nat /\ LineTotal \in [Items -> 0 .. MaxAmount]
      /\ ReturnTypes
  BY ReturnsAssumption, PaymentsAssumption DEF ReturnInv
<1>2. ASSUME NEW i \in Items
      PROVE  /\ f[i] \in 0 .. MaxAmount /\ c[i] \in 0 .. MaxAmount
             /\ h[i] \in 0 .. MaxAmount /\ h[i] <= LineTotal[i]
  <2>1. ClaimedCredit(i, {"completed"}) + returns[r].lines[i].credit <= ClaimedCredit(i, Consuming)
    BY <1>1, OpenBesideCompleted
  <2>2. ClaimedCredit(i, {"completed"}) \in Nat /\ ClaimedCredit(i, Consuming) \in Nat
    BY <1>1, ReturnColumns
  <2>3. ClaimedCredit(i, Consuming) <= LineTotal[i] /\ LineTotal[i] \in 0 .. MaxAmount
    BY <1>1 DEF ReturnInv
  <2>4. returns[r].lines[i].credit \in 0 .. MaxAmount
    BY <1>1 DEF ReturnTypes, ReturnRow, ReturnLine
  <2>5. /\ f[i] = ClaimedCredit(i, {"completed"}) /\ c[i] = returns[r].lines[i].credit
        /\ h[i] = f[i] + c[i]
    OBVIOUS
  <2> HIDE DEF f, c, h
  <2> QED
    BY <1>1, <2>1, <2>2, <2>3, <2>4, <2>5
<1>3. /\ f \in [Items -> 0 .. MaxAmount] /\ c \in [Items -> 0 .. MaxAmount]
      /\ h \in [Items -> 0 .. MaxAmount]
  BY <1>2
<1>4. order.credit = Total(f, MaxAmount) /\ CreditOf(returns[r].lines) = Total(c, MaxAmount)
  BY DEF ReturnInv, CreditPerItem, CreditOf
<1>5. \A i \in Items : h[i] = f[i] + c[i]
  OBVIOUS
<1>6. \A i \in Items : h[i] <= LineTotal[i]
  BY <1>2
<1> HIDE DEF f, c, h
<1>7. Total(h, MaxAmount) = Total(f, MaxAmount) + Total(c, MaxAmount)
  <2>1. IsFiniteSet(Items) /\ MaxAmount \in Nat
    BY <1>1
  <2> QED
    BY <1>3, <1>5, <2>1, TotalAdds
<1>8. Total(h, MaxAmount) <= Total(LineTotal, MaxAmount)
  BY <1>1, <1>3, <1>6, TotalMonotone
<1> QED
  BY <1>4, <1>7, <1>8

\* Returns opened, rejected, cancelled and completed in any order never claim more
\* of an item than was sold; without an order discount none of them ends in the
\* refusal at returns/services.py:462, for any items, prices and quantities.
THEOREM ReturnsFitTheSale == ReturnsSpec => []ClaimsFitSale
<1>1. ReturnInv => ClaimsFitSale
  <2> SUFFICES ASSUME ReturnInv PROVE ClaimsFitSale
    OBVIOUS
  <2>1. ASSUME NEW r \in Returns, Claims(r, {"requested", "approved", "received"}),
               order.total >= Total(LineTotal, MaxAmount)
        PROVE  order.credit + CreditOf(returns[r].lines) <= order.total
    <3>1. order.credit + CreditOf(returns[r].lines) <= Total(LineTotal, MaxAmount)
      BY <2>1, CreditFits
    <3>2. Total(LineTotal, MaxAmount) \in Nat /\ order.total \in Nat /\ order.credit \in Nat
      BY ReturnsAssumption, PaymentsAssumption, TotalNat DEF ReturnInv, OrderShape
    <3>3. CreditOf(returns[r].lines) \in Nat
      <4>1. returns[r].lines \in [Items -> ReturnLine] /\ LinesFit(returns[r].lines)
        BY DEF ReturnInv, ReturnTypes, ReturnRow
      <4> QED
        BY <3>2, <4>1, LineSums
    <3> QED
      BY <2>1, <3>1, <3>2, <3>3
  <2> QED
    BY <2>1 DEF ClaimsFitSale, ReturnInv
<1> QED
  BY <1>1, ReturnsInvariant, PTL

\* The returns report adds up from the lines of the returns what the shelf got back and
\* what the order was credited (_returns_report of reports/after_sales.py).
THEOREM ReturnsReportIsTrue == ReturnsSpec => []AfterSalesAgree
<1>1. ReturnInv => AfterSalesAgree
  BY DEF ReturnInv
<1> QED
  BY <1>1, ReturnsInvariant, PTL

-----------------------------------------------------------------------------
(* The refund loops of a return *)

\* first takes a row of any rows.
Takes(first, S) == \A R \in SUBSET S : R # {} => first[R] \in R

\* over goes on from the first row of any rows to the rows after it.
GoesOn(over, S, base, first, step) ==
    over = [R \in SUBSET S |-> IF R = {} THEN base ELSE step[R][over[R \ {first[R]}]]]

\* A loop over rows that goes on, after its first row, as the loop over the
\* rows after it does, exists for any finite set of rows.
LEMMA LoopsExist ==
    ASSUME NEW S, IsFiniteSet(S), NEW V, NEW base \in V,
           NEW first, Takes(first, S),
           NEW step \in [SUBSET S -> [V -> V]]
    PROVE  \E over \in [SUBSET S -> V] : GoesOn(over, S, base, first, step)
<1> DEFINE Next(over) ==
              [R \in SUBSET S |-> IF R = {} THEN base ELSE step[R][over[R \ {first[R]}]]]
           T == {n \in Nat : \E over \in [SUBSET S -> V] : \A R \in SUBSET S :
                    Cardinality(R) <= n => over[R] = Next(over)[R]}
<1>1. \A over \in [SUBSET S -> V] : Next(over) \in [SUBSET S -> V]
  OBVIOUS
<1>2. \A R \in SUBSET S : IsFiniteSet(R) /\ Cardinality(R) \in Nat
  BY FS_Subset, FS_CardinalityType
<1>3. 0 \in T
  <2> DEFINE all == [R \in SUBSET S |-> base]
  <2>1. \A R \in SUBSET S : Cardinality(R) <= 0 => R = {}
    BY <1>2, FS_EmptySet
  <2>2. \A R \in SUBSET S : Cardinality(R) <= 0 => all[R] = Next(all)[R]
    BY <2>1
  <2>3. all \in [SUBSET S -> V]
    OBVIOUS
  <2> HIDE DEF all, Next
  <2> QED
    BY <2>2, <2>3
<1>4. ASSUME NEW n \in Nat, n \in T PROVE n + 1 \in T
  <2>1. PICK over \in [SUBSET S -> V] : \A R \in SUBSET S :
           Cardinality(R) <= n => over[R] = Next(over)[R]
    BY <1>4
  <2>2. ASSUME NEW R \in SUBSET S, Cardinality(R) <= n + 1
        PROVE  Next(over)[R] = Next(Next(over))[R]
    <3>1. CASE R = {}
      BY <3>1
    <3>2. CASE R # {}
      <4>1. first[R] \in R /\ R \ {first[R]} \in SUBSET S
        BY <3>2 DEF Takes
      <4>2. Cardinality(R \ {first[R]}) = Cardinality(R) - 1
        BY <1>2, <4>1, FS_RemoveElement
      <4>3. Cardinality(R \ {first[R]}) <= n
        BY <1>2, <2>2, <4>2
      <4>4. over[R \ {first[R]}] = Next(over)[R \ {first[R]}]
        BY <2>1, <4>1, <4>3
      <4>5. /\ Next(over)[R] = step[R][over[R \ {first[R]}]]
            /\ Next(Next(over))[R] = step[R][Next(over)[R \ {first[R]}]]
        BY <3>2
      <4> HIDE DEF Next
      <4> QED
        BY <4>4, <4>5
    <3> QED
      BY <3>1, <3>2
  <2>3. \E next \in [SUBSET S -> V] : \A R \in SUBSET S :
           Cardinality(R) <= n + 1 => next[R] = Next(next)[R]
    <3> DEFINE next == Next(over)
    <3>1. next \in [SUBSET S -> V]
      BY <1>1
    <3>2. \A R \in SUBSET S : Cardinality(R) <= n + 1 => next[R] = Next(next)[R]
      BY <2>2
    <3> HIDE DEF next, Next
    <3> QED
      BY <3>1, <3>2
  <2> HIDE DEF Next
  <2> QED
    BY <2>3
<1> HIDE DEF T
<1>5. Cardinality(S) \in T
  BY <1>3, <1>4, Counting, FS_CardinalityType
<1>6. PICK over \in [SUBSET S -> V] : \A R \in SUBSET S :
         Cardinality(R) <= Cardinality(S) => over[R] = Next(over)[R]
  BY <1>5 DEF T
<1>7. \A R \in SUBSET S : over[R] = Next(over)[R]
  BY <1>6, FS_Subset
<1>8. over = Next(over)
  <2>1. Next(over) \in [SUBSET S -> V]
    BY <1>1
  <2> HIDE DEF Next
  <2> QED
    BY <1>7, <2>1
<1> QED
  BY <1>8 DEF GoesOn

\* The functions over rows a refund loop may be.
Visits == [Loops -> Loops]

\* Of finitely many numbered rows one is the oldest and one the newest.
LEMMA FirstRows ==
    ASSUME NEW R \in SUBSET Slots, R # {}
    PROVE  Oldest(R) \in R /\ Newest(R) \in R
<1>1. IsFiniteSet(R) /\ R \subseteq Nat
  BY PaymentsAssumption, FS_Subset
<1>2. \E p \in R : \A q \in R : p <= q
  BY <1>1, LeastNumber
<1>3. \E p \in R : \A q \in R : q <= p
  <2> DEFINE T == {Q \in SUBSET R : Q # {} => \E p \in Q : \A q \in Q : q <= p}
  <2>1. {} \in T
    OBVIOUS
  <2>2. ASSUME NEW Q \in SUBSET R, Q # {}, \A x \in Q : Q \ {x} \in T PROVE Q \in T
    <3>1. PICK x \in Q : TRUE
      BY <2>2
    <3>2. CASE Q \ {x} = {}
      <4>1. \A q \in Q : q = x
        BY <3>2
      <4>2. x \in Nat
        BY <1>1
      <4> QED
        BY <4>1, <4>2
    <3>3. CASE Q \ {x} # {}
      <4>1. PICK p \in Q \ {x} : \A q \in Q \ {x} : q <= p
        BY <2>2, <3>3
      <4>2. \A q \in Q : q \in Nat
        BY <1>1
      <4>3. CASE p <= x
        <5>1. \A q \in Q : q <= x
          BY <4>1, <4>2, <4>3
        <5> QED
          BY <5>1
      <4>4. CASE x <= p
        <5>1. \A q \in Q : q <= p
          BY <4>1, <4>2, <4>4
        <5> QED
          BY <5>1
      <4> QED
        BY <4>1, <4>2, <4>3, <4>4
    <3> QED
      BY <3>2, <3>3
  <2> HIDE DEF T
  <2>3. R \in T
    BY <1>1, <2>1, <2>2, SetCounting
  <2> QED
    BY <2>3 DEF T
<1> QED
  BY <1>2, <1>3 DEF Oldest, Newest

\* What one round refunds of a payment, and the column after it.
Share(loop, p)  == Smaller(Left(loop.used, p), loop.remaining)
Raised(loop, p) == [loop.used EXCEPT ![p] = @ + Share(loop, p)]

LEMMA RoundStep ==
    ASSUME txn \in [Slots -> Payment], NEW loop \in Loops, NEW p \in Slots,
           NEW sync \in [Columns -> Columns]
    PROVE  /\ Share(loop, p) \in 0 .. MaxAmount
           /\ Share(loop, p) <= Left(loop.used, p) /\ Share(loop, p) <= loop.remaining
           /\ Left(loop.used, p) \in 0 .. MaxAmount
           /\ Raised(loop, p) \in Columns
           /\ loop.used \in Columns /\ loop.remaining \in Nat
           /\ Share(loop, p) = 0 => Round(loop, p, sync) = loop
           /\ Share(loop, p) # 0 =>
                 Round(loop, p, sync) = [used      |-> sync[Raised(loop, p)],
                                         remaining |-> loop.remaining - Share(loop, p)]
           /\ Round(loop, p, sync) \in Loops
<1>1. /\ loop.used \in Columns /\ loop.remaining \in Nat /\ MaxAmount \in Nat
      /\ txn[p].amount \in 0 .. MaxAmount /\ loop.used[p] \in 0 .. MaxAmount
  BY PaymentsAssumption DEF Loops, Columns, Payment
<1>2. /\ Left(loop.used, p) \in 0 .. MaxAmount
      /\ Left(loop.used, p) # 0 => loop.used[p] + Left(loop.used, p) = txn[p].amount
  BY <1>1 DEF Left, Larger
<1>3. /\ Share(loop, p) \in 0 .. MaxAmount
      /\ Share(loop, p) <= Left(loop.used, p) /\ Share(loop, p) <= loop.remaining
  BY <1>1, <1>2 DEF Share, Smaller
<1>4. loop.used[p] + Share(loop, p) \in 0 .. MaxAmount
  BY <1>1, <1>2, <1>3
<1>5. Raised(loop, p) \in Columns
  BY <1>1, <1>4 DEF Raised, Columns
<1>6. Round(loop, p, sync) = IF Share(loop, p) <= 0 THEN loop
                             ELSE [used      |-> sync[Raised(loop, p)],
                                   remaining |-> loop.remaining - Share(loop, p)]
  BY DEF Round, Share, Raised
<1>7. sync[Raised(loop, p)] \in Columns /\ loop.remaining - Share(loop, p) \in Nat
  BY <1>1, <1>3, <1>5
<1>8. Round(loop, p, sync) \in Loops
  BY <1>6, <1>7 DEF Loops
<1> QED
  BY <1>1, <1>2, <1>3, <1>5, <1>6, <1>8

LEMMA NetOfNat ==
    ASSUME txn \in [Slots -> Payment], NEW used \in Columns
    PROVE  NetOf(used) \in Nat
<1>1. IsFiniteSet(Slots) /\ MaxAmount \in Nat
  BY PaymentsAssumption
<1>2. [p \in Slots |-> IF Counts(txn[p]) THEN txn[p].amount ELSE 0] \in [Slots -> 0 .. MaxAmount]
  BY <1>1 DEF Payment
<1>3. Incoming(txn) \in Nat /\ Total(used, MaxAmount) \in Nat
  BY <1>1, <1>2, TotalNat DEF Incoming, Columns
<1> QED
  BY <1>3 DEF NetOf, Larger

LEMMA SyncColumn ==
    ASSUME txn \in [Slots -> Payment], NEW used \in Columns, NEW target \in Nat,
           NEW later \in Visits
    PROVE  Sync(used, target, later) \in Columns
<1>1. CASE NetOf(used) <= target
  BY <1>1 DEF Sync
<1>2. CASE ~(NetOf(used) <= target)
  <2>1. NetOf(used) - target \in Nat
    BY <1>2, NetOfNat
  <2>2. [used |-> used, remaining |-> NetOf(used) - target] \in Loops
    BY <2>1 DEF Loops
  <2>3. later[[used |-> used, remaining |-> NetOf(used) - target]] \in Loops
    BY <2>2 DEF Visits
  <2> QED
    BY <1>2, <2>3 DEF Sync, Loops
<1> QED
  BY <1>1, <1>2

LEMMA MirroringVisits ==
    ASSUME txn \in [Slots -> Payment], NEW target \in Nat, NEW later \in Visits,
           NEW R \in SUBSET Slots, R # {}
    PROVE  /\ [used \in Columns |-> Sync(used, target, later)] \in [Columns -> Columns]
           /\ Mirroring(R, later, target) \in Visits
           /\ \A loop \in Loops :
                 Mirroring(R, later, target)[loop] =
                    later[Round(loop, Newest(R), [used \in Columns |-> Sync(used, target, later)])]
<1> DEFINE sync == [used \in Columns |-> Sync(used, target, later)]
<1>1. sync \in [Columns -> Columns]
  BY SyncColumn
<1>2. Newest(R) \in Slots
  BY FirstRows
<1>3. Mirroring(R, later, target) = [loop \in Loops |-> later[Round(loop, Newest(R), sync)]]
  BY DEF Mirroring
<1> HIDE DEF sync
<1>4. \A loop \in Loops : later[Round(loop, Newest(R), sync)] \in Loops
  BY <1>1, <1>2, RoundStep DEF Visits
<1> QED
  BY <1>1, <1>3, <1>4 DEF Visits, sync

\* over is the receiver's loop over any rows.
Mirrors(over, target) ==
    /\ over \in [SUBSET Slots -> Visits]
    /\ \A loop \in Loops : over[{}][loop] = loop
    /\ \A R \in SUBSET Slots : R # {} =>
          over[R] = Mirroring(R, over[R \ {Newest(R)}], target)

MirrorMore(over, target) ==
    [rows \in SUBSET Slots |->
        IF rows = {} THEN [loop \in Loops |-> loop]
        ELSE Mirroring(rows, over[rows \ {Newest(rows)}], target)]

\* Receiver is defined by a recursion that ends.
LEMMA ReceiverLoops ==
    ASSUME txn \in [Slots -> Payment], NEW target \in Nat
    PROVE  \E over : Mirrors(over, target) /\ Receiver(target) = over[Slots]
<1> DEFINE base == [loop \in Loops |-> loop]
           first == [R \in SUBSET Slots |-> Newest(R)]
           step == [R \in SUBSET Slots |->
                       [later \in Visits |-> IF R = {} THEN base ELSE Mirroring(R, later, target)]]
           run == CHOOSE over : over = MirrorMore(over, target)
<1>1. IsFiniteSet(Slots) /\ base \in Visits
  BY PaymentsAssumption DEF Visits
<1>2. Takes(first, Slots)
  BY FirstRows DEF Takes
<1>3. step \in [SUBSET Slots -> [Visits -> Visits]]
  <2>1. ASSUME NEW R \in SUBSET Slots, NEW later \in Visits
        PROVE  (IF R = {} THEN base ELSE Mirroring(R, later, target)) \in Visits
    <3>1. CASE R = {}
      BY <1>1, <3>1
    <3>2. CASE R # {}
      BY <3>2, MirroringVisits
    <3> QED
      BY <3>1, <3>2
  <2> HIDE DEF base
  <2> QED
    BY <2>1
<1>4. \E over : over = MirrorMore(over, target)
  <2> HIDE DEF base, first, step
  <2>1. PICK over \in [SUBSET Slots -> Visits] : GoesOn(over, Slots, base, first, step)
    BY <1>1, <1>2, <1>3, LoopsExist
  <2>2. ASSUME NEW R \in SUBSET Slots
        PROVE  (IF R = {} THEN base ELSE step[R][over[R \ {first[R]}]]) = MirrorMore(over, target)[R]
    <3>1. CASE R = {}
      BY <3>1 DEF MirrorMore, base
    <3>2. CASE R # {}
      <4>1. over[R \ {first[R]}] \in Visits /\ first[R] = Newest(R)
        BY DEF first
      <4>2. step[R][over[R \ {first[R]}]] = Mirroring(R, over[R \ {first[R]}], target)
        BY <3>2, <4>1 DEF step
      <4> QED
        BY <3>2, <4>1, <4>2 DEF MirrorMore
    <3> QED
      BY <3>1, <3>2
  <2>3. over = MirrorMore(over, target)
    BY <2>1, <2>2 DEF MirrorMore, GoesOn
  <2> QED
    BY <2>3
<1>5. run = MirrorMore(run, target)
  BY <1>4
<1>6. Receiver(target) = run[Slots]
  BY DEF Receiver, MirrorMore
<1> HIDE DEF run
<1>7. ASSUME NEW R \in SUBSET Slots, R # {}
      PROVE  run[R] = Mirroring(R, run[R \ {Newest(R)}], target)
  BY <1>5, <1>7 DEF MirrorMore
<1>8. run[{}] = base
  BY <1>5 DEF MirrorMore
<1>9. ASSUME NEW S \in SUBSET Slots PROVE run[S] \in Visits
  <2> DEFINE T == {R \in SUBSET S : run[R] \in Visits}
  <2>1. {} \in T
    BY <1>1, <1>8
  <2>2. ASSUME NEW R \in SUBSET S, R # {}, \A x \in R : R \ {x} \in T PROVE R \in T
    <3>1. run[R \ {Newest(R)}] \in Visits
      BY <2>2, FirstRows
    <3>2. Mirroring(R, run[R \ {Newest(R)}], target) \in Visits
      BY <2>2, <3>1, MirroringVisits
    <3> QED
      BY <1>7, <2>2, <3>2
  <2> HIDE DEF T
  <2>3. IsFiniteSet(S)
    BY <1>1, FS_Subset
  <2>4. S \in T
    BY <2>1, <2>2, <2>3, SetCounting
  <2> QED
    BY <2>4 DEF T
<1>10. run \in [SUBSET Slots -> Visits]
  <2>1. run = [R \in SUBSET Slots |-> run[R]]
    BY <1>5 DEF MirrorMore
  <2> QED
    BY <1>9, <2>1
<1>11. Mirrors(run, target)
  BY <1>7, <1>8, <1>10 DEF Mirrors
<1> QED
  BY <1>6, <1>11

\* What a column of refunds makes of the ledger.
Within(used) == \A p \in Slots : WithinPayment([txn[p] EXCEPT !.refunded = used[p]])
WithUsed(used) == [p \in Slots |-> [txn[p] EXCEPT !.refunded = used[p]]]

\* No payment got less refunded.
Grown(before, after) == \A p \in Slots : before[p] <= after[p]

\* Only the payments of rows have something left.
LeftIn(rows, used) == \A p \in Slots \ rows : Left(used, p) = 0

\* The ledger with a sound column of refunds, and its net amount payment by payment.
LEMMA NetIsLeft ==
    ASSUME txn \in [Slots -> Payment], NEW used \in Columns, Within(used)
    PROVE  /\ Sound(WithUsed(used))
           /\ Incoming(WithUsed(used)) = Incoming(txn)
           /\ Outgoing(WithUsed(used)) = Total(used, MaxAmount)
           /\ NetOf(used) = Incoming(txn) - Total(used, MaxAmount)
           /\ NetOf(used) = Net(WithUsed(used))
           /\ NetOf(used) = Total([p \in Slots |-> Left(used, p)], MaxAmount)
           /\ [p \in Slots |-> Left(used, p)] \in [Slots -> 0 .. MaxAmount]
           /\ Total(used, MaxAmount) \in Nat /\ Incoming(txn) \in Nat
<1> DEFINE t == WithUsed(used)
<1>1. IsFiniteSet(Slots) /\ MaxAmount \in Nat
  BY PaymentsAssumption
<1>2. ASSUME NEW p \in Slots
      PROVE  /\ t[p] = [txn[p] EXCEPT !.refunded = used[p]]
             /\ t[p] \in Payment /\ WithinPayment(t[p])
             /\ t[p].status = txn[p].status /\ t[p].amount = txn[p].amount
             /\ t[p].refunded = used[p]
             /\ Counts(t[p]) = Counts(txn[p])
             /\ Refundable(t[p]) = Left(used, p)
             /\ Left(used, p) \in 0 .. MaxAmount
  <2>1. txn[p] \in Payment /\ used[p] \in 0 .. MaxAmount
    BY DEF Columns
  <2>2. t[p] = [txn[p] EXCEPT !.refunded = used[p]] /\ WithinPayment(t[p])
    BY DEF WithUsed, Within
  <2> HIDE DEF t
  <2>3. /\ t[p] \in Payment
        /\ t[p].status = txn[p].status /\ t[p].amount = txn[p].amount
        /\ t[p].refunded = used[p]
    BY <1>1, <2>1, <2>2 DEF Payment
  <2>4. Counts(t[p]) = Counts(txn[p])
    BY <2>3 DEF Counts
  <2>5. Refundable(t[p]) = Left(used, p)
    BY <2>3, <2>4 DEF Refundable, Left
  <2>6. Left(used, p) \in 0 .. MaxAmount
    BY <1>1, <2>1 DEF Left, Larger, Payment
  <2> QED
    BY <2>2, <2>3, <2>4, <2>5, <2>6
<1>3. Sound(t)
  BY <1>2 DEF Sound, WithUsed
<1>4. Incoming(t) = Incoming(txn)
  <2>1. [p \in Slots |-> IF Counts(t[p]) THEN t[p].amount ELSE 0]
          = [p \in Slots |-> IF Counts(txn[p]) THEN txn[p].amount ELSE 0]
    BY <1>2
  <2> QED
    BY <2>1 DEF Incoming
<1>5. Outgoing(t) = Total(used, MaxAmount)
  <2>1. [p \in Slots |-> t[p].refunded] = used
    BY <1>2 DEF Columns
  <2> QED
    BY <2>1 DEF Outgoing
<1>6. [p \in Slots |-> Refundable(t[p])] = [p \in Slots |-> Left(used, p)]
  BY <1>2
<1>7. [p \in Slots |-> Left(used, p)] \in [Slots -> 0 .. MaxAmount]
  BY <1>2
<1> HIDE DEF t
<1>8. /\ Incoming(t) \in Nat /\ Outgoing(t) \in Nat
      /\ Net(t) = Incoming(t) - Outgoing(t)
      /\ Net(t) = Total([p \in Slots |-> Refundable(t[p])], MaxAmount)
  BY <1>3, SoundSums
<1>9. NetOf(used) = Net(t)
  BY <1>4, <1>5 DEF NetOf, Net
<1> QED
  BY <1>3, <1>4, <1>5, <1>6, <1>7, <1>8, <1>9 DEF t

\* The more was refunded, the smaller the net amount.
LEMMA NetFalls ==
    ASSUME txn \in [Slots -> Payment], NEW before \in Columns, NEW after \in Columns,
           Within(before), Within(after), Grown(before, after)
    PROVE  NetOf(after) <= NetOf(before)
<1>1. IsFiniteSet(Slots) /\ MaxAmount \in Nat
  BY PaymentsAssumption
<1>2. Total(before, MaxAmount) <= Total(after, MaxAmount)
  BY <1>1, TotalMonotone DEF Columns, Grown
<1>3. /\ NetOf(before) = Incoming(txn) - Total(before, MaxAmount)
      /\ NetOf(after) = Incoming(txn) - Total(after, MaxAmount)
      /\ Total(before, MaxAmount) \in Nat /\ Total(after, MaxAmount) \in Nat
      /\ Incoming(txn) \in Nat
  BY NetIsLeft
<1> QED
  BY <1>2, <1>3

\* Without a payment that has something left the net amount is 0, with a single
\* one it is what that one has left.
LEMMA NetOfNone ==
    ASSUME txn \in [Slots -> Payment], NEW used \in Columns, Within(used), LeftIn({}, used)
    PROVE  NetOf(used) = 0
<1>1. [p \in Slots |-> Left(used, p)] = [p \in Slots |-> 0]
  BY DEF LeftIn
<1>2. Total([p \in Slots |-> 0], MaxAmount) = 0
  BY PaymentsAssumption, TotalZero
<1> QED
  BY <1>1, <1>2, NetIsLeft

LEMMA NetOfOne ==
    ASSUME txn \in [Slots -> Payment], NEW used \in Columns, Within(used),
           NEW p \in Slots, LeftIn({p}, used)
    PROVE  NetOf(used) = Left(used, p)
<1>1. Left(used, p) \in 0 .. MaxAmount
  BY NetIsLeft
<1>2. [q \in Slots |-> Left(used, q)] = [q \in Slots |-> IF q = p THEN Left(used, p) ELSE 0]
  BY DEF LeftIn
<1>3. Total([q \in Slots |-> IF q = p THEN Left(used, p) ELSE 0], MaxAmount) = Left(used, p)
  <2>1. IsFiniteSet(Slots) /\ MaxAmount \in Nat
    BY PaymentsAssumption
  <2>2. \A n \in 0 .. MaxAmount : Total([q \in Slots |-> IF q = p THEN n ELSE 0], MaxAmount) = n
    BY <2>1, TotalSingle
  <2> QED
    BY <1>1, <2>2
<1> QED
  BY <1>2, <1>3, NetIsLeft

\* One round, whatever its synchronization does, refunds what it says.
LEMMA RaisedColumn ==
    ASSUME txn \in [Slots -> Payment], NEW loop \in Loops, NEW p \in Slots, Within(loop.used)
    PROVE  /\ Within(Raised(loop, p))
           /\ Grown(loop.used, Raised(loop, p))
           /\ NetOf(Raised(loop, p)) = NetOf(loop.used) - Share(loop, p)
           /\ Left(Raised(loop, p), p) = Left(loop.used, p) - Share(loop, p)
           /\ \A q \in Slots : q # p => Left(Raised(loop, p), q) = Left(loop.used, q)
<1> DEFINE used == loop.used
           raised == Raised(loop, p)
           share == Share(loop, p)
<1>1. IsFiniteSet(Slots) /\ MaxAmount \in Nat
  BY PaymentsAssumption
<1>2. /\ share \in 0 .. MaxAmount /\ share <= Left(used, p)
      /\ used \in Columns /\ raised \in Columns
  <2>1. [u \in Columns |-> u] \in [Columns -> Columns]
    OBVIOUS
  <2> QED
    BY <2>1, RoundStep
<1>3. raised[p] = used[p] + share /\ \A q \in Slots : q # p => raised[q] = used[q]
  BY <1>2 DEF Raised, Columns
<1>4. /\ txn[p] \in Payment /\ used[p] \in 0 .. MaxAmount /\ raised[p] \in 0 .. MaxAmount
      /\ \A q \in Slots : used[q] \in 0 .. MaxAmount
  BY <1>2 DEF Columns
<1> HIDE DEF used, raised, share
<1>5. Grown(used, raised)
  BY <1>1, <1>2, <1>3, <1>4 DEF Grown
<1>6. Within(raised)
  <2>1. WithinPayment([txn[p] EXCEPT !.refunded = raised[p]])
    <3> DEFINE old == [txn[p] EXCEPT !.refunded = used[p]]
               new == [txn[p] EXCEPT !.refunded = raised[p]]
    <3>1. WithinPayment(old)
      BY DEF Within, used
    <3>2. /\ old.status = txn[p].status /\ old.amount = txn[p].amount /\ old.refunded = used[p]
          /\ new.status = txn[p].status /\ new.amount = txn[p].amount /\ new.refunded = raised[p]
          /\ txn[p].amount \in 0 .. MaxAmount
      BY <1>4 DEF Payment
    <3> HIDE DEF old, new
    <3>3. CASE share = 0
      BY <1>3, <1>4, <3>1, <3>2, <3>3 DEF WithinPayment, Counts
    <3>4. CASE share # 0
      <4>1. Counts(txn[p]) /\ share <= txn[p].amount - used[p]
        BY <1>1, <1>2, <1>4, <3>2, <3>4 DEF Left, Larger
      <4>2. txn[p].status # "reversed"
        BY <1>1, <1>2, <1>4, <3>1, <3>2, <3>4, <4>1 DEF WithinPayment
      <4> QED
        BY <1>1, <1>2, <1>3, <1>4, <3>2, <4>1, <4>2 DEF WithinPayment, Counts
    <3> QED
      BY <3>3, <3>4 DEF new
  <2>2. \A q \in Slots : q # p => WithinPayment([txn[q] EXCEPT !.refunded = raised[q]])
    BY <1>3 DEF Within, used
  <2> QED
    BY <2>1, <2>2 DEF Within
<1>7. NetOf(raised) = NetOf(used) - share
  <2>1. RowMore(Slots, raised, used, p, share)
    BY <1>1, <1>3, <1>4 DEF RowMore
  <2>2. Total(raised, MaxAmount) = Total(used, MaxAmount) + share
    BY <1>1, <1>2, <2>1, TotalRowMore DEF Columns
  <2>3. Within(used)
    BY DEF used
  <2>4. /\ NetOf(used) = Incoming(txn) - Total(used, MaxAmount)
        /\ NetOf(raised) = Incoming(txn) - Total(raised, MaxAmount)
        /\ Total(used, MaxAmount) \in Nat /\ Incoming(txn) \in Nat
    BY <1>2, <1>6, <2>3, NetIsLeft
  <2> QED
    BY <1>1, <1>2, <2>2, <2>4
<1>8. Left(raised, p) = Left(used, p) - share
  BY <1>1, <1>2, <1>3, <1>4 DEF Left, Larger, Payment
<1>9. \A q \in Slots : q # p => Left(raised, q) = Left(used, q)
  BY <1>3 DEF Left
<1> QED
  BY <1>5, <1>6, <1>7, <1>8, <1>9 DEF used, raised, share

\* A refund loop leaves sound columns and takes nothing back.
Refunds(visit) ==
    \A loop \in Loops :
        Within(loop.used) =>
            Within(visit[loop].used) /\ Grown(loop.used, visit[loop].used)

LEMMA GrownSame ==
    ASSUME NEW u \in Columns PROVE Grown(u, u)
<1>1. \A p \in Slots : u[p] \in Int
  BY PaymentsAssumption DEF Columns
<1> QED
  BY <1>1 DEF Grown

LEMMA GrownTransitive ==
    ASSUME NEW u \in Columns, NEW v \in Columns, NEW w \in Columns, Grown(u, v), Grown(v, w)
    PROVE  Grown(u, w)
<1>1. \A p \in Slots : u[p] \in Int /\ v[p] \in Int /\ w[p] \in Int
  BY PaymentsAssumption DEF Columns
<1> QED
  BY <1>1 DEF Grown

\* So does a synchronization, when the receiver does.
SyncRefundsMore(sync) ==
    \A used \in Columns : Within(used) => Within(sync[used]) /\ Grown(used, sync[used])

LEMMA SyncGrows ==
    ASSUME txn \in [Slots -> Payment], NEW target \in Nat, NEW later \in Visits, Refunds(later),
           NEW used \in Columns, Within(used)
    PROVE  Within(Sync(used, target, later)) /\ Grown(used, Sync(used, target, later))
<1>1. CASE NetOf(used) <= target
  BY <1>1, GrownSame DEF Sync
<1>2. CASE ~(NetOf(used) <= target)
  <2> DEFINE loop == [used |-> used, remaining |-> NetOf(used) - target]
  <2>1. NetOf(used) - target \in Nat
    BY <1>2, NetOfNat
  <2>2. loop \in Loops /\ loop.used = used
    BY <2>1 DEF Loops
  <2>3. Sync(used, target, later) = later[loop].used
    BY <1>2 DEF Sync
  <2> HIDE DEF loop
  <2> QED
    BY <2>2, <2>3 DEF Refunds
<1> QED
  BY <1>1, <1>2

\* A round refunds more, when its synchronization does, and so the rounds after it.
LEMMA RoundGrows ==
    ASSUME txn \in [Slots -> Payment], NEW loop \in Loops, NEW p \in Slots, Within(loop.used),
           NEW sync \in [Columns -> Columns], SyncRefundsMore(sync)
    PROVE  /\ Round(loop, p, sync) \in Loops
           /\ Within(Round(loop, p, sync).used)
           /\ Grown(loop.used, Round(loop, p, sync).used)
<1>1. /\ Round(loop, p, sync) \in Loops
      /\ Raised(loop, p) \in Columns /\ loop.used \in Columns
      /\ sync[Raised(loop, p)] \in Columns
  BY RoundStep
<1>2. CASE Share(loop, p) = 0
  <2>1. Round(loop, p, sync) = loop
    BY <1>2, RoundStep
  <2>2. Grown(loop.used, loop.used)
    BY <1>1, GrownSame
  <2> QED
    BY <1>1, <2>1, <2>2
<1>3. CASE Share(loop, p) # 0
  <2>1. Round(loop, p, sync).used = sync[Raised(loop, p)]
    BY <1>3, RoundStep
  <2>2. Within(Raised(loop, p)) /\ Grown(loop.used, Raised(loop, p))
    BY RaisedColumn
  <2>3. Within(sync[Raised(loop, p)]) /\ Grown(Raised(loop, p), sync[Raised(loop, p)])
    BY <1>1, <2>2 DEF SyncRefundsMore
  <2>4. Grown(loop.used, sync[Raised(loop, p)])
    BY <1>1, <2>2, <2>3, GrownTransitive
  <2> QED
    BY <1>1, <2>1, <2>3, <2>4
<1> QED
  BY <1>2, <1>3

LEMMA RoundsGrow ==
    ASSUME txn \in [Slots -> Payment], NEW p \in Slots, NEW later \in Visits, Refunds(later),
           NEW sync \in [Columns -> Columns], SyncRefundsMore(sync),
           NEW loop \in Loops, Within(loop.used)
    PROVE  /\ Within(later[Round(loop, p, sync)].used)
           /\ Grown(loop.used, later[Round(loop, p, sync)].used)
<1>1. /\ Round(loop, p, sync) \in Loops /\ Within(Round(loop, p, sync).used)
      /\ Grown(loop.used, Round(loop, p, sync).used)
  BY RoundGrows
<1>2. /\ Within(later[Round(loop, p, sync)].used)
      /\ Grown(Round(loop, p, sync).used, later[Round(loop, p, sync)].used)
  BY <1>1 DEF Refunds
<1>3. /\ loop.used \in Columns /\ Round(loop, p, sync).used \in Columns
      /\ later[Round(loop, p, sync)].used \in Columns
  BY <1>1 DEF Visits, Loops
<1> QED
  BY <1>1, <1>2, <1>3, GrownTransitive

\* The receiver's loops refund more, over any rows.
LEMMA MirrorsRefund ==
    ASSUME txn \in [Slots -> Payment], NEW target \in Nat, NEW over, Mirrors(over, target),
           NEW S \in SUBSET Slots
    PROVE  Refunds(over[S])
<1> DEFINE T == {R \in SUBSET S : Refunds(over[R])}
<1>1. IsFiniteSet(S)
  BY PaymentsAssumption, FS_Subset
<1>2. {} \in T
  <2>1. \A loop \in Loops : over[{}][loop] = loop
    BY DEF Mirrors
  <2>2. \A loop \in Loops : Grown(loop.used, loop.used)
    BY GrownSame DEF Loops
  <2> QED
    BY <2>1, <2>2 DEF Refunds
<1>3. ASSUME NEW R \in SUBSET S, R # {}, \A x \in R : R \ {x} \in T PROVE R \in T
  <2> DEFINE p == Newest(R)
             later == over[R \ {p}]
             sync == [used \in Columns |-> Sync(used, target, later)]
  <2>1. p \in R /\ p \in Slots /\ R \in SUBSET Slots
    BY <1>3, FirstRows
  <2>2. later \in Visits /\ Refunds(later)
    BY <1>3, <2>1 DEF Mirrors
  <2>3. over[R] = Mirroring(R, later, target)
    BY <1>3, <2>1 DEF Mirrors
  <2> HIDE DEF later, p
  <2>4. sync \in [Columns -> Columns] /\ SyncRefundsMore(sync)
    BY <2>2, SyncColumn, SyncGrows DEF SyncRefundsMore
  <2>5. \A loop \in Loops : over[R][loop] = later[Round(loop, p, sync)]
    BY <1>3, <2>1, <2>2, <2>3, MirroringVisits DEF p
  <2> HIDE DEF sync
  <2>6. ASSUME NEW loop \in Loops, Within(loop.used)
        PROVE  Within(over[R][loop].used) /\ Grown(loop.used, over[R][loop].used)
    BY <2>1, <2>2, <2>4, <2>5, <2>6, RoundsGrow
  <2>7. Refunds(over[R])
    BY <2>6 DEF Refunds
  <2> QED
    BY <2>7
<1> HIDE DEF T
<1>4. S \in T
  BY <1>1, <1>2, <1>3, SetCounting
<1> QED
  BY <1>4 DEF T

\* A loop over rows with enough to refund brings the ledger down to the target.
Settles(visit, rows, target) ==
    \A loop \in Loops :
        Within(loop.used) /\ LeftIn(rows, loop.used) /\ NetOf(loop.used) - target <= loop.remaining =>
            NetOf(visit[loop].used) <= target

\* The receiver does: what it starts in the middle of a round refunds the payments
\* after that one, and none before it has anything left.
LEMMA MirrorsSettle ==
    ASSUME txn \in [Slots -> Payment], NEW target \in Nat, NEW over, Mirrors(over, target),
           NEW S \in SUBSET Slots
    PROVE  Settles(over[S], S, target)
<1> DEFINE T == {R \in SUBSET S : Settles(over[R], R, target)}
<1>1. IsFiniteSet(S)
  BY PaymentsAssumption, FS_Subset
<1>2. {} \in T
  <2>1. \A loop \in Loops : over[{}][loop] = loop /\ loop.used \in Columns
    BY DEF Mirrors, Loops
  <2>2. \A loop \in Loops : Within(loop.used) /\ LeftIn({}, loop.used) => NetOf(loop.used) = 0
    BY <2>1, NetOfNone
  <2> QED
    BY <2>1, <2>2 DEF Settles
<1>3. ASSUME NEW R \in SUBSET S, R # {}, \A x \in R : R \ {x} \in T PROVE R \in T
  <2> DEFINE p == Newest(R)
             later == over[R \ {p}]
             sync == [used \in Columns |-> Sync(used, target, later)]
  <2>1. p \in R /\ p \in Slots /\ R \in SUBSET Slots
    BY <1>3, FirstRows
  <2>2. later \in Visits /\ Settles(later, R \ {p}, target)
    BY <1>3, <2>1 DEF Mirrors
  <2>3. over[R] = Mirroring(R, later, target)
    BY <1>3, <2>1 DEF Mirrors
  <2>4. Refunds(later)
    BY <2>1, MirrorsRefund
  <2> HIDE DEF later, p
  <2>5. sync \in [Columns -> Columns] /\ SyncRefundsMore(sync)
    BY <2>2, <2>4, SyncColumn, SyncGrows DEF SyncRefundsMore
  <2>6. \A loop \in Loops : over[R][loop] = later[Round(loop, p, sync)]
    BY <1>3, <2>1, <2>2, <2>3, MirroringVisits DEF p
  <2>7. \A used \in Columns : sync[used] = Sync(used, target, later)
    OBVIOUS
  <2> HIDE DEF sync
  <2>8. ASSUME NEW loop \in Loops, Within(loop.used), NetOf(loop.used) <= target
        PROVE  NetOf(later[loop].used) <= target
    <3>1. Within(later[loop].used) /\ Grown(loop.used, later[loop].used)
      BY <2>4, <2>8 DEF Refunds
    <3>2. loop.used \in Columns /\ later[loop].used \in Columns
      BY <2>2 DEF Visits, Loops
    <3>3. NetOf(later[loop].used) <= NetOf(loop.used)
      BY <2>8, <3>1, <3>2, NetFalls
    <3>4. NetOf(later[loop].used) \in Nat /\ NetOf(loop.used) \in Nat
      BY <3>2, NetOfNat
    <3> QED
      BY <2>8, <3>3, <3>4
  <2>9. ASSUME NEW loop \in Loops, Within(loop.used), LeftIn(R, loop.used),
               NetOf(loop.used) - target <= loop.remaining
        PROVE  NetOf(later[Round(loop, p, sync)].used) <= target
    <3> DEFINE raised == Raised(loop, p)
               share == Share(loop, p)
               next == Round(loop, p, sync)
    <3>1. /\ share \in Nat /\ share <= Left(loop.used, p) /\ share <= loop.remaining
          /\ Left(loop.used, p) \in Nat /\ loop.remaining \in Nat
          /\ raised \in Columns /\ loop.used \in Columns
          /\ share = Left(loop.used, p) \/ share = loop.remaining
      <4>1. /\ share \in 0 .. MaxAmount /\ Left(loop.used, p) \in 0 .. MaxAmount
            /\ share <= Left(loop.used, p) /\ share <= loop.remaining
            /\ loop.remaining \in Nat /\ raised \in Columns /\ loop.used \in Columns
        BY <2>1, <2>5, RoundStep
      <4>2. share = Left(loop.used, p) \/ share = loop.remaining
        BY DEF Share, Smaller
      <4> QED
        BY <4>1, <4>2
    <3>2. /\ Within(raised)
          /\ NetOf(raised) = NetOf(loop.used) - share
          /\ Left(raised, p) = Left(loop.used, p) - share
          /\ \A q \in Slots : q # p => Left(raised, q) = Left(loop.used, q)
      BY <2>1, <2>9, RaisedColumn
    <3>3. NetOf(loop.used) \in Nat /\ NetOf(raised) \in Nat
      BY <3>1, NetOfNat
    <3>4. next \in Loops /\ Within(next.used)
      BY <2>1, <2>5, <2>9, RoundGrows
    <3>5. share = 0 => next = loop
      BY <2>1, <2>5, RoundStep
    <3>6. share # 0 => next.used = Sync(raised, target, later)
      BY <2>1, <2>5, <2>7, <3>1, RoundStep
    <3> HIDE DEF raised, share, next
    <3>7. CASE NetOf(loop.used) <= target /\ share = 0
      BY <2>8, <2>9, <3>5, <3>7 DEF next
    <3>8. CASE ~(NetOf(loop.used) <= target) /\ share = 0
      <4>1. Left(loop.used, p) = 0
        BY <2>9, <3>1, <3>3, <3>8
      <4>2. LeftIn(R \ {p}, loop.used)
        BY <2>9, <4>1 DEF LeftIn
      <4> QED
        BY <2>2, <2>9, <3>5, <3>8, <4>2 DEF Settles, next
    <3>9. CASE share # 0 /\ NetOf(raised) <= target
      <4>1. next.used = raised
        BY <3>6, <3>9 DEF Sync
      <4> QED
        BY <2>8, <3>4, <3>9, <4>1 DEF next
    <3>10. CASE share # 0 /\ ~(NetOf(raised) <= target)
      <4> DEFINE inner == [used |-> raised, remaining |-> NetOf(raised) - target]
      <4>1. NetOf(raised) - target \in Nat
        BY <3>3, <3>10
      <4>2. /\ inner \in Loops /\ inner.used = raised
            /\ inner.remaining = NetOf(inner.used) - target
        BY <3>1, <4>1 DEF Loops
      <4>3. next.used = later[inner].used
        BY <3>6, <3>10 DEF Sync
      <4>4. Left(raised, p) = 0
        BY <2>9, <3>1, <3>2, <3>3, <3>10
      <4>5. LeftIn(R \ {p}, raised)
        BY <2>9, <3>2, <4>4 DEF LeftIn
      <4> HIDE DEF inner
      <4>6. NetOf(inner.used) - target <= inner.remaining
        BY <4>1, <4>2
      <4>7. NetOf(later[inner].used) <= target
        BY <2>2, <3>2, <4>2, <4>5, <4>6 DEF Settles
      <4> QED
        BY <2>8, <3>4, <4>3, <4>7 DEF next
    <3> QED
      BY <3>7, <3>8, <3>9, <3>10
  <2>10. Settles(over[R], R, target)
    BY <2>6, <2>9 DEF Settles
  <2> QED
    BY <2>10
<1> HIDE DEF T
<1>4. S \in T
  BY <1>1, <1>2, <1>3, SetCounting
<1> QED
  BY <1>4 DEF T

\* _sync_sales_order never leaves the ledger above what is payable: the receiver
\* refunds whatever is, on payments that have it.
LEMMA SyncSettles ==
    ASSUME txn \in [Slots -> Payment], NEW target \in Nat, NEW used \in Columns, Within(used)
    PROVE  /\ SyncRefunds(used, target) \in Columns
           /\ Within(SyncRefunds(used, target))
           /\ Grown(used, SyncRefunds(used, target))
           /\ NetOf(SyncRefunds(used, target)) <= target
           /\ NetOf(used) <= target => SyncRefunds(used, target) = used
<1> DEFINE receiver == Receiver(target)
<1>1. PICK over : Mirrors(over, target) /\ receiver = over[Slots]
  BY ReceiverLoops
<1>2. SyncRefunds(used, target) = Sync(used, target, receiver)
  BY DEF SyncRefunds
<1> HIDE DEF receiver
<1>3. receiver \in Visits /\ Refunds(receiver) /\ Settles(receiver, Slots, target)
  <2>1. over[Slots] \in Visits
    BY <1>1 DEF Mirrors
  <2>2. Slots \in SUBSET Slots
    OBVIOUS
  <2>3. Refunds(over[Slots])
    BY <1>1, <2>2, MirrorsRefund
  <2>4. Settles(over[Slots], Slots, target)
    BY <1>1, <2>2, MirrorsSettle
  <2> QED
    BY <1>1, <2>1, <2>3, <2>4
<1>4. /\ Sync(used, target, receiver) \in Columns
      /\ Within(Sync(used, target, receiver))
      /\ Grown(used, Sync(used, target, receiver))
  BY <1>3, SyncColumn, SyncGrows
<1>5. CASE NetOf(used) <= target
  BY <1>2, <1>4, <1>5 DEF Sync
<1>6. CASE ~(NetOf(used) <= target)
  <2> DEFINE loop == [used |-> used, remaining |-> NetOf(used) - target]
  <2>1. NetOf(used) - target \in Nat
    BY <1>6, NetOfNat
  <2>2. /\ loop \in Loops /\ loop.used = used /\ LeftIn(Slots, loop.used)
        /\ NetOf(loop.used) - target <= loop.remaining
    BY <2>1 DEF Loops, LeftIn
  <2>3. Sync(used, target, receiver) = receiver[loop].used
    BY <1>6 DEF Sync
  <2> HIDE DEF loop
  <2> QED
    BY <1>2, <1>3, <1>4, <1>6, <2>2, <2>3 DEF Settles
<1> QED
  BY <1>5, <1>6

\* over is the loop of a return over any rows.
Allocates(over, target) ==
    /\ over \in [SUBSET Slots -> Visits]
    /\ \A loop \in Loops : over[{}][loop] = loop
    /\ \A R \in SUBSET Slots : R # {} =>
          over[R] = Allocating(R, over[R \ {Oldest(R)}], target)

AllocateMore(over, target) ==
    [rows \in SUBSET Slots |->
        IF rows = {} THEN [loop \in Loops |-> loop]
        ELSE Allocating(rows, over[rows \ {Oldest(rows)}], target)]

\* What synchronizing does within a round of the return.
Syncing(target) == [used \in Columns |-> SyncRefunds(used, target)]

LEMMA SyncingColumns ==
    ASSUME txn \in [Slots -> Payment], NEW target \in Nat
    PROVE  /\ Syncing(target) \in [Columns -> Columns]
           /\ SyncRefundsMore(Syncing(target))
<1> DEFINE receiver == Receiver(target)
<1>1. PICK over : Mirrors(over, target) /\ receiver = over[Slots]
  BY ReceiverLoops
<1>2. receiver \in Visits
  BY <1>1 DEF Mirrors
<1>3. \A used \in Columns : SyncRefunds(used, target) = Sync(used, target, receiver)
  BY DEF SyncRefunds
<1> HIDE DEF receiver
<1>4. \A used \in Columns : SyncRefunds(used, target) \in Columns
  BY <1>2, <1>3, SyncColumn
<1> QED
  BY <1>4, SyncSettles DEF Syncing, SyncRefundsMore

LEMMA AllocatingVisits ==
    ASSUME txn \in [Slots -> Payment], NEW target \in Nat, NEW later \in Visits,
           NEW R \in SUBSET Slots, R # {}
    PROVE  /\ Allocating(R, later, target) \in Visits
           /\ \A loop \in Loops :
                 Allocating(R, later, target)[loop] = later[Round(loop, Oldest(R), Syncing(target))]
<1>1. Syncing(target) \in [Columns -> Columns]
  BY SyncingColumns
<1>2. Oldest(R) \in Slots
  BY FirstRows
<1>3. Allocating(R, later, target) =
         [loop \in Loops |-> later[Round(loop, Oldest(R), Syncing(target))]]
  BY DEF Allocating, Syncing
<1>4. \A loop \in Loops : later[Round(loop, Oldest(R), Syncing(target))] \in Loops
  BY <1>1, <1>2, RoundStep DEF Visits
<1> QED
  BY <1>3, <1>4 DEF Visits

\* Allocation is defined by a recursion that ends.
LEMMA AllocationLoops ==
    ASSUME txn \in [Slots -> Payment], NEW target \in Nat
    PROVE  \E over : Allocates(over, target) /\ Allocation(target) = over[Slots]
<1> DEFINE base == [loop \in Loops |-> loop]
           first == [R \in SUBSET Slots |-> Oldest(R)]
           step == [R \in SUBSET Slots |->
                       [later \in Visits |-> IF R = {} THEN base ELSE Allocating(R, later, target)]]
           run == CHOOSE over : over = AllocateMore(over, target)
<1>1. IsFiniteSet(Slots) /\ base \in Visits
  BY PaymentsAssumption DEF Visits
<1>2. Takes(first, Slots)
  BY FirstRows DEF Takes
<1>3. step \in [SUBSET Slots -> [Visits -> Visits]]
  <2>1. ASSUME NEW R \in SUBSET Slots, NEW later \in Visits
        PROVE  (IF R = {} THEN base ELSE Allocating(R, later, target)) \in Visits
    <3>1. CASE R = {}
      BY <1>1, <3>1
    <3>2. CASE R # {}
      BY <3>2, AllocatingVisits
    <3> QED
      BY <3>1, <3>2
  <2> HIDE DEF base
  <2> QED
    BY <2>1
<1>4. \E over : over = AllocateMore(over, target)
  <2> HIDE DEF base, first, step
  <2>1. PICK over \in [SUBSET Slots -> Visits] : GoesOn(over, Slots, base, first, step)
    BY <1>1, <1>2, <1>3, LoopsExist
  <2>2. ASSUME NEW R \in SUBSET Slots
        PROVE  (IF R = {} THEN base ELSE step[R][over[R \ {first[R]}]]) = AllocateMore(over, target)[R]
    <3>1. CASE R = {}
      BY <3>1 DEF AllocateMore, base
    <3>2. CASE R # {}
      <4>1. over[R \ {first[R]}] \in Visits /\ first[R] = Oldest(R)
        BY DEF first
      <4>2. step[R][over[R \ {first[R]}]] = Allocating(R, over[R \ {first[R]}], target)
        BY <3>2, <4>1 DEF step
      <4> QED
        BY <3>2, <4>1, <4>2 DEF AllocateMore
    <3> QED
      BY <3>1, <3>2
  <2>3. over = AllocateMore(over, target)
    BY <2>1, <2>2 DEF AllocateMore, GoesOn
  <2> QED
    BY <2>3
<1>5. run = AllocateMore(run, target)
  BY <1>4
<1>6. Allocation(target) = run[Slots]
  BY DEF Allocation, AllocateMore
<1> HIDE DEF run
<1>7. ASSUME NEW R \in SUBSET Slots, R # {}
      PROVE  run[R] = Allocating(R, run[R \ {Oldest(R)}], target)
  BY <1>5, <1>7 DEF AllocateMore
<1>8. run[{}] = base
  BY <1>5 DEF AllocateMore
<1>9. ASSUME NEW S \in SUBSET Slots PROVE run[S] \in Visits
  <2> DEFINE T == {R \in SUBSET S : run[R] \in Visits}
  <2>1. {} \in T
    BY <1>1, <1>8
  <2>2. ASSUME NEW R \in SUBSET S, R # {}, \A x \in R : R \ {x} \in T PROVE R \in T
    <3>1. run[R \ {Oldest(R)}] \in Visits
      BY <2>2, FirstRows
    <3>2. Allocating(R, run[R \ {Oldest(R)}], target) \in Visits
      BY <2>2, <3>1, AllocatingVisits
    <3> QED
      BY <1>7, <2>2, <3>2
  <2> HIDE DEF T
  <2>3. IsFiniteSet(S)
    BY <1>1, FS_Subset
  <2>4. S \in T
    BY <2>1, <2>2, <2>3, SetCounting
  <2> QED
    BY <2>4 DEF T
<1>10. run \in [SUBSET Slots -> Visits]
  <2>1. run = [R \in SUBSET Slots |-> run[R]]
    BY <1>5 DEF AllocateMore
  <2> QED
    BY <1>9, <2>1
<1>11. Allocates(run, target)
  BY <1>7, <1>8, <1>10 DEF Allocates
<1> QED
  BY <1>6, <1>11

\* The loops of a return refund more, over any rows.
LEMMA AllocatesRefund ==
    ASSUME txn \in [Slots -> Payment], NEW target \in Nat, NEW over, Allocates(over, target),
           NEW S \in SUBSET Slots
    PROVE  Refunds(over[S])
<1> DEFINE T == {R \in SUBSET S : Refunds(over[R])}
<1>1. IsFiniteSet(S)
  BY PaymentsAssumption, FS_Subset
<1>2. {} \in T
  <2>1. \A loop \in Loops : over[{}][loop] = loop
    BY DEF Allocates
  <2>2. \A loop \in Loops : Grown(loop.used, loop.used)
    BY GrownSame DEF Loops
  <2> QED
    BY <2>1, <2>2 DEF Refunds
<1>3. ASSUME NEW R \in SUBSET S, R # {}, \A x \in R : R \ {x} \in T PROVE R \in T
  <2> DEFINE p == Oldest(R)
             later == over[R \ {p}]
  <2>1. p \in R /\ p \in Slots /\ R \in SUBSET Slots
    BY <1>3, FirstRows
  <2>2. later \in Visits /\ Refunds(later)
    BY <1>3, <2>1 DEF Allocates
  <2>3. over[R] = Allocating(R, later, target)
    BY <1>3, <2>1 DEF Allocates
  <2> HIDE DEF later, p
  <2>4. Syncing(target) \in [Columns -> Columns] /\ SyncRefundsMore(Syncing(target))
    BY SyncingColumns
  <2>5. \A loop \in Loops : over[R][loop] = later[Round(loop, p, Syncing(target))]
    BY <1>3, <2>1, <2>2, <2>3, AllocatingVisits DEF p
  <2>6. ASSUME NEW loop \in Loops, Within(loop.used)
        PROVE  Within(over[R][loop].used) /\ Grown(loop.used, over[R][loop].used)
    BY <2>1, <2>2, <2>4, <2>5, <2>6, RoundsGrow
  <2>7. Refunds(over[R])
    BY <2>6 DEF Refunds
  <2> QED
    BY <2>7
<1> HIDE DEF T
<1>4. S \in T
  BY <1>1, <1>2, <1>3, SetCounting
<1> QED
  BY <1>4 DEF T

\* A loop with nothing to refund refunds nothing.
Rests(visit) == \A loop \in Loops : loop.remaining = 0 => visit[loop] = loop

LEMMA AllocatesRest ==
    ASSUME txn \in [Slots -> Payment], NEW target \in Nat, NEW over, Allocates(over, target),
           NEW S \in SUBSET Slots
    PROVE  Rests(over[S])
<1> DEFINE T == {R \in SUBSET S : Rests(over[R])}
<1>1. IsFiniteSet(S)
  BY PaymentsAssumption, FS_Subset
<1>2. {} \in T
  BY DEF Allocates, Rests
<1>3. ASSUME NEW R \in SUBSET S, R # {}, \A x \in R : R \ {x} \in T PROVE R \in T
  <2> DEFINE p == Oldest(R)
             later == over[R \ {p}]
  <2>1. p \in R /\ p \in Slots /\ R \in SUBSET Slots
    BY <1>3, FirstRows
  <2>2. later \in Visits /\ Rests(later)
    BY <1>3, <2>1 DEF Allocates
  <2>3. over[R] = Allocating(R, later, target)
    BY <1>3, <2>1 DEF Allocates
  <2> HIDE DEF later, p
  <2>4. Syncing(target) \in [Columns -> Columns]
    BY SyncingColumns
  <2>5. \A loop \in Loops : over[R][loop] = later[Round(loop, p, Syncing(target))]
    BY <1>3, <2>1, <2>2, <2>3, AllocatingVisits DEF p
  <2>6. ASSUME NEW loop \in Loops, loop.remaining = 0 PROVE over[R][loop] = loop
    <3>1. Share(loop, p) \in 0 .. MaxAmount /\ Share(loop, p) <= loop.remaining
      BY <2>1, <2>4, RoundStep
    <3>2. Share(loop, p) = 0
      BY <2>6, <3>1, PaymentsAssumption
    <3>3. Round(loop, p, Syncing(target)) = loop
      BY <2>1, <2>4, <3>2, RoundStep
    <3> QED
      BY <2>2, <2>5, <2>6, <3>3 DEF Rests
  <2>7. Rests(over[R])
    BY <2>6 DEF Rests
  <2> QED
    BY <2>7
<1> HIDE DEF T
<1>4. S \in T
  BY <1>1, <1>2, <1>3, SetCounting
<1> QED
  BY <1>4 DEF T

\* A loop that has to refund what one payment p has too much, and no other has
\* anything left, refunds exactly that, once it comes to p.
RefundsFrom(visit, p, target) ==
    \A loop \in Loops :
        /\ Within(loop.used) /\ LeftIn({p}, loop.used)
        /\ NetOf(loop.used) = target + loop.remaining
        => NetOf(visit[loop].used) = target /\ visit[loop].remaining = 0

LEMMA AllocatesFromOne ==
    ASSUME txn \in [Slots -> Payment], NEW target \in Nat, NEW over, Allocates(over, target),
           NEW p \in Slots, NEW S \in SUBSET Slots, p \in S
    PROVE  RefundsFrom(over[S], p, target)
<1> DEFINE T == {R \in SUBSET S : p \in R => RefundsFrom(over[R], p, target)}
<1>1. IsFiniteSet(S)
  BY PaymentsAssumption, FS_Subset
<1>2. {} \in T
  OBVIOUS
<1>3. ASSUME NEW R \in SUBSET S, R # {}, \A x \in R : R \ {x} \in T PROVE R \in T
  <2> DEFINE q == Oldest(R)
             later == over[R \ {q}]
  <2>1. q \in R /\ q \in Slots /\ R \in SUBSET Slots /\ R \ {q} \in SUBSET Slots
    BY <1>3, FirstRows
  <2>2. later \in Visits /\ (q # p /\ p \in R => RefundsFrom(later, p, target))
    BY <1>3, <2>1 DEF Allocates
  <2>3. over[R] = Allocating(R, later, target)
    BY <1>3, <2>1 DEF Allocates
  <2>4. Rests(later)
    BY <2>1, AllocatesRest
  <2> HIDE DEF later, q
  <2>5. Syncing(target) \in [Columns -> Columns]
    BY SyncingColumns
  <2>6. \A loop \in Loops : over[R][loop] = later[Round(loop, q, Syncing(target))]
    BY <1>3, <2>1, <2>2, <2>3, AllocatingVisits DEF q
  <2>7. ASSUME NEW loop \in Loops, Within(loop.used), LeftIn({p}, loop.used),
               NetOf(loop.used) = target + loop.remaining, p \in R
        PROVE  NetOf(over[R][loop].used) = target /\ over[R][loop].remaining = 0
    <3> DEFINE next == Round(loop, q, Syncing(target))
    <3>1. /\ Share(loop, q) \in 0 .. MaxAmount
          /\ Share(loop, q) <= Left(loop.used, q) /\ Share(loop, q) <= loop.remaining
          /\ Left(loop.used, q) \in 0 .. MaxAmount
          /\ Raised(loop, q) \in Columns /\ loop.used \in Columns /\ loop.remaining \in Nat
          /\ next \in Loops
      BY <2>1, <2>5, RoundStep
    <3>2. Share(loop, q) = 0 => next = loop
      BY <2>1, <2>5, RoundStep
    <3>3. Share(loop, q) # 0 =>
             next = [used      |-> Syncing(target)[Raised(loop, q)],
                     remaining |-> loop.remaining - Share(loop, q)]
      BY <2>1, <2>5, RoundStep
    <3> HIDE DEF next
    <3>4. CASE q # p
      <4>1. Left(loop.used, q) = 0
        BY <2>1, <2>7, <3>4 DEF LeftIn
      <4>2. Share(loop, q) = 0
        BY <3>1, <4>1, PaymentsAssumption
      <4> QED
        BY <2>2, <2>6, <2>7, <3>2, <3>4, <4>2 DEF RefundsFrom, next
    <3>5. CASE q = p
      <4>1. NetOf(loop.used) = Left(loop.used, p)
        BY <2>7, <3>1, NetOfOne
      <4>2. Share(loop, p) = loop.remaining
        BY <2>7, <3>1, <3>5, <4>1 DEF Share, Smaller
      <4>3. CASE loop.remaining = 0
        <5>1. next = loop
          BY <3>2, <3>5, <4>2, <4>3
        <5>2. over[R][loop] = loop
          BY <2>4, <2>6, <4>3, <5>1 DEF Rests, next
        <5> QED
          BY <2>7, <4>3, <5>2
      <4>4. CASE loop.remaining # 0
        <5>1. Within(Raised(loop, p)) /\ NetOf(Raised(loop, p)) = NetOf(loop.used) - Share(loop, p)
          BY <2>7, RaisedColumn
        <5>2. NetOf(Raised(loop, p)) = target
          BY <2>7, <3>1, <4>2, <5>1
        <5>3. SyncRefunds(Raised(loop, p), target) = Raised(loop, p)
          <6>1. NetOf(Raised(loop, p)) <= target
            BY <5>2
          <6> QED
            BY <3>1, <3>5, <5>1, <6>1, SyncSettles
        <5>4. Syncing(target)[Raised(loop, p)] = Raised(loop, p)
          BY <3>1, <3>5, <5>3 DEF Syncing
        <5>5. next.used = Raised(loop, p) /\ next.remaining = 0
          BY <3>1, <3>3, <3>5, <4>2, <4>4, <5>4
        <5>6. over[R][loop] = next
          BY <2>4, <2>6, <3>1, <5>5 DEF Rests, next
        <5> QED
          BY <5>2, <5>5, <5>6
      <4> QED
        BY <4>3, <4>4
    <3> QED
      BY <3>4, <3>5
  <2>8. p \in R => RefundsFrom(over[R], p, target)
    BY <2>7 DEF RefundsFrom
  <2> QED
    BY <2>8
<1> HIDE DEF T
<1>4. S \in T
  BY <1>1, <1>2, <1>3, SetCounting
<1> QED
  BY <1>4 DEF T

-----------------------------------------------------------------------------
(* Completing a return *)

\* What complete_sales_return does to a sound ledger.
LEMMA AllocatedColumn ==
    ASSUME PInv, NEW credit \in Nat, MayCredit(credit)
    PROVE  LET target == Payable(Credited(credit))
               used   == SyncRefunds(Allocated(credit).used, target)
           IN  /\ txn \in [Slots -> Payment]
               /\ target \in Nat /\ Credited(credit) \in Order
               /\ [used |-> Used, remaining |-> RefundDue(credit)] \in Loops
               /\ Within(Used) /\ NetOf(Used) = Net(txn)
               /\ Allocated(credit).used \in Columns /\ Within(Allocated(credit).used)
               /\ used \in Columns /\ Within(used) /\ NetOf(used) <= target
<1> DEFINE target == Payable(Credited(credit))
           start == [used |-> Used, remaining |-> RefundDue(credit)]
           allocation == Allocation(target)
<1>1. txn \in [Slots -> Payment] /\ Sound(txn) /\ order \in Order /\ MaxAmount \in Nat
  BY PInvSound, PaymentsAssumption DEF Sound
<1>2. Credited(credit) \in Order
  BY <1>1 DEF Credited, Order
<1>3. target \in Nat
  BY <1>2 DEF Payable, Larger, Order
<1>4. Used \in Columns /\ Within(Used) /\ WithUsed(Used) = txn
  <2>1. \A p \in Slots : txn[p] \in Payment /\ WithinPayment(txn[p])
    BY <1>1 DEF Sound
  <2>2. \A p \in Slots : txn[p].refunded \in 0 .. MaxAmount
    BY <1>1, <2>1 DEF WithinPayment, Payment
  <2>3. \A p \in Slots : [txn[p] EXCEPT !.refunded = txn[p].refunded] = txn[p]
    BY <2>1 DEF Payment
  <2>4. \A p \in Slots : Used[p] = txn[p].refunded
    BY DEF Used
  <2>5. Used \in Columns
    BY <2>2 DEF Used, Columns
  <2>6. Within(Used)
    BY <2>1, <2>3, <2>4 DEF Within
  <2>7. WithUsed(Used) = [p \in Slots |-> txn[p]]
    BY <2>3, <2>4 DEF WithUsed
  <2> QED
    BY <1>1, <2>5, <2>6, <2>7
<1>5. NetOf(Used) = Net(txn) /\ Net(txn) \in Nat
  BY <1>1, <1>4, NetIsLeft, NetOfNat
<1>6. RefundDue(credit) \in Nat
  <2> HIDE DEF target
  <2>1. RefundDue(credit) = Smaller(Larger(Net(txn) - target, 0), credit)
    BY DEF RefundDue, target
  <2> QED
    BY <1>3, <1>5, <2>1 DEF Smaller, Larger
<1>7. start \in Loops /\ start.used = Used
  BY <1>4, <1>6 DEF Loops
<1>8. Allocated(credit) = allocation[start]
  BY DEF Allocated
<1>9. PICK over : Allocates(over, target) /\ allocation = over[Slots]
  BY <1>1, <1>3, AllocationLoops
<1> HIDE DEF target, start, allocation
<1>10. allocation \in Visits /\ Refunds(allocation)
  <2>1. Slots \in SUBSET Slots
    OBVIOUS
  <2>2. over[Slots] \in Visits
    BY <1>9, <2>1 DEF Allocates
  <2>3. Refunds(over[Slots])
    BY <1>1, <1>3, <1>9, <2>1, AllocatesRefund
  <2> QED
    BY <1>9, <2>2, <2>3
<1>11. Allocated(credit).used \in Columns /\ Within(Allocated(credit).used)
  BY <1>4, <1>7, <1>8, <1>10 DEF Refunds, Visits, Loops
<1>12. /\ SyncRefunds(Allocated(credit).used, target) \in Columns
       /\ Within(SyncRefunds(Allocated(credit).used, target))
       /\ NetOf(SyncRefunds(Allocated(credit).used, target)) <= target
  BY <1>1, <1>3, <1>11, SyncSettles
<1> QED
  BY <1>1, <1>2, <1>3, <1>4, <1>5, <1>7, <1>11, <1>12 DEF target, start

\* The step of a return, as the ledger and the order see it.
LEMMA ReturnStep ==
    ASSUME PInv, NEW credit \in Nat, CompleteSalesReturn(credit)
    PROVE  LET target == Payable(Credited(credit))
               used   == SyncRefunds(Allocated(credit).used, target)
           IN  /\ Sound(txn')
               /\ txn' = WithUsed(used)
               /\ order' = Synced(Credited(credit), txn')
               /\ Net(txn') = NetOf(used)
               /\ Incoming(txn') - Outgoing(txn') <= target
<1> DEFINE target == Payable(Credited(credit))
           used == SyncRefunds(Allocated(credit).used, target)
<1>1. MayCredit(credit) /\ txn' = WithUsed(used) /\ order' = Synced(Credited(credit), txn')
  BY DEF CompleteSalesReturn, WithUsed
<1>2. /\ txn \in [Slots -> Payment] /\ target \in Nat
      /\ used \in Columns /\ Within(used) /\ NetOf(used) <= target
  BY <1>1, AllocatedColumn
<1> HIDE DEF target, used
<1>3. /\ Sound(WithUsed(used)) /\ Net(WithUsed(used)) = NetOf(used)
      /\ Incoming(WithUsed(used)) = Incoming(txn)
      /\ Outgoing(WithUsed(used)) = Total(used, MaxAmount)
      /\ NetOf(used) = Incoming(txn) - Total(used, MaxAmount)
  BY <1>2, NetIsLeft
<1>4. /\ Incoming(txn') = Incoming(WithUsed(used)) /\ Outgoing(txn') = Outgoing(WithUsed(used))
      /\ Net(txn') = Net(WithUsed(used)) /\ Sound(txn')
  BY <1>1, <1>3
<1> QED
  BY <1>1, <1>2, <1>3, <1>4 DEF target, used

\* A completed return keeps the invariant of the payments.
LEMMA CompleteReturnPInv ==
    ASSUME PInv, NEW credit \in Nat, CompleteSalesReturn(credit)
    PROVE  PInv'
<1> DEFINE o == Credited(credit)
<1>1. /\ Sound(txn') /\ order' = Synced(o, txn')
      /\ Incoming(txn') - Outgoing(txn') <= Payable(o)
  BY ReturnStep
<1>2. o \in Order
  BY AllocatedColumn DEF CompleteSalesReturn
<1> HIDE DEF o
<1>3. order' \in Order /\ PaidFits(order', txn') /\ StatusFits(order', txn')
  BY <1>1, <1>2, SyncFits
<1> QED
  BY <1>1, <1>3 DEF PInv, Sound, PayTypeOK, RefundsWithinPayment, CacheMatchesLedger, StatusSaysPaid

\* When one payment has all there is left, the others have nothing.
LEMMA SingleSource ==
    ASSUME txn \in [Slots -> Payment], NEW used \in Columns, Within(used), NEW p \in Slots,
           Left(used, p) = NetOf(used)
    PROVE  LeftIn({p}, used)
<1> DEFINE f == [q \in Slots |-> Left(used, q)]
           g == [q \in Slots |-> IF q = p THEN 0 ELSE f[q]]
<1>1. IsFiniteSet(Slots) /\ MaxAmount \in Nat
  BY PaymentsAssumption
<1>2. f \in [Slots -> 0 .. MaxAmount] /\ Total(f, MaxAmount) = f[p]
  BY NetIsLeft
<1>3. \A q \in Slots : f[q] = Left(used, q)
  OBVIOUS
<1> HIDE DEF f
<1>4. g \in [Slots -> 0 .. MaxAmount] /\ g[p] = 0 /\ \A q \in Slots : q # p => f[q] = g[q]
  BY <1>1, <1>2
<1> HIDE DEF g
<1>5. Total(g, MaxAmount) = Total(f, MaxAmount) - f[p] + g[p]
  BY <1>1, <1>2, <1>4, TotalRowChanges
<1>6. Total(g, MaxAmount) = 0
  <2>1. f[p] \in Nat
    BY <1>1, <1>2
  <2> QED
    BY <1>2, <1>4, <1>5, <2>1
<1>7. ASSUME NEW q \in Slots, q # p PROVE g[q] = 0
  <2> DEFINE only == [r \in Slots |-> IF r = q THEN g[q] ELSE 0]
  <2>1. g[q] \in 0 .. MaxAmount
    BY <1>4
  <2>2. only \in [Slots -> 0 .. MaxAmount] /\ \A r \in Slots : only[r] <= g[r]
    <3>1. \A r \in Slots : g[r] \in 0 .. MaxAmount
      BY <1>4
    <3> QED
      BY <1>1, <3>1
  <2>3. Total(only, MaxAmount) = g[q]
    BY <1>1, <2>1, TotalSingle
  <2> HIDE DEF only
  <2>4. Total(only, MaxAmount) <= Total(g, MaxAmount)
    BY <1>1, <1>4, <2>2, TotalMonotone
  <2> QED
    BY <1>1, <1>6, <2>1, <2>3, <2>4
<1> QED
  BY <1>3, <1>4, <1>7 DEF LeftIn

\* What a return refunds is what its credit makes an overpayment.
LEMMA RefundIsOverpayment ==
    ASSUME PInv, NEW credit \in Nat, MayCredit(credit)
    PROVE  RefundDue(credit) = Larger(Net(txn) - Payable(Credited(credit)), 0)
<1>1. order \in Order /\ Sound(txn)
  BY PInvSound
<1>2. Net(txn) = Incoming(txn) - Outgoing(txn) /\ Incoming(txn) \in Nat /\ Outgoing(txn) \in Nat
  BY <1>1, SoundSums
<1>3. order.paid = Net(txn) /\ order.paid <= Payable(order) /\ order.paid \in Nat
  BY <1>1, <1>2 DEF PInv, CacheMatchesLedger, PaidFits, Order
<1>4. order.credit + credit <= order.total /\ order.credit \in Nat /\ order.total \in Nat
  BY <1>1 DEF MayCredit, Order
<1>5. Payable(order) = order.total - order.credit
  BY <1>4 DEF Payable, Larger
<1>6. Payable(Credited(credit)) = order.total - order.credit - credit
  <2>1. Credited(credit).total = order.total /\ Credited(credit).credit = order.credit + credit
    BY <1>1 DEF Credited, Order
  <2> QED
    BY <1>4, <2>1 DEF Payable, Larger
<1>7. RefundDue(credit) = Smaller(Larger(Net(txn) - Payable(Credited(credit)), 0), credit)
  BY DEF RefundDue
<1> QED
  BY <1>2, <1>3, <1>4, <1>5, <1>6, <1>7 DEF Larger, Smaller

\* With one payment to refund from, a return refunds the overpayment and no more.
LEMMA ReturnIsExact ==
    ASSUME PInv, NEW credit \in Nat, CompleteSalesReturn(credit),
           NEW p \in Slots, Refundable(txn[p]) = Net(txn)
    PROVE  Net(txn') = Smaller(Net(txn), Payable(order'))
<1> DEFINE target == Payable(Credited(credit))
           allocated == Allocated(credit)
           start == [used |-> Used, remaining |-> RefundDue(credit)]
<1>1. /\ txn \in [Slots -> Payment] /\ target \in Nat /\ Credited(credit) \in Order
      /\ start \in Loops /\ start.used = Used /\ start.remaining = RefundDue(credit)
      /\ Within(Used) /\ NetOf(Used) = Net(txn)
      /\ allocated.used \in Columns /\ Within(allocated.used)
  BY AllocatedColumn DEF CompleteSalesReturn
<1>2. /\ order' = Synced(Credited(credit), txn')
      /\ Net(txn') = NetOf(SyncRefunds(allocated.used, target))
  BY ReturnStep
<1>3. Payable(order') = target
  BY <1>1, <1>2 DEF Synced, Payable, Order
<1>4. RefundDue(credit) = Larger(Net(txn) - target, 0)
  BY RefundIsOverpayment DEF CompleteSalesReturn
<1>5. allocated = Allocation(target)[start]
  BY DEF Allocated
<1> HIDE DEF target, allocated, start
<1>6. PICK over : Allocates(over, target) /\ Allocation(target) = over[Slots]
  BY <1>1, AllocationLoops
<1>7. Used \in Columns /\ LeftIn({p}, Used) /\ Net(txn) \in Nat
  <2>1. Used \in Columns
    BY <1>1 DEF Loops
  <2>2. Left(Used, p) = Refundable(txn[p])
    BY DEF Left, Refundable, Used
  <2> QED
    BY <1>1, <2>1, <2>2, SingleSource, NetOfNat
<1>8. Slots \in SUBSET Slots
  OBVIOUS
<1>9. CASE Net(txn) <= target
  <2>1. start.remaining = 0
    BY <1>1, <1>4, <1>7, <1>9 DEF Larger
  <2>2. Rests(over[Slots])
    BY <1>1, <1>6, <1>8, AllocatesRest
  <2>3. allocated = start
    BY <1>1, <1>5, <1>6, <2>1, <2>2 DEF Rests
  <2>4. SyncRefunds(Used, target) = Used
    BY <1>1, <1>7, <1>9, SyncSettles
  <2>5. Net(txn') = Net(txn)
    BY <1>1, <1>2, <2>3, <2>4
  <2> QED
    BY <1>3, <1>9, <2>5 DEF Smaller
<1>10. CASE ~(Net(txn) <= target)
  <2>1. NetOf(start.used) = target + start.remaining
    BY <1>1, <1>4, <1>7, <1>10 DEF Larger
  <2>2. RefundsFrom(over[Slots], p, target)
    BY <1>1, <1>6, <1>8, AllocatesFromOne
  <2>3. NetOf(allocated.used) = target
    BY <1>1, <1>5, <1>6, <1>7, <2>1, <2>2 DEF RefundsFrom
  <2>4. SyncRefunds(allocated.used, target) = allocated.used
    <3>1. NetOf(allocated.used) <= target
      BY <1>1, <2>3
    <3> QED
      BY <1>1, <3>1, SyncSettles
  <2>5. Net(txn') = target
    BY <1>2, <2>3, <2>4
  <2> QED
    BY <1>3, <1>10, <2>5 DEF Smaller
<1> QED
  BY <1>9, <1>10

-----------------------------------------------------------------------------
(* The order form, and the dues of the reports *)

\* The amount an open form shows was the amount of the order once.
FormInv ==
    /\ PInv
    /\ order.total <= MaxAmount
    /\ page.paid \in 0 .. MaxAmount

\* No service makes a total the form could not show.
LEMMA TotalStays ==
    ASSUME PInv, order.total <= MaxAmount, PayNext
    PROVE  order'.total <= MaxAmount
<1>1. order \in Order
  BY PInvSound
<1>2. CASE order' = order
  BY <1>2
<1>3. CASE order' = Synced(order, txn')
  BY <1>1, <1>3 DEF Synced, Order
<1>4. CASE Update
  <2>1. PICK desired \in 0 .. MaxAmount : UpdateOrderPayment(desired)
    BY <1>4 DEF Update
  <2>2. \/ order' = [order EXCEPT !.paid = desired,
                                  !.payStatus = DerivedStatus([order EXCEPT !.paid = desired])]
        \/ order' = Synced(order, txn')
    BY <2>1 DEF UpdateOrderPayment
  <2> QED
    BY <1>1, <1>3, <2>2 DEF Order
<1>5. CASE Edit
  <2>1. PICK s \in Editable, total \in 0 .. MaxAmount, desired \in 0 .. MaxAmount :
           EditOrder(s, total, desired)
    BY <1>5 DEF Edit
  <2>2. order'.total = total
    BY <1>1, <2>1 DEF EditOrder, Order
  <2> QED
    BY <2>2, PaymentsAssumption
<1>6. CASE Transition
  BY <1>1, <1>6 DEF Transition, TransitionOrder, Order
<1> QED
  BY <1>2, <1>3, <1>4, <1>5, <1>6
  DEF PayNext, Capture, CapturePayment, Register, RegisterPayment, CompletePending,
      CompletePendingPayment, Fail, FailPendingPayment, Refund, RefundPayment,
      Reversal, ReversePayment, Reconcile, ReconcilePayment

LEMMA FormInitInv == FormInit => FormInv
<1> SUFFICES ASSUME FormInit PROVE FormInv
  OBVIOUS
<1>1. PInv
  BY PayInitPInv DEF FormInit
<1>2. order.total <= MaxAmount
  BY PaymentsAssumption DEF FormInit, PayInit
<1>3. page.paid \in 0 .. MaxAmount
  BY PaymentsAssumption DEF FormInit, Closed
<1> QED
  BY <1>1, <1>2, <1>3 DEF FormInv

LEMMA FormNextInv == FormInv /\ [FormNext]_formVars => FormInv'
<1> SUFFICES ASSUME FormInv, [FormNext]_formVars PROVE FormInv'
  OBVIOUS
<1>1. /\ PInv /\ order \in Order /\ order.total <= MaxAmount
      /\ page.paid \in 0 .. MaxAmount /\ MaxAmount \in Nat
  BY PInvSound, PaymentsAssumption DEF FormInv
<1>2. CASE UNCHANGED payVars
  <2>1. PInv'
    BY <1>1, <1>2, PayNextPInv
  <2>2. order'.total <= MaxAmount
    BY <1>1, <1>2 DEF payVars
  <2>3. order.paid \in 0 .. MaxAmount
    <3>1. order.paid <= Payable(order)
      BY <1>1 DEF PInv, CacheMatchesLedger, PaidFits
    <3> QED
      BY <1>1, <3>1 DEF Payable, Larger, Order
  <2>4. page'.paid \in 0 .. MaxAmount
    <3>1. CASE OpenForm
      BY <2>3, <3>1 DEF OpenForm
    <3>2. CASE page' = Closed
      BY <1>1, <3>2 DEF Closed
    <3>3. CASE UNCHANGED page
      BY <1>1, <3>3
    <3> QED
      BY <3>1, <3>2, <3>3 DEF FormNext, formVars, SubmitForm, AbandonForm
  <2> QED
    BY <2>1, <2>2, <2>4 DEF FormInv
<1>3. CASE SubmitForm
  <2>1. Edit
    BY <1>1, <1>3 DEF SubmitForm, Edit
  <2>2. PayNext
    BY <2>1 DEF PayNext
  <2>3. PInv'
    BY <1>1, <2>2, PayNextPInv
  <2>4. order'.total <= MaxAmount
    BY <1>1, <2>2, TotalStays
  <2>5. page'.paid = 0
    BY <1>3 DEF SubmitForm, Closed
  <2> QED
    BY <1>1, <2>3, <2>4, <2>5 DEF FormInv
<1>4. CASE PayNext /\ UNCHANGED page
  <2>1. PInv'
    BY <1>1, <1>4, PayNextPInv
  <2>2. order'.total <= MaxAmount
    BY <1>1, <1>4, TotalStays
  <2> QED
    BY <1>1, <1>4, <2>1, <2>2 DEF FormInv
<1>5. CASE Return /\ UNCHANGED page
  <2>1. PICK credit \in 0 .. MaxAmount : CompleteSalesReturn(credit)
    BY <1>5 DEF Return
  <2>2. PInv'
    BY <1>1, <2>1, CompleteReturnPInv
  <2>3. order'.total = order.total
    BY <1>1, <2>1 DEF CompleteSalesReturn, Credited, Synced, Order
  <2> QED
    BY <1>1, <1>5, <2>2, <2>3 DEF FormInv
<1> QED
  BY <1>2, <1>3, <1>4, <1>5
  DEF FormNext, OpenForm, AbandonForm, RetNext, formVars, payVars

\* The payments, with the order form open at any time and returns completed between
\* the payments, never leave their invariant.
THEOREM FormsInvariant == FormSpec => []FormInv
<1> QED
  BY FormInitInv, FormNextInv, PTL DEF FormSpec

\* The cached amount is what the ledger says and never more than is payable: through a
\* form posted late, and through the refunds a return makes in the middle of its loop.
THEOREM FormsKeepLedger == FormSpec => []CacheMatchesLedger
<1>1. FormInv => CacheMatchesLedger
  BY DEF FormInv, PInv
<1> QED
  BY <1>1, FormsInvariant, PTL

\* So the payment status fits the amounts through forms and returns.
THEOREM FormsKeepStatus == FormSpec => []StatusSaysPaid
<1>1. FormInv => StatusSaysPaid
  BY DEF FormInv, PInv
<1> QED
  BY <1>1, FormsInvariant, PTL

\* And every part of the net amount is refundable on some payment.
THEOREM FormsKeepRefundable == FormSpec => []NetIsRefundable
<1>1. FormInv => NetIsRefundable
  BY PInvSound, SoundSums DEF FormInv, NetIsRefundable
<1> QED
  BY <1>1, FormsInvariant, PTL

\* A return that finds its refund on one payment gives back exactly the overpayment,
\* for any number of payments, amounts and credits.
THEOREM ReturnsRefundOverpayment == FormSpec => SingleSourceExact
<1>1. FormInv /\ [FormNext]_formVars =>
         [Return => \A p \in Slots :
             Refundable(txn[p]) = Net(txn) =>
                 Net(txn') = Smaller(Net(txn), Payable(order'))]_payVars
  <2> SUFFICES ASSUME FormInv, Return, NEW p \in Slots, Refundable(txn[p]) = Net(txn)
               PROVE  Net(txn') = Smaller(Net(txn), Payable(order'))
    OBVIOUS
  <2>1. PICK credit \in 0 .. MaxAmount : CompleteSalesReturn(credit)
    BY DEF Return
  <2> QED
    BY <2>1, ReturnIsExact DEF FormInv
<1> QED
  BY <1>1, FormsInvariant, PTL DEF FormSpec, SingleSourceExact

\* The services beside the returns keep the invariant of the payments as well.
LEMMA ReturnsNextPInv == ReturnInv /\ PInv /\ [ReturnsNext]_returnVars => PInv'
<1> SUFFICES ASSUME ReturnInv, PInv, [ReturnsNext]_returnVars PROVE PInv'
  OBVIOUS
<1>1. CASE UNCHANGED payVars
  BY <1>1, PayNextPInv
<1>2. CASE Finish
  <2>1. PICK r \in Returns : CompleteReturn(r)
    BY <1>2 DEF Finish
  <2>2. CompleteSalesReturn(CreditOf(returns[r].lines))
    BY <2>1 DEF CompleteReturn
  <2>3. CreditOf(returns[r].lines) \in Nat
    <3>1. returns[r].lines \in [Items -> ReturnLine] /\ LinesFit(returns[r].lines)
      BY DEF ReturnInv, ReturnTypes, ReturnRow
    <3>2. /\ CreditOf(returns[r].lines) \in 0 .. Total(LineTotal, MaxAmount)
          /\ Total(LineTotal, MaxAmount) \in Nat
      BY <3>1, LineSums
    <3> QED
      BY <3>2
  <2> QED
    BY <2>2, <2>3, CompleteReturnPInv
<1>3. CASE Capture \/ Refund \/ Reversal \/ Transition
  BY <1>3, PayNextPInv DEF PayNext
<1> QED
  BY <1>1, <1>2, <1>3
  DEF ReturnsNext, returnVars, payVars, Create, CreateSalesReturn, Advance, TransitionSalesReturn

\* The due report and the order say the same of what the customer owes, for any items,
\* returns and payments (_customer_due_report of reports/stock_purchase.py).
THEOREM DuesReportIsTrue == ReturnsSpec => []DuesAgree
<1>1. ReturnsInit => PInv
  BY PayInitPInv DEF ReturnsInit
<1>2. ReturnInv /\ PInv => DuesAgree
  <2> SUFFICES ASSUME ReturnInv, PInv, order.status \notin {"draft", "cancelled"}
               PROVE  CustomerDue = AmountDue
    BY DEF DuesAgree
  <2>1. /\ CompletedCredit = order.credit
        /\ CustomerDue = Larger(order.total - CompletedCredit - NetPaid, 0)
        /\ AmountDue = Larger(Larger(order.total - order.credit, 0) - order.paid, 0)
    BY DEF ReturnInv, AfterSalesAgree, CustomerDue, AmountDue, Payable
  <2>2. NetPaid = Incoming(txn) - Outgoing(txn)
    BY DEF NetPaid, PageMoneyIn, PageMoneyOut, Incoming, Outgoing
  <2>3. NetPaid = order.paid
    BY <2>2 DEF PInv, CacheMatchesLedger, PaidFits
  <2>4. order.total \in Nat /\ order.credit \in Nat /\ order.paid \in Nat
    BY PInvSound DEF Order
  <2> QED
    BY <2>1, <2>3, <2>4 DEF Larger
<1> QED
  BY <1>1, <1>2, ReturnsNextPInv, ReturnsInvariant, PTL DEF ReturnsSpec
=============================================================================
