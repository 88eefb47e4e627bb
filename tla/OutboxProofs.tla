---------------------------- MODULE OutboxProofs ----------------------------
(***************************************************************************)
(* Outbox, for any number of messages, workers, retry pages and attempts.  *)
(* AttemptsWithinLimit needs that a row in a worker's hands has an attempt *)
(* left; DeliveredOnce that each delivery is on record somewhere: in the   *)
(* row, with the worker that still holds it, or with what went wrong.      *)
(***************************************************************************)
EXTENDS Outbox, TLAPS

Row  == [status : {"absent", "pending", "failed", "sent"}, attempts : Nat, due : BOOLEAN]
Run  == [batch : SUBSET Keys, msg : Keys \cup {NoKey}, accepted : BOOLEAN]
Page == [msg : Keys \cup {NoKey}, sent : BOOLEAN]

OutTypes ==
    /\ rows \in [Keys -> Row]
    /\ runs \in [Workers -> Run]
    /\ pages \in [Admins -> Page]
    /\ delivered \in [Keys -> Nat]
    /\ faults \in [Keys -> Nat]
    /\ requeued \in [Keys -> Nat]

\* The row lock: one holder, whose row was processable and still is.
LockHeldOnce ==
    /\ \A w, x \in Workers : runs[w].msg = runs[x].msg /\ runs[w].msg # NoKey => w = x
    /\ \A w \in Workers :
          /\ runs[w].accepted => runs[w].msg # NoKey
          /\ runs[w].msg # NoKey =>
                /\ rows[runs[w].msg].status # "sent"
                /\ rows[runs[w].msg].attempts < MaxAttempts

\* A provider has accepted k from the worker that holds it.
InHand(k) == \E w \in Workers : runs[w].msg = k /\ runs[w].accepted

OnRecord(k) ==
    (IF rows[k].status = "sent" THEN 1 ELSE 0) + (IF InHand(k) THEN 1 ELSE 0)

DeliveriesExplained ==
    \A k \in Keys : delivered[k] <= OnRecord(k) + faults[k] + requeued[k]

OutInv == OutTypes /\ LockHeldOnce /\ AttemptsWithinLimit /\ DeliveriesExplained
-----------------------------------------------------------------------------
(* Types and the row lock *)

\* What a failed attempt leaves is a row.
LEMMA FailedRowType ==
    ASSUME NEW row \in Row
    PROVE  FailedRow(row) \in Row
BY DEF FailedRow, Row

LEMMA CommitEventKeeps ==
    ASSUME OutTypes, LockHeldOnce, AttemptsWithinLimit, NEW k \in Keys, CommitEvent(k)
    PROVE  OutTypes' /\ LockHeldOnce' /\ AttemptsWithinLimit'
<1>1. OutTypes'
  BY OutboxAssumption DEF CommitEvent, OutTypes, Row, Run, Page
<1>2. LockHeldOnce'
  BY OutboxAssumption DEF CommitEvent, OutTypes, LockHeldOnce, Row, Run
<1>3. AttemptsWithinLimit'
  BY OutboxAssumption DEF CommitEvent, OutTypes, LockHeldOnce, AttemptsWithinLimit, Row, Run
<1> QED
  BY <1>1, <1>2, <1>3

LEMMA EnqueueKeeps ==
    ASSUME OutTypes, LockHeldOnce, AttemptsWithinLimit, NEW k \in Keys, Enqueue(k)
    PROVE  OutTypes' /\ LockHeldOnce' /\ AttemptsWithinLimit'
<1>1. OutTypes'
  BY OutboxAssumption DEF Enqueue, NoRow, NewRow, OutTypes, Row, Run, Page
<1>2. LockHeldOnce'
  BY OutboxAssumption DEF Enqueue, NewRow, OutTypes, LockHeldOnce, Row, Run
<1>3. AttemptsWithinLimit'
  BY OutboxAssumption DEF Enqueue, NewRow, OutTypes, LockHeldOnce, AttemptsWithinLimit, Row, Run
<1> QED
  BY <1>1, <1>2, <1>3

LEMMA LoseEventKeeps ==
    ASSUME OutTypes, LockHeldOnce, AttemptsWithinLimit, NEW k \in Keys, LoseEvent(k)
    PROVE  OutTypes' /\ LockHeldOnce' /\ AttemptsWithinLimit'
<1>1. OutTypes'
  BY OutboxAssumption DEF LoseEvent, OutTypes, Row, Run, Page
<1>2. LockHeldOnce'
  BY OutboxAssumption DEF LoseEvent, OutTypes, LockHeldOnce, Row, Run
<1>3. AttemptsWithinLimit'
  BY OutboxAssumption DEF LoseEvent, OutTypes, LockHeldOnce, AttemptsWithinLimit, Row, Run
<1> QED
  BY <1>1, <1>2, <1>3

LEMMA BecomeDueKeeps ==
    ASSUME OutTypes, LockHeldOnce, AttemptsWithinLimit, NEW k \in Keys, BecomeDue(k)
    PROVE  OutTypes' /\ LockHeldOnce' /\ AttemptsWithinLimit'
<1>1. OutTypes'
  BY OutboxAssumption DEF BecomeDue, OutTypes, Row, Run, Page
<1>2. LockHeldOnce'
  BY OutboxAssumption DEF BecomeDue, OutTypes, LockHeldOnce, Row, Run
<1>3. AttemptsWithinLimit'
  BY OutboxAssumption DEF BecomeDue, OutTypes, LockHeldOnce, AttemptsWithinLimit, Row, Run
<1> QED
  BY <1>1, <1>2, <1>3

LEMMA ListKeeps ==
    ASSUME OutTypes, LockHeldOnce, AttemptsWithinLimit, NEW w \in Workers, List(w)
    PROVE  OutTypes' /\ LockHeldOnce' /\ AttemptsWithinLimit'
<1>1. OutTypes'
  BY OutboxAssumption DEF List, Idle, OutTypes, Row, Run, Page
<1>2. LockHeldOnce'
  BY OutboxAssumption DEF List, Idle, OutTypes, LockHeldOnce, Row, Run
<1>3. AttemptsWithinLimit'
  BY OutboxAssumption DEF List, OutTypes, LockHeldOnce, AttemptsWithinLimit, Row, Run
<1> QED
  BY <1>1, <1>2, <1>3

LEMMA TakeKeeps ==
    ASSUME OutTypes, LockHeldOnce, AttemptsWithinLimit, NEW w \in Workers, NEW k \in Keys, Take(w, k)
    PROVE  OutTypes' /\ LockHeldOnce' /\ AttemptsWithinLimit'
<1> DEFINE run == [runs[w] EXCEPT !.batch = @ \ {k},
                                  !.msg = IF Processable(rows[k]) THEN k ELSE NoKey]
<1>1. OutTypes'
  <2>1. runs[w] \in Run /\ run \in Run
    BY DEF OutTypes, Run
  <2>2. runs' = [runs EXCEPT ![w] = run]
    BY <2>1 DEF Take, Run
  <2> QED
    BY <2>1, <2>2 DEF Take, OutTypes
<1>2. LockHeldOnce'
  BY OutboxAssumption DEF Take, Processable, Locked, OutTypes, LockHeldOnce, Row, Run
<1>3. AttemptsWithinLimit'
  BY OutboxAssumption DEF Take, OutTypes, LockHeldOnce, AttemptsWithinLimit, Row, Run
<1> QED
  BY <1>1, <1>2, <1>3

LEMMA AcceptKeeps ==
    ASSUME OutTypes, LockHeldOnce, AttemptsWithinLimit, NEW w \in Workers, Accept(w)
    PROVE  OutTypes' /\ LockHeldOnce' /\ AttemptsWithinLimit'
<1>1. OutTypes'
  <2>1. runs[w] \in Run /\ runs[w].msg \in Keys
    BY DEF Accept, OutTypes, Run
  <2>2. [runs[w] EXCEPT !.accepted = TRUE] \in Run
    BY <2>1 DEF Run
  <2>3. runs' \in [Workers -> Run]
    BY <2>2 DEF Accept, OutTypes
  <2>4. delivered[runs[w].msg] + 1 \in Nat
    BY <2>1 DEF OutTypes
  <2>5. delivered' = [delivered EXCEPT ![runs[w].msg] = delivered[runs[w].msg] + 1]
    BY DEF Accept
  <2>6. delivered' \in [Keys -> Nat]
    BY <2>4, <2>5 DEF OutTypes
  <2> QED
    BY <2>3, <2>6 DEF Accept, OutTypes
<1>2. LockHeldOnce'
  BY OutboxAssumption DEF Accept, OutTypes, LockHeldOnce, Row, Run
<1>3. AttemptsWithinLimit'
  BY OutboxAssumption DEF Accept, OutTypes, LockHeldOnce, AttemptsWithinLimit, Row, Run
<1> QED
  BY <1>1, <1>2, <1>3

LEMMA RecordSentKeeps ==
    ASSUME OutTypes, LockHeldOnce, AttemptsWithinLimit, NEW w \in Workers, RecordSent(w)
    PROVE  OutTypes' /\ LockHeldOnce' /\ AttemptsWithinLimit'
<1>1. OutTypes'
  BY OutboxAssumption DEF RecordSent, Released, OutTypes, Row, Run, Page
<1>2. LockHeldOnce'
  BY OutboxAssumption DEF RecordSent, Released, OutTypes, LockHeldOnce, Row, Run
<1>3. AttemptsWithinLimit'
  BY OutboxAssumption DEF RecordSent, OutTypes, LockHeldOnce, AttemptsWithinLimit, Row, Run
<1> QED
  BY <1>1, <1>2, <1>3

LEMMA RecordFailureKeeps ==
    ASSUME OutTypes, LockHeldOnce, AttemptsWithinLimit, NEW w \in Workers, RecordFailure(w)
    PROVE  OutTypes' /\ LockHeldOnce' /\ AttemptsWithinLimit'
<1>1. OutTypes'
  <2>1. runs[w].msg \in Keys /\ runs[w] \in Run
    BY DEF RecordFailure, OutTypes, Run
  <2>2. FailedRow(rows[runs[w].msg]) \in Row
    <3>1. rows[runs[w].msg] \in Row
      BY <2>1 DEF OutTypes
    <3> QED
      BY <3>1, FailedRowType
  <2>3. rows' \in [Keys -> Row]
    BY <2>2 DEF RecordFailure, OutTypes
  <2>4. runs' \in [Workers -> Run]
    BY <2>1 DEF RecordFailure, Released, OutTypes, Run
  <2>5. faults' \in [Keys -> Nat]
    <3>1. faults[runs[w].msg] \in Nat /\ faults[runs[w].msg] + 1 \in Nat
      BY <2>1 DEF OutTypes
    <3>2. faults' = [faults EXCEPT ![runs[w].msg] =
                        IF runs[w].accepted THEN faults[runs[w].msg] + 1 ELSE faults[runs[w].msg]]
      BY DEF RecordFailure
    <3> QED
      BY <3>1, <3>2 DEF OutTypes
  <2> QED
    BY <2>3, <2>4, <2>5 DEF RecordFailure, OutTypes
<1>2. LockHeldOnce'
  BY OutboxAssumption DEF RecordFailure, FailedRow, Released, OutTypes, LockHeldOnce, Row, Run
<1>3. AttemptsWithinLimit'
  BY OutboxAssumption DEF RecordFailure, FailedRow, OutTypes, LockHeldOnce, AttemptsWithinLimit, Row, Run
<1> QED
  BY <1>1, <1>2, <1>3

LEMMA CrashWorkerKeeps ==
    ASSUME OutTypes, LockHeldOnce, AttemptsWithinLimit, NEW w \in Workers, CrashWorker(w)
    PROVE  OutTypes' /\ LockHeldOnce' /\ AttemptsWithinLimit'
<1>1. OutTypes'
  BY OutboxAssumption DEF CrashWorker, Idle, OutTypes, Row, Run, Page
<1>2. LockHeldOnce'
  BY OutboxAssumption DEF CrashWorker, Idle, OutTypes, LockHeldOnce, Row, Run
<1>3. AttemptsWithinLimit'
  BY OutboxAssumption DEF CrashWorker, OutTypes, LockHeldOnce, AttemptsWithinLimit, Row, Run
<1> QED
  BY <1>1, <1>2, <1>3

LEMMA LoadForRetryKeeps ==
    ASSUME OutTypes, LockHeldOnce, AttemptsWithinLimit, NEW a \in Admins, NEW k \in Keys, LoadForRetry(a, k)
    PROVE  OutTypes' /\ LockHeldOnce' /\ AttemptsWithinLimit'
<1>1. OutTypes'
  BY OutboxAssumption DEF LoadForRetry, NoPage, OutTypes, Row, Run, Page
<1>2. LockHeldOnce'
  BY OutboxAssumption DEF LoadForRetry, OutTypes, LockHeldOnce, Row, Run
<1>3. AttemptsWithinLimit'
  BY OutboxAssumption DEF LoadForRetry, OutTypes, LockHeldOnce, AttemptsWithinLimit, Row, Run
<1> QED
  BY <1>1, <1>2, <1>3

LEMMA SaveRetryKeeps ==
    ASSUME OutTypes, LockHeldOnce, AttemptsWithinLimit, NEW a \in Admins, SaveRetry(a)
    PROVE  OutTypes' /\ LockHeldOnce' /\ AttemptsWithinLimit'
<1>1. OutTypes'
  BY OutboxAssumption DEF SaveRetry, NoPage, OutTypes, Row, Run, Page
<1>2. LockHeldOnce'
  BY OutboxAssumption DEF SaveRetry, Locked, OutTypes, LockHeldOnce, Row, Run
<1>3. AttemptsWithinLimit'
  BY OutboxAssumption DEF SaveRetry, OutTypes, LockHeldOnce, AttemptsWithinLimit, Row, Run
<1> QED
  BY <1>1, <1>2, <1>3

-----------------------------------------------------------------------------
(* Where a delivery is on record *)

\* A step after which nothing is delivered that was not before, and no record of
\* a delivery is lost without a fault or a requeueing to show for it.
LEMMA RecordsKept ==
    ASSUME OutTypes, OutTypes', DeliveriesExplained,
           \A k \in Keys : delivered'[k] - delivered[k]
                             <= OnRecord(k)' - OnRecord(k)
                                + (faults'[k] - faults[k]) + (requeued'[k] - requeued[k])
    PROVE  DeliveriesExplained'
<1> SUFFICES ASSUME NEW k \in Keys
             PROVE  delivered'[k] <= OnRecord(k)' + faults'[k] + requeued'[k]
  BY DEF DeliveriesExplained
<1>1. /\ delivered[k] \in Nat /\ faults[k] \in Nat /\ requeued[k] \in Nat
      /\ delivered'[k] \in Nat /\ faults'[k] \in Nat /\ requeued'[k] \in Nat
  BY DEF OutTypes
<1>2. OnRecord(k) \in 0 .. 2 /\ OnRecord(k)' \in 0 .. 2
  BY DEF OnRecord
<1>3. delivered[k] <= OnRecord(k) + faults[k] + requeued[k]
  BY DEF DeliveriesExplained
<1>4. delivered'[k] - delivered[k]
        <= OnRecord(k)' - OnRecord(k)
           + (faults'[k] - faults[k]) + (requeued'[k] - requeued[k])
  OBVIOUS
<1> QED
  BY <1>1, <1>2, <1>3, <1>4

LEMMA CommitEventExplained ==
    ASSUME OutTypes, LockHeldOnce, OutTypes', DeliveriesExplained, NEW k \in Keys, CommitEvent(k)
    PROVE  DeliveriesExplained'
<1>1. ASSUME NEW j \in Keys
      PROVE  delivered'[j] - delivered[j]
               <= OnRecord(j)' - OnRecord(j)
                  + (faults'[j] - faults[j]) + (requeued'[j] - requeued[j])
  BY OutboxAssumption DEF CommitEvent, OutTypes, LockHeldOnce, OnRecord, InHand, Row, Run, Page
<1> QED
  BY <1>1, RecordsKept

LEMMA EnqueueExplained ==
    ASSUME OutTypes, LockHeldOnce, OutTypes', DeliveriesExplained, NEW k \in Keys, Enqueue(k)
    PROVE  DeliveriesExplained'
<1>1. ASSUME NEW j \in Keys
      PROVE  delivered'[j] - delivered[j]
               <= OnRecord(j)' - OnRecord(j)
                  + (faults'[j] - faults[j]) + (requeued'[j] - requeued[j])
  BY OutboxAssumption DEF Enqueue, NoRow, NewRow, OutTypes, LockHeldOnce, OnRecord, InHand, Row, Run, Page
<1> QED
  BY <1>1, RecordsKept

LEMMA LoseEventExplained ==
    ASSUME OutTypes, LockHeldOnce, OutTypes', DeliveriesExplained, NEW k \in Keys, LoseEvent(k)
    PROVE  DeliveriesExplained'
<1>1. ASSUME NEW j \in Keys
      PROVE  delivered'[j] - delivered[j]
               <= OnRecord(j)' - OnRecord(j)
                  + (faults'[j] - faults[j]) + (requeued'[j] - requeued[j])
  BY OutboxAssumption DEF LoseEvent, OutTypes, LockHeldOnce, OnRecord, InHand, Row, Run, Page
<1> QED
  BY <1>1, RecordsKept

LEMMA BecomeDueExplained ==
    ASSUME OutTypes, LockHeldOnce, OutTypes', DeliveriesExplained, NEW k \in Keys, BecomeDue(k)
    PROVE  DeliveriesExplained'
<1>1. ASSUME NEW j \in Keys
      PROVE  delivered'[j] - delivered[j]
               <= OnRecord(j)' - OnRecord(j)
                  + (faults'[j] - faults[j]) + (requeued'[j] - requeued[j])
  BY OutboxAssumption DEF BecomeDue, OutTypes, LockHeldOnce, OnRecord, InHand, Row, Run, Page
<1> QED
  BY <1>1, RecordsKept

LEMMA ListExplained ==
    ASSUME OutTypes, LockHeldOnce, OutTypes', DeliveriesExplained, NEW w \in Workers, List(w)
    PROVE  DeliveriesExplained'
<1>1. ASSUME NEW j \in Keys
      PROVE  delivered'[j] - delivered[j]
               <= OnRecord(j)' - OnRecord(j)
                  + (faults'[j] - faults[j]) + (requeued'[j] - requeued[j])
  BY OutboxAssumption DEF List, Idle, OutTypes, LockHeldOnce, OnRecord, InHand, Row, Run, Page
<1> QED
  BY <1>1, RecordsKept

LEMMA TakeExplained ==
    ASSUME OutTypes, LockHeldOnce, OutTypes', DeliveriesExplained,
           NEW w \in Workers, NEW k \in Keys, Take(w, k)
    PROVE  DeliveriesExplained'
<1>1. ~runs[w].accepted /\ ~runs'[w].accepted
  BY DEF Take, OutTypes, Run, LockHeldOnce
<1>2. \A x \in Workers \ {w} : runs'[x] = runs[x]
  BY DEF Take, OutTypes
<1>3. \A j \in Keys : InHand(j)' <=> InHand(j)
  BY <1>1, <1>2 DEF InHand
<1>4. \A j \in Keys : OnRecord(j)' = OnRecord(j)
  BY <1>3 DEF OnRecord, Take
<1> QED
  BY <1>4 DEF Take, DeliveriesExplained

LEMMA AcceptExplained ==
    ASSUME OutTypes, LockHeldOnce, OutTypes', DeliveriesExplained, NEW w \in Workers, Accept(w)
    PROVE  DeliveriesExplained'
<1>1. ASSUME NEW j \in Keys
      PROVE  delivered'[j] - delivered[j]
               <= OnRecord(j)' - OnRecord(j)
                  + (faults'[j] - faults[j]) + (requeued'[j] - requeued[j])
  BY OutboxAssumption DEF Accept, OutTypes, LockHeldOnce, OnRecord, InHand, Row, Run, Page
<1> QED
  BY <1>1, RecordsKept

LEMMA RecordSentExplained ==
    ASSUME OutTypes, LockHeldOnce, OutTypes', DeliveriesExplained, NEW w \in Workers, RecordSent(w)
    PROVE  DeliveriesExplained'
<1>1. ASSUME NEW j \in Keys
      PROVE  delivered'[j] - delivered[j]
               <= OnRecord(j)' - OnRecord(j)
                  + (faults'[j] - faults[j]) + (requeued'[j] - requeued[j])
  BY OutboxAssumption DEF RecordSent, Released, OutTypes, LockHeldOnce, OnRecord, InHand, Row, Run, Page
<1> QED
  BY <1>1, RecordsKept

LEMMA RecordFailureExplained ==
    ASSUME OutTypes, LockHeldOnce, OutTypes', DeliveriesExplained, NEW w \in Workers, RecordFailure(w)
    PROVE  DeliveriesExplained'
<1>1. ASSUME NEW j \in Keys
      PROVE  delivered'[j] - delivered[j]
               <= OnRecord(j)' - OnRecord(j)
                  + (faults'[j] - faults[j]) + (requeued'[j] - requeued[j])
  BY OutboxAssumption DEF RecordFailure, FailedRow, Released, OutTypes, LockHeldOnce, OnRecord, InHand, Row, Run, Page
<1> QED
  BY <1>1, RecordsKept

LEMMA CrashWorkerExplained ==
    ASSUME OutTypes, LockHeldOnce, OutTypes', DeliveriesExplained, NEW w \in Workers, CrashWorker(w)
    PROVE  DeliveriesExplained'
<1>1. ASSUME NEW j \in Keys
      PROVE  delivered'[j] - delivered[j]
               <= OnRecord(j)' - OnRecord(j)
                  + (faults'[j] - faults[j]) + (requeued'[j] - requeued[j])
  BY OutboxAssumption DEF CrashWorker, Idle, OutTypes, LockHeldOnce, OnRecord, InHand, Row, Run, Page
<1> QED
  BY <1>1, RecordsKept

LEMMA LoadForRetryExplained ==
    ASSUME OutTypes, LockHeldOnce, OutTypes', DeliveriesExplained, NEW a \in Admins, NEW k \in Keys, LoadForRetry(a, k)
    PROVE  DeliveriesExplained'
<1>1. ASSUME NEW j \in Keys
      PROVE  delivered'[j] - delivered[j]
               <= OnRecord(j)' - OnRecord(j)
                  + (faults'[j] - faults[j]) + (requeued'[j] - requeued[j])
  BY OutboxAssumption DEF LoadForRetry, OutTypes, LockHeldOnce, OnRecord, InHand, Row, Run, Page
<1> QED
  BY <1>1, RecordsKept

LEMMA SaveRetryExplained ==
    ASSUME OutTypes, LockHeldOnce, OutTypes', DeliveriesExplained, NEW a \in Admins, SaveRetry(a)
    PROVE  DeliveriesExplained'
<1>1. ASSUME NEW j \in Keys
      PROVE  delivered'[j] - delivered[j]
               <= OnRecord(j)' - OnRecord(j)
                  + (faults'[j] - faults[j]) + (requeued'[j] - requeued[j])
  BY OutboxAssumption DEF SaveRetry, Locked, OutTypes, LockHeldOnce, OnRecord, InHand, Row, Run, Page
<1> QED
  BY <1>1, RecordsKept

-----------------------------------------------------------------------------
(* The invariant *)

LEMMA OutInitInv == OutInit => OutInv
<1> SUFFICES ASSUME OutInit PROVE OutInv
  OBVIOUS
<1>1. OutTypes /\ LockHeldOnce /\ AttemptsWithinLimit
  BY OutboxAssumption DEF OutInit, OutTypes, LockHeldOnce, AttemptsWithinLimit,
                          Row, Run, Page, NoRow, Idle, NoPage
<1>2. DeliveriesExplained
  BY DEF OutInit, DeliveriesExplained, OnRecord, NoRow, InHand, Idle
<1> QED
  BY <1>1, <1>2 DEF OutInv

LEMMA OutNextInv == OutInv /\ [OutNext]_outVars => OutInv'
<1> SUFFICES ASSUME OutInv, [OutNext]_outVars PROVE OutInv'
  OBVIOUS
<1> USE DEF OutInv
<1>1. ASSUME NEW k \in Keys, CommitEvent(k) PROVE OutInv'
  BY <1>1, CommitEventKeeps, CommitEventExplained
<1>2. ASSUME NEW k \in Keys, Enqueue(k) PROVE OutInv'
  BY <1>2, EnqueueKeeps, EnqueueExplained
<1>3. ASSUME NEW k \in Keys, LoseEvent(k) PROVE OutInv'
  BY <1>3, LoseEventKeeps, LoseEventExplained
<1>4. ASSUME NEW k \in Keys, BecomeDue(k) PROVE OutInv'
  BY <1>4, BecomeDueKeeps, BecomeDueExplained
<1>5. ASSUME NEW w \in Workers, List(w) PROVE OutInv'
  BY <1>5, ListKeeps, ListExplained
<1>6. ASSUME NEW w \in Workers, NEW k \in Keys, Take(w, k) PROVE OutInv'
  BY <1>6, TakeKeeps, TakeExplained
<1>7. ASSUME NEW w \in Workers, Accept(w) PROVE OutInv'
  BY <1>7, AcceptKeeps, AcceptExplained
<1>8. ASSUME NEW w \in Workers, RecordSent(w) PROVE OutInv'
  BY <1>8, RecordSentKeeps, RecordSentExplained
<1>9. ASSUME NEW w \in Workers, RecordFailure(w) PROVE OutInv'
  BY <1>9, RecordFailureKeeps, RecordFailureExplained
<1>10. ASSUME NEW w \in Workers, CrashWorker(w) PROVE OutInv'
  BY <1>10, CrashWorkerKeeps, CrashWorkerExplained
<1>11. ASSUME NEW a \in Admins, NEW k \in Keys, LoadForRetry(a, k) PROVE OutInv'
  BY <1>11, LoadForRetryKeeps, LoadForRetryExplained
<1>12. ASSUME NEW a \in Admins, SaveRetry(a) PROVE OutInv'
  BY <1>12, SaveRetryKeeps, SaveRetryExplained
<1>13. CASE UNCHANGED outVars
  BY <1>13 DEF outVars, OutTypes, LockHeldOnce, AttemptsWithinLimit,
             DeliveriesExplained, OnRecord, InHand
<1> QED
  BY <1>1, <1>2, <1>3, <1>4, <1>5, <1>6, <1>7, <1>8, <1>9, <1>10, <1>11, <1>12, <1>13 DEF OutNext, Work

\* The inductive invariant: the lock has one holder and every delivery is on
\* record (the rows and locks of process_outbound).
THEOREM OutboxInvariant == OutSpec => []OutInv
  BY OutInitInv, OutNextInv, PTL DEF OutSpec

\* Whatever workers overlap and whoever asks for retries, the provider is called
\* at most max_attempts times for a row (process_outbound, delivery.py:156).
THEOREM AttemptsBounded == OutSpec => []AttemptsWithinLimit
<1>1. OutInv => AttemptsWithinLimit
  BY DEF OutInv
<1> QED
  BY <1>1, OutboxInvariant, PTL

\* A message that the provider got more than once has a crash, a lost answer or
\* a stale retry page behind each further delivery.
THEOREM DeliveriesAreExplained == OutSpec => []DeliveredOnce
<1>1. ASSUME OutInv PROVE DeliveredOnce
  <2> SUFFICES ASSUME NEW k \in Keys
               PROVE  delivered[k] <= 1 + faults[k] + requeued[k]
    BY DEF DeliveredOnce
  <2>1. OnRecord(k) \in 0 .. 1
    BY <1>1 DEF OutInv, LockHeldOnce, OnRecord, InHand
  <2>2. delivered[k] \in Nat /\ faults[k] \in Nat /\ requeued[k] \in Nat
    BY <1>1 DEF OutInv, OutTypes
  <2>3. delivered[k] <= OnRecord(k) + faults[k] + requeued[k]
    BY <1>1 DEF OutInv, DeliveriesExplained
  <2> QED
    BY <2>1, <2>2, <2>3
<1> QED
  BY <1>1, OutboxInvariant, PTL
=============================================================================
