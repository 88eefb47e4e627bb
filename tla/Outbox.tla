------------------------------- MODULE Outbox -------------------------------
(***************************************************************************)
(* The outbox of messages to providers: integrations/signals.py puts an    *)
(* event into it after the business transaction has committed,             *)
(* integrations/delivery.py delivers it from cron, and the dashboard may   *)
(* ask for a retry.                                                        *)
(*                                                                         *)
(* Workers overlap: cron starts one every few minutes, the dashboard has a *)
(* button.  A worker lists what is due without a lock and then takes the   *)
(* rows one by one, holding the row lock while it talks to the provider.   *)
(* A run lists everything that is due: the limit of a run is above the     *)
(* number of messages modelled.                                            *)
(***************************************************************************)
EXTENDS Integers, FiniteSets, Totals

CONSTANTS
    Keys,           \* idempotency keys
    Workers,        \* runs of process_outbound that may overlap
    Admins,         \* dashboard requests that retry a message
    NoKey,          \* not a key
    MaxAttempts,    \* max_attempts of process_outbound
    MaxFaults       \* bound: crashes and lost answers in all

ASSUME OutboxAssumption ==
    /\ NoKey \notin Keys
    /\ MaxAttempts \in Nat \ {0}
    /\ MaxFaults \in Nat

VARIABLES
    callbacks,      \* on_commit callbacks that have not run yet
    rows,           \* OutboundMessage; due: available_at has passed
    runs,           \* where each worker is
    pages,          \* the message a retry request has loaded
    delivered,      \* how often the provider got the message
    faults,         \* crashes and lost answers that concerned the message
    requeued        \* how often a retry put a sent message back

outVars == <<callbacks, rows, runs, pages, delivered, faults, requeued>>

NoRow == [status |-> "absent", attempts |-> 0, due |-> FALSE]
NewRow == [status |-> "pending", attempts |-> 0, due |-> TRUE]

Idle == [batch |-> {}, msg |-> NoKey, accepted |-> FALSE]

NoPage == [msg |-> NoKey, sent |-> FALSE]

Listed(row) ==
    /\ row.status \in {"pending", "failed"}
    /\ row.attempts < MaxAttempts
    /\ row.due

\* Slip: the row is not looked at again once it is locked.
ProcessableUnchecked(row) == row.status # "absent"

\* The test under the lock.
Processable(row) ==
    /\ row.status # "sent"
    /\ row.attempts < MaxAttempts
    /\ row.due

\* Whether the bound leaves room for one more crash or lost answer.
MayFail == Total(faults, MaxFaults) < MaxFaults

Locked(k) == \E w \in Workers : runs[w].msg = k

-----------------------------------------------------------------------------
(* Enqueueing *)

\* A business transaction commits whose event has the key k; events may repeat.
CommitEvent(k) ==
    /\ k \notin callbacks
    /\ callbacks' = callbacks \cup {k}
    /\ UNCHANGED <<rows, runs, pages, delivered, faults, requeued>>

\* The callback: get_or_create by the idempotency key.
Enqueue(k) ==
    /\ k \in callbacks
    /\ callbacks' = callbacks \ {k}
    /\ rows' = [rows EXCEPT ![k] = IF @.status = "absent" THEN NewRow ELSE @]
    /\ UNCHANGED <<runs, pages, delivered, faults, requeued>>

\* The process dies after the commit, or the callback raises and is logged.
LoseEvent(k) ==
    /\ k \in callbacks
    /\ MayFail
    /\ callbacks' = callbacks \ {k}
    /\ faults' = [faults EXCEPT ![k] = @ + 1]
    /\ UNCHANGED <<rows, runs, pages, delivered, requeued>>

-----------------------------------------------------------------------------
(* process_outbound *)

List(w) ==
    /\ runs[w] = Idle
    /\ \E k \in Keys : Listed(rows[k])
    /\ runs' = [runs EXCEPT ![w].batch = {k \in Keys : Listed(rows[k])}]
    /\ UNCHANGED <<callbacks, rows, pages, delivered, faults, requeued>>

\* select_for_update of one row: taken, or skipped if another run dealt with it.
Take(w, k) ==
    /\ runs[w].msg = NoKey
    /\ k \in runs[w].batch
    /\ ~Locked(k)
    /\ runs' = [runs EXCEPT ![w].batch = @ \ {k},
                            ![w].msg = IF Processable(rows[k]) THEN k ELSE NoKey]
    /\ UNCHANGED <<callbacks, rows, pages, delivered, faults, requeued>>

\* The provider accepts the message.
Accept(w) ==
    LET k == runs[w].msg IN
    /\ k # NoKey
    /\ ~runs[w].accepted
    /\ runs' = [runs EXCEPT ![w].accepted = TRUE]
    /\ delivered' = [delivered EXCEPT ![k] = @ + 1]
    /\ UNCHANGED <<callbacks, rows, pages, faults, requeued>>

Released(w) == [runs EXCEPT ![w].msg = NoKey, ![w].accepted = FALSE]

RecordSent(w) ==
    LET k == runs[w].msg IN
    /\ k # NoKey
    /\ runs[w].accepted
    /\ rows' = [rows EXCEPT ![k].status = "sent", ![k].attempts = @ + 1]
    /\ runs' = Released(w)
    /\ UNCHANGED <<callbacks, pages, delivered, faults, requeued>>

\* Slip: a failed attempt is not counted.
FailedUncounted(row) == [status |-> "failed", attempts |-> row.attempts, due |-> FALSE]

\* The row after a failed attempt: it is due again when the delay has passed.
FailedRow(row) == [status |-> "failed", attempts |-> row.attempts + 1, due |-> FALSE]

\* The provider refuses, or its answer is lost after it has accepted.
RecordFailure(w) ==
    LET k == runs[w].msg IN
    /\ k # NoKey
    /\ runs[w].accepted => MayFail
    /\ faults' = [faults EXCEPT ![k] = IF runs[w].accepted THEN @ + 1 ELSE @]
    /\ rows' = [rows EXCEPT ![k] = FailedRow(@)]
    /\ runs' = Released(w)
    /\ UNCHANGED <<callbacks, pages, delivered, requeued>>

\* The process dies while it holds a row: the transaction is rolled back.
CrashWorker(w) ==
    LET k == runs[w].msg IN
    /\ k # NoKey
    /\ MayFail
    /\ faults' = [faults EXCEPT ![k] = @ + 1]
    /\ runs' = [runs EXCEPT ![w] = Idle]
    /\ UNCHANGED <<callbacks, rows, pages, delivered, requeued>>

\* available_at passes: min(60 * 2^(attempts-1), 3600) seconds after a failure.
BecomeDue(k) ==
    /\ rows[k].status # "absent"
    /\ ~rows[k].due
    /\ rows' = [rows EXCEPT ![k].due = TRUE]
    /\ UNCHANGED <<callbacks, runs, pages, delivered, faults, requeued>>

-----------------------------------------------------------------------------
(* The retry button: integration_retry loads the row without a lock *)

LoadForRetry(a, k) ==
    /\ pages[a] = NoPage
    /\ rows[k].status # "absent"
    /\ pages' = [pages EXCEPT ![a] = [msg |-> k, sent |-> rows[k].status = "sent"]]
    /\ UNCHANGED <<callbacks, rows, runs, delivered, faults, requeued>>

\* The save waits for the row lock.
SaveRetry(a) ==
    LET k == pages[a].msg IN
    /\ k # NoKey
    /\ IF pages[a].sent THEN UNCHANGED rows
       ELSE /\ ~Locked(k)
            /\ rows' = [rows EXCEPT ![k].status = "pending", ![k].due = TRUE]
    /\ requeued' = [requeued EXCEPT ![k] =
                       IF ~pages[a].sent /\ rows[k].status = "sent" THEN @ + 1 ELSE @]
    /\ pages' = [pages EXCEPT ![a] = NoPage]
    /\ UNCHANGED <<callbacks, runs, delivered, faults>>

-----------------------------------------------------------------------------

OutInit ==
    /\ callbacks = {}
    /\ rows = [k \in Keys |-> NoRow]
    /\ runs = [w \in Workers |-> Idle]
    /\ pages = [a \in Admins |-> NoPage]
    /\ delivered = [k \in Keys |-> 0]
    /\ faults = [k \in Keys |-> 0]
    /\ requeued = [k \in Keys |-> 0]

\* One step of a worker that is not killed.
Work(w) ==
    \/ List(w)
    \/ \E k \in Keys : Take(w, k)
    \/ Accept(w) \/ RecordSent(w) \/ RecordFailure(w)

OutNext ==
    \/ \E k \in Keys : CommitEvent(k) \/ Enqueue(k) \/ LoseEvent(k) \/ BecomeDue(k)
    \/ \E w \in Workers : Work(w) \/ CrashWorker(w)
    \/ \E a \in Admins : SaveRetry(a) \/ \E k \in Keys : LoadForRetry(a, k)

\* Callbacks run right after the commit, time passes, and cron starts a worker
\* again and again, which goes on unless it is killed.
OutFairness ==
    /\ \A k \in Keys : WF_outVars(Enqueue(k)) /\ WF_outVars(BecomeDue(k))
    /\ \A w \in Workers : WF_outVars(Work(w))

OutSpec == OutInit /\ [][OutNext]_outVars /\ OutFairness

-----------------------------------------------------------------------------
(* Properties *)

\* Overlapping workers never attempt a message more often than max_attempts:
\* the number tested is the one under the lock.
AttemptsWithinLimit == \A k \in Keys : rows[k].attempts <= MaxAttempts

\* "Outbox with idempotency" (README.md:49): overlapping workers, repeated
\* events and retry requests deliver a message once.  Every further delivery is
\* explained by a crash, by an answer that was lost after the provider had
\* accepted, or by a retry page that was loaded before the message was sent.
DeliveredOnce == \A k \in Keys : delivered[k] <= 1 + faults[k] + requeued[k]

\* Every message is settled in the end: sent, or given up after max_attempts.
MessagesSettle ==
    \A k \in Keys :
        rows[k].status # "absent" ~> (rows[k].status = "sent" \/ rows[k].attempts = MaxAttempts)
=============================================================================
