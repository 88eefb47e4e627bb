------------------------------- MODULE Ledger --------------------------------
(***************************************************************************)
(* The double-entry ledger, accounting/services.py and                     *)
(* accounting/models.py.                                                   *)
(*                                                                         *)
(* A business event posts its journal under a source key.  A correction is *)
(* a journal that reverses the last one, so the journals of a key form a   *)
(* chain in which only the last is POSTED and the others are REVERSED; the *)
(* reports read both (account_activity).  A chain is kept as the amount of *)
(* its lines, which every reversal repeats, and the month of each journal. *)
(*                                                                         *)
(* A service runs in one transaction, which locks the document it books,   *)
(* and is one step.  The test that a period is open takes no lock: a       *)
(* transaction that made it before the period was closed commits after.    *)
(***************************************************************************)
EXTENDS Integers, Sequences, FiniteSets, Functions, TLC

CONSTANTS
    Months,         \* dates, by the accounting period they fall in
    Sources,        \* source keys of journals
    Manuals,        \* those of journals typed in by hand, which have no document
    MaxReversals    \* bound: reversals the journal page may add to

ASSUME LedgerAssumption == Manuals \subseteq Sources /\ IsFiniteSet(Sources)

VARIABLES
    closed,         \* closed periods
    late,           \* those a running transaction still takes for open
    book            \* JournalEntry: the chain of every source key

ledgerVars == <<closed, late, book>>

NoJournal == [amount |-> 0, months |-> <<>>]

Length(s) == Len(book[s].months)
Journaled(s) == Length(s) > 0

\* The journal that carries the source key is POSTED.
Standing(s) == Length(s) = 1

\* What the accounts show of a source: each reversal undoes the one before.
Net(s) == IF Length(s) % 2 = 1 THEN book[s].amount ELSE 0

\* ensure_open_period, as a transaction that made the test earlier saw it.
OpenFor(m) == m \notin closed \/ m \in late

Entry(a, m) == [amount |-> a, months |-> <<m>>]

\* Journals by source key: one, and those of two documents.
Journal(s, a, m) == [k \in {s} |-> Entry(a, m)]
f ++ g == [k \in DOMAIN f \cup DOMAIN g |-> IF k \in DOMAIN f THEN f[k] ELSE g[k]]

-----------------------------------------------------------------------------

\* post_journal, for the journals of one transaction: the period is tested
\* first, then a key that has its journal keeps it as it is.
Posts(entries) ==
    /\ \A s \in DOMAIN entries : OpenFor(entries[s].months[1])
    /\ book' = [s \in Sources |-> IF s \in DOMAIN entries /\ ~Journaled(s)
                                  THEN entries[s] ELSE book[s]]
    /\ late' = late \ {entries[s].months[1] : s \in DOMAIN entries}
    /\ UNCHANGED closed

\* Slip: the date of a reversal is not tested.
ReversesUntested(keys, m) ==
    /\ book' = [s \in Sources |-> IF s \in keys
                                  THEN [book[s] EXCEPT !.months = Append(@, m)] ELSE book[s]]
    /\ late' = late \ {m}
    /\ UNCHANGED closed

\* reverse_journal, of the last journal of each of the keys.
Reverses(keys, m) ==
    /\ OpenFor(m)
    /\ book' = [s \in Sources |-> IF s \in keys
                                  THEN [book[s] EXCEPT !.months = Append(@, m)] ELSE book[s]]
    /\ late' = late \ {m}
    /\ UNCHANGED closed

\* journal_add: a journal typed in by hand.
PostManual(s, a, m) ==
    /\ s \in Manuals
    /\ ~Journaled(s)
    /\ Posts(Journal(s, a, m))

Booked == {s \in Sources : Journaled(s)}
Reversals == Cardinality(UNION {{<<s, i>> : i \in 2 .. Length(s)} : s \in Sources})

\* journal_reverse: the page reverses any POSTED journal, whatever document it
\* belongs to, a reversal included.
ReverseByHand(s, m) ==
    /\ Journaled(s)
    /\ Reversals < MaxReversals
    /\ Reverses({s}, m)

\* close_period: drafts exist only inside a transaction, so none is found.
ClosePeriod(m) ==
    /\ m \notin closed
    /\ closed' = closed \cup {m}
    /\ late' \in {late, late \cup {m}}
    /\ UNCHANGED book

\* reopen_period
ReopenPeriod(m) ==
    /\ m \in closed
    /\ closed' = closed \ {m}
    /\ late' = late \ {m}
    /\ UNCHANGED book

-----------------------------------------------------------------------------

LedgerInit ==
    /\ closed = {}
    /\ late = {}
    /\ book = [s \in Sources |-> NoJournal]

LedgerNext ==
    \/ \E m \in Months : ClosePeriod(m) \/ ReopenPeriod(m)
    \/ \E s \in Manuals, m \in Months : PostManual(s, 1, m)
    \/ \E s \in Sources, m \in Months : ReverseByHand(s, m)

-----------------------------------------------------------------------------
(* Properties *)

\* The journals of a month.
JournalsOf(m) ==
    UNION {{<<s, i>> : i \in {j \in 1 .. Length(s) : book[s].months[j] = m}} : s \in Sources}

\* A closed month takes no journal and no reversal, whichever service posts it,
\* but those of a transaction that was already running when it was closed.
ClosedMonthsSettle ==
    [][\A m \in closed : JournalsOf(m)' # JournalsOf(m) => m \in late]_ledgerVars
=============================================================================
