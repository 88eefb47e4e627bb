---------------------------- MODULE ExpenseLedger ----------------------------
(***************************************************************************)
(* Expenses with approval, and the cashbook of other income and expenses:  *)
(* expenses/services.py with accounting/expense_posting.py, on the ledger. *)
(*                                                                         *)
(* An expense is booked when it is paid.  A cashbook entry is booked as a  *)
(* due when it is registered and each of its settlements as it is paid;    *)
(* income and expense differ only in the account of the due.               *)
(***************************************************************************)
EXTENDS Ledger, Totals

CONSTANTS
    Expenses,
    Entries,
    MaxAmount,      \* bound: amounts are 1 .. MaxAmount
    MaxSettlements  \* bound: settlements of an entry

ASSUME ExpenseAssumption == MaxAmount \in Nat /\ MaxSettlements \in Nat \ {0}

VARIABLES
    expense,        \* Expense: status and amount
    entry           \* CashbookEntry: amount, its CashbookSettlements, is_voided

expenseVars == <<expense, entry>>

Amounts == 1 .. MaxAmount

\* accounting_source_key of the documents.
ExpenseKey(e) == <<"expense", e>>
EntryKey(c) == <<"entry", c, 0>>
SettlementKey(c, i) == <<"entry", c, i>>
ExpenseKeys == {ExpenseKey(e) : e \in Expenses}
EntryKeys(c) == {<<"entry", c, i>> : i \in 0 .. MaxSettlements}

NoExpense == [status |-> "absent", amount |-> 0]
NoEntry == [amount |-> 0, settled |-> <<>>, voided |-> FALSE]

\* paid_amount
Settlement(c, i) == IF i <= Len(entry[c].settled) THEN entry[c].settled[i] ELSE 0
Settled(c) == Total([i \in 1 .. MaxSettlements |-> Settlement(c, i)], MaxAmount)

\* due_amount
Due(c) == entry[c].amount - Settled(c)

-----------------------------------------------------------------------------
(* Expenses *)

Moves(e, from, to) ==
    /\ expense[e].status \in from
    /\ expense' = [expense EXCEPT ![e].status = to]
    /\ UNCHANGED <<entry, ledgerVars>>

\* register_expense, as a draft or submitted at once.
RegisterExpense(e, a, status) ==
    /\ expense[e] = NoExpense
    /\ status \in {"draft", "pending"}
    /\ expense' = [expense EXCEPT ![e] = [status |-> status, amount |-> a]]
    /\ UNCHANGED <<entry, ledgerVars>>

\* Slip: the form is saved over an expense that has moved on meanwhile.
UpdateAnyExpense(e, a) ==
    /\ expense[e] # NoExpense
    /\ expense' = [expense EXCEPT ![e].amount = a]
    /\ UNCHANGED <<entry, ledgerVars>>

\* update_draft_expense
UpdateDraftExpense(e, a) ==
    /\ expense[e].status = "draft"
    /\ expense' = [expense EXCEPT ![e].amount = a]
    /\ UNCHANGED <<entry, ledgerVars>>

SubmitExpense(e) == Moves(e, {"draft"}, "pending")
ApproveExpense(e) == Moves(e, {"pending"}, "approved")
RejectExpense(e) == Moves(e, {"pending"}, "rejected")
CancelExpense(e) == Moves(e, {"draft", "pending", "approved"}, "cancelled")

\* pay_expense and post_expense: no journal, no payment.
PayExpense(e, m) ==
    /\ expense[e].status = "approved"
    /\ Posts(Journal(ExpenseKey(e), expense[e].amount, m))
    /\ expense' = [expense EXCEPT ![e].status = "paid"]
    /\ UNCHANGED entry

\* void_paid_expense: the journal of the payment must still be POSTED.
VoidPaidExpense(e, m) ==
    /\ expense[e].status = "paid"
    /\ Standing(ExpenseKey(e))
    /\ Reverses({ExpenseKey(e)}, m)
    /\ expense' = [expense EXCEPT ![e].status = "voided"]
    /\ UNCHANGED entry

-----------------------------------------------------------------------------
(* Cashbook *)

\* register_cashbook_entry, with a first settlement on the same date or none.
RegisterCashbookEntry(c, a, first, m) ==
    /\ entry[c] = NoEntry
    /\ first \in 0 .. a
    /\ entry' = [entry EXCEPT ![c] = [amount  |-> a,
                                      settled |-> IF first = 0 THEN <<>> ELSE <<first>>,
                                      voided  |-> FALSE]]
    /\ Posts(Journal(EntryKey(c), a, m)
             ++ (IF first = 0 THEN <<>> ELSE Journal(SettlementKey(c, 1), first, m)))
    /\ UNCHANGED expense

\* Slip: a settlement is compared with the amount, not with what is due.
SettleWithinAmount(c, a, m) ==
    LET i == Len(entry[c].settled) + 1 IN
    /\ entry[c] # NoEntry
    /\ ~entry[c].voided
    /\ i <= MaxSettlements
    /\ a <= entry[c].amount
    /\ entry' = [entry EXCEPT ![c].settled = Append(@, a)]
    /\ Posts(Journal(SettlementKey(c, i), a, m))
    /\ UNCHANGED expense

\* settle_cashbook_entry
SettleCashbookEntry(c, a, m) ==
    LET i == Len(entry[c].settled) + 1 IN
    /\ entry[c] # NoEntry
    /\ ~entry[c].voided
    /\ i <= MaxSettlements
    /\ a <= Due(c)
    /\ entry' = [entry EXCEPT ![c].settled = Append(@, a)]
    /\ Posts(Journal(SettlementKey(c, i), a, m))
    /\ UNCHANGED expense

\* void_cashbook_entry: its journals that are POSTED are reversed, those the
\* journal page has reversed are passed over.
VoidCashbookEntry(c, m) ==
    LET standing == {s \in EntryKeys(c) : Standing(s)} IN
    /\ entry[c] # NoEntry
    /\ ~entry[c].voided
    /\ IF standing = {} THEN UNCHANGED ledgerVars ELSE Reverses(standing, m)
    /\ entry' = [entry EXCEPT ![c].voided = TRUE]
    /\ UNCHANGED expense

-----------------------------------------------------------------------------

ExpenseInit ==
    /\ expense = [e \in Expenses |-> NoExpense]
    /\ entry = [c \in Entries |-> NoEntry]

ExpenseNext ==
    \/ \E e \in Expenses, a \in Amounts, status \in {"draft", "pending"} :
          RegisterExpense(e, a, status)
    \/ \E e \in Expenses, a \in Amounts : UpdateDraftExpense(e, a)
    \/ \E e \in Expenses : SubmitExpense(e) \/ ApproveExpense(e) \/ RejectExpense(e)
                              \/ CancelExpense(e)
    \/ \E e \in Expenses, m \in Months : PayExpense(e, m) \/ VoidPaidExpense(e, m)

CashbookNext ==
    \/ \E c \in Entries, a \in Amounts, m \in Months :
          \E first \in 0 .. a : RegisterCashbookEntry(c, a, first, m)
    \/ \E c \in Entries, a \in Amounts, m \in Months : SettleCashbookEntry(c, a, m)
    \/ \E c \in Entries, m \in Months : VoidCashbookEntry(c, m)

-----------------------------------------------------------------------------
(* The expense and the income & expense report, over all dates *)

\* Paid Amount of _expense_report.
PaidAmount ==
    SumFunction([e \in Expenses |-> IF expense[e].status = "paid" THEN expense[e].amount ELSE 0])

\* Income Due or Expense Due, and what was paid or received, of _income_expense_report.
IfActive(c, n) == IF entry[c].voided THEN 0 ELSE n
DueAmount      == SumFunction([c \in Entries |-> IfActive(c, Due(c))])
PaidOrReceived == SumFunction([c \in Entries |-> IfActive(c, Settled(c))])

-----------------------------------------------------------------------------
(* Properties *)

\* An expense and its journal go together: it is PAID or VOIDED exactly when it
\* has one, for the amount that was approved, and VOIDED only when that journal
\* is reversed, whatever else the journal page reversed before or after.
PaidMatchesJournal(e) ==
    LET s == ExpenseKey(e) IN
    /\ Journaled(s) <=> expense[e].status \in {"paid", "voided"}
    /\ Journaled(s) => book[s].amount = expense[e].amount
    /\ expense[e].status = "voided" => ~Standing(s)

Cash(c) == Total([i \in 1 .. MaxSettlements |-> Net(SettlementKey(c, i))], MaxAmount)
Owed(c) == Net(EntryKey(c)) - Cash(c)

\* Other payables and receivables hold what the cashbook says is due: of an
\* entry none of whose journals was reversed by hand its due, which is never
\* negative, and nothing of a voided one unless a reversal was itself reversed.
DueMatchesBooks(c) ==
    IF entry[c].voided
    THEN (\A s \in EntryKeys(c) : Length(s) <= 2) => Owed(c) = 0
    ELSE (\A s \in EntryKeys(c) : Length(s) <= 1) => Owed(c) = Due(c) /\ Due(c) >= 0

\* The expense and income pages, the reports and the ledger tell the same: each
\* expense and each entry matches its journals, and so do the amount the expense
\* report says is paid and the due and cash the cashbook report adds up, as long as
\* nothing was reversed by hand.
ExpensesMatchBooks ==
    /\ \A e \in Expenses : PaidMatchesJournal(e)
    /\ \A c \in Entries : DueMatchesBooks(c)
    /\ (\A e \in Expenses : Length(ExpenseKey(e)) <= IF expense[e].status = "voided" THEN 2 ELSE 1) =>
          PaidAmount = SumFunction([e \in Expenses |-> Net(ExpenseKey(e))])
    /\ (\A c \in Entries : \A s \in EntryKeys(c) : Length(s) <= IF entry[c].voided THEN 2 ELSE 1) =>
          /\ DueAmount = SumFunction([c \in Entries |-> Owed(c)])
          /\ PaidOrReceived = SumFunction([c \in Entries |-> Cash(c)])
=============================================================================
