-------------------------------- MODULE Books --------------------------------
(***************************************************************************)
(* The ledger with the documents that book into it: expenses, the cashbook,*)
(* purchases and sales, which share the periods and the journal page that  *)
(* may reverse any of their journals.                                      *)
(***************************************************************************)
EXTENDS ExpenseLedger, SalesLedger

CONSTANTS
    MaxJournals,    \* bound: journals, reversals included
    MaxDocuments    \* bound: documents in use at once

\* Every document has source keys of its own; journals typed in by hand have none.
ASSUME BooksAssumption ==
    /\ \A e \in Expenses : ExpenseKey(e) \in Sources \ Manuals
    /\ \A c \in Entries : EntryKeys(c) \subseteq Sources \ Manuals
    /\ \A d \in Lots : {ArrivalKey(d), SendBackKey(d)} \subseteq Sources \ Manuals
    /\ \A o \in Orders : {RevenueKey(o), CostKey(o)} \subseteq Sources \ Manuals
    /\ \A p \in Receipts : {ReceiptKey(p), ReversalKey(p)} \subseteq Sources \ Manuals
    /\ \A r \in Returns : {CreditKey(r), RestockKey(r)} \subseteq Sources \ Manuals

bookVars == <<closed, late, book, expense, entry, arrived, sentBack, completed, receipt, returned>>

BookInit == LedgerInit /\ ExpenseInit /\ GoodsInit /\ SaleInit

PaymentsTaken == \E p \in Receipts : receipt[p] # NoReceipt
GoodsMoved == (\E d \in Lots : arrived[d] # 0) \/ \E r \in Returns : returned[r] # NotReturned

Used ==
    {ExpenseKey(e) : e \in {x \in Expenses : expense[x] # NoExpense}} \cup {EntryKey(c) : c \in {x \in Entries : entry[x] # NoEntry}}
        \cup {s \in Manuals : Journaled(s)}
        \cup (IF completed # {} \/ PaymentsTaken \/ GoodsMoved THEN {<<"trade">>} ELSE {})

\* An order is paid, or its goods are bought and returned, not both, with one
\* journal reversed by hand, and while goods move no period is closed.
InBounds ==
    /\ Cardinality(Used) <= MaxDocuments
    /\ Cardinality(Booked) + Reversals <= MaxJournals
    /\ PaymentsTaken \/ GoodsMoved => Reversals <= 1
    /\ GoodsMoved => ~PaymentsTaken /\ closed = {}

BookNext ==
    \/ (ExpenseNext \/ CashbookNext) /\ UNCHANGED <<goodsVars, saleVars>>
    \/ GoodsNext /\ UNCHANGED <<expenseVars, saleVars>>
    \/ SaleNext /\ UNCHANGED expenseVars
    \/ LedgerNext /\ UNCHANGED <<expenseVars, goodsVars, saleVars>>

BookSpec == BookInit /\ [][BookNext /\ InBounds']_bookVars

-----------------------------------------------------------------------------
(* Properties *)

\* Each page of the dashboard and the ledger tell the same: whatever is saved, paid,
\* voided, settled, returned and reversed in any order, expenses, cashbook entries,
\* sales, payments and returns have the journals their rows call for, once.
BooksMatchDocuments == ExpensesMatchBooks /\ SalesMatchBooks
=============================================================================
