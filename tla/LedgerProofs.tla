---------------------------- MODULE LedgerProofs -----------------------------
(***************************************************************************)
(* Proofs about the ledger and the documents that book into it (Books),    *)
(* for any number of documents, months and reversals.                      *)
(***************************************************************************)
EXTENDS SalesReport, TotalsProofs, SequenceTheorems

-----------------------------------------------------------------------------
(* Journals that a service posts *)

\* Journals by source key, each the first of its chain.
NewJournals(entries) ==
    \A s \in DOMAIN entries : \E a, m : m \in Months /\ entries[s] = Entry(a, m)

LEMMA JournalFacts ==
    ASSUME NEW s, NEW a, NEW m
    PROVE  /\ DOMAIN Journal(s, a, m) = {s}
           /\ Journal(s, a, m)[s] = Entry(a, m)
           /\ m \in Months => NewJournals(Journal(s, a, m))
BY DEF Journal, NewJournals

LEMMA WorthFacts ==
    ASSUME NEW s, NEW a, NEW m
    PROVE  /\ a > 0 => DOMAIN Worth(s, a, m) = {s}
           /\ ~(a > 0) => DOMAIN Worth(s, a, m) = {}
           /\ a > 0 => Worth(s, a, m)[s] = Entry(a, m)
           /\ m \in Months => NewJournals(Worth(s, a, m))
<1>1. DOMAIN <<>> = {} /\ NewJournals(<<>>)
  BY DEF NewJournals
<1>2. a > 0 => Worth(s, a, m) = Journal(s, a, m)
  BY DEF Worth
<1>3. ~(a > 0) => Worth(s, a, m) = <<>>
  BY DEF Worth
<1>4. CASE a > 0
  <2>1. Worth(s, a, m) = Journal(s, a, m)
    BY <1>2, <1>4
  <2>2. /\ DOMAIN Journal(s, a, m) = {s}
        /\ Journal(s, a, m)[s] = Entry(a, m)
        /\ m \in Months => NewJournals(Journal(s, a, m))
    BY JournalFacts
  <2> QED
    BY <1>4, <2>1, <2>2
<1>5. CASE ~(a > 0)
  BY <1>1, <1>3, <1>5, Zenon
<1> QED
  BY <1>4, <1>5

LEMMA TogetherFacts ==
    ASSUME NEW f, NEW g
    PROVE  /\ DOMAIN (f ++ g) = DOMAIN f \cup DOMAIN g
           /\ \A s \in DOMAIN f : (f ++ g)[s] = f[s]
           /\ \A s \in DOMAIN g \ DOMAIN f : (f ++ g)[s] = g[s]
           /\ NewJournals(f) /\ NewJournals(g) => NewJournals(f ++ g)
BY DEF ++, NewJournals

\* A chain is a row with an amount and months.
Chain(b) == b = [amount |-> b.amount, months |-> b.months] /\ b.months \in Seq(Months)

ChainsInv == DOMAIN book = Sources /\ \A s \in Sources : Chain(book[s])

LEMMA EntryFacts ==
    ASSUME NEW a, NEW m \in Months
    PROVE  /\ Chain(Entry(a, m)) /\ Entry(a, m).amount = a
           /\ Len(Entry(a, m).months) = 1 /\ Entry(a, m).months[1] = m
BY DEF Chain, Entry

\* What posting does to a source: one without a journal gets its entry.
LEMMA PostsEffect ==
    ASSUME ChainsInv, NEW entries, NewJournals(entries), Posts(entries)
    PROVE  /\ ChainsInv'
           /\ \A s \in Sources : Journaled(s)' <=> Journaled(s) \/ s \in DOMAIN entries
           /\ \A s \in Sources : Journaled(s) \/ s \notin DOMAIN entries => book'[s] = book[s]
           /\ \A s \in Sources : ~Journaled(s) /\ s \in DOMAIN entries => book'[s] = entries[s]
<1>1. book' = [s \in Sources |-> IF s \in DOMAIN entries /\ ~Journaled(s) THEN entries[s] ELSE book[s]]
  BY DEF Posts
<1>2. \A s \in Sources : Journaled(s) \/ s \notin DOMAIN entries => book'[s] = book[s]
  BY <1>1
<1>3. \A s \in Sources : ~Journaled(s) /\ s \in DOMAIN entries => book'[s] = entries[s]
  BY <1>1
<1>4. ASSUME NEW s \in DOMAIN entries PROVE Chain(entries[s]) /\ Len(entries[s].months) = 1
  BY EntryFacts DEF NewJournals
<1>5. ChainsInv'
  BY <1>1, <1>2, <1>3, <1>4 DEF ChainsInv, Chain
<1>6. ASSUME NEW s \in Sources PROVE Journaled(s)' <=> Journaled(s) \/ s \in DOMAIN entries
  <2>1. CASE ~Journaled(s) /\ s \in DOMAIN entries
    BY <1>3, <1>4, <2>1 DEF Journaled, Length
  <2>2. CASE ~(~Journaled(s) /\ s \in DOMAIN entries)
    BY <1>2, <2>2 DEF Journaled, Length
  <2> QED
    BY <2>1, <2>2
<1> QED
  BY <1>2, <1>3, <1>5, <1>6

\* What a reversal does to a source: one more journal, of the same amount.
LEMMA ReversesEffect ==
    ASSUME ChainsInv, NEW keys, NEW m \in Months, Reverses(keys, m)
    PROVE  /\ ChainsInv'
           /\ \A s \in Sources : book'[s].amount = book[s].amount
           /\ \A s \in Sources \cap keys : Length(s)' = Length(s) + 1
           /\ \A s \in Sources \cap keys : book'[s].months = Append(book[s].months, m)
           /\ \A s \in Sources \ keys : book'[s] = book[s]
<1>1. book' = [s \in Sources |-> IF s \in keys THEN [book[s] EXCEPT !.months = Append(@, m)] ELSE book[s]]
  BY DEF Reverses
<1>2. \A s \in Sources \ keys : book'[s] = book[s]
  BY <1>1
<1>3. ASSUME NEW s \in Sources, s \in keys
      PROVE  /\ book'[s].amount = book[s].amount
             /\ book'[s].months = Append(book[s].months, m)
             /\ book'[s] = [amount |-> book'[s].amount, months |-> book'[s].months]
  <2>1. book'[s] = [book[s] EXCEPT !.months = Append(@, m)]
    BY <1>1, <1>3
  <2>2. book[s] = [amount |-> book[s].amount, months |-> book[s].months]
    BY DEF ChainsInv, Chain
  <2> QED
    BY <2>1, <2>2
<1>4. \A s \in Sources : book[s].months \in Seq(Months)
  BY DEF ChainsInv, Chain
<1>5. ASSUME NEW s \in Sources
      PROVE  Append(book[s].months, m) \in Seq(Months) /\ Len(Append(book[s].months, m)) = Len(book[s].months) + 1
  BY <1>4
<1>6. DOMAIN book' = Sources
  BY <1>1
<1>7. ASSUME NEW s \in Sources PROVE Chain(book'[s]) /\ book'[s].amount = book[s].amount
  <2>1. CASE s \in keys
    BY <1>3, <1>5, <2>1 DEF Chain
  <2>2. CASE s \notin keys
    BY <1>2, <2>2 DEF ChainsInv
  <2> QED
    BY <2>1, <2>2
<1>8. \A s \in Sources \cap keys : Length(s)' = Length(s) + 1
  BY <1>3, <1>5 DEF Length
<1>9. \A s \in Sources \cap keys : book'[s].months = Append(book[s].months, m)
  BY <1>3
<1> QED
  BY <1>2, <1>6, <1>7, <1>8, <1>9 DEF ChainsInv
-----------------------------------------------------------------------------
(* What entries book *)

\* Documents have keys of their own.
LEMMA KeysAreSources ==
    /\ \A o \in Orders : RevenueKey(o) \in Sources \ Manuals /\ CostKey(o) \in Sources \ Manuals
    /\ \A p \in Receipts : ReceiptKey(p) \in Sources \ Manuals /\ ReversalKey(p) \in Sources \ Manuals
    /\ \A r \in Returns : CreditKey(r) \in Sources \ Manuals
    /\ \A e \in Expenses : ExpenseKey(e) \in Sources \ Manuals
    /\ \A c \in Entries : EntryKeys(c) \subseteq Sources \ Manuals
BY BooksAssumption

\* The sales, payments, reversals and returns that entries book.
Revenues(entries)  == {o \in Orders : RevenueKey(o) \in DOMAIN entries}
Captures(entries)  == {p \in Receipts : ReceiptKey(p) \in DOMAIN entries}
Reverts(entries)   == {p \in Receipts : ReversalKey(p) \in DOMAIN entries}
Credits(entries)   == {r \in Returns : CreditKey(r) \in DOMAIN entries}

\* Entries that book no sale, payment or return.
NoSale(entries) ==
    Revenues(entries) = {} /\ Captures(entries) = {} /\ Reverts(entries) = {} /\ Credits(entries) = {}

\* Entries that book no expense and nothing of the cashbook.
NoSpending(entries) ==
    /\ \A e \in Expenses : ExpenseKey(e) \notin DOMAIN entries
    /\ \A c \in Entries : DOMAIN entries \cap EntryKeys(c) = {}

\* What two documents book together.
LEMMA TogetherBooks ==
    ASSUME NEW f, NEW g
    PROVE  /\ Revenues(f ++ g) = Revenues(f) \cup Revenues(g)
           /\ Captures(f ++ g) = Captures(f) \cup Captures(g)
           /\ Reverts(f ++ g) = Reverts(f) \cup Reverts(g)
           /\ Credits(f ++ g) = Credits(f) \cup Credits(g)
           /\ NoSpending(f) /\ NoSpending(g) => NoSpending(f ++ g)
<1>1. DOMAIN (f ++ g) = DOMAIN f \cup DOMAIN g
  BY TogetherFacts
<1> QED
  BY <1>1 DEF Revenues, Captures, Reverts, Credits, NoSpending

-----------------------------------------------------------------------------
(* Closed months *)

Payment == [status : {"pending", "completed", "failed", "reversed"}, month : Months]

ReceiptInv == receipt \in [Receipts -> Payment \cup {NoReceipt}]

LEMMA PaymentFacts ==
    ASSUME ReceiptInv, NEW p \in Receipts, receipt[p] # NoReceipt \/ receipt[p].status # "absent"
    PROVE  receipt[p] \in Payment /\ receipt[p].month \in Months
BY DEF ReceiptInv, Payment, NoReceipt

\* The journals of an order, and of a payment or a return with its order.
LEMMA SaleJournals ==
    ASSUME NEW o \in Orders
    PROVE  /\ NewJournals(OrderEntries(o))
           /\ NewJournals(SaleEntries(o))
           /\ \A p, m : m \in Months => NewJournals(ReceiptEntries(p, m))
<1>1. DateOf[o] \in Months
  BY SalesLedgerAssumption
<1>2. NewJournals(OrderEntries(o))
  <2>1. /\ NewJournals(Worth(RevenueKey(o), GrandTotal(o), DateOf[o]))
        /\ NewJournals(Worth(CostKey(o), OrderCost(o), DateOf[o]))
    BY <1>1, WorthFacts
  <2> QED
    BY <2>1, TogetherFacts DEF OrderEntries
<1>3. NewJournals(SaleEntries(o))
  BY <1>2 DEF SaleEntries, NewJournals
<1>4. ASSUME NEW p, NEW m, m \in Months PROVE NewJournals(ReceiptEntries(p, m))
  BY <1>4, JournalFacts DEF ReceiptEntries
<1> QED
  BY <1>2, <1>3, <1>4

LEMMA ReturnJournals ==
    ASSUME NEW r \in Returns, NEW credit, NEW restocked, NEW m \in Months
    PROVE  NewJournals(ReturnEntries(r, credit, restocked, m))
<1>1. /\ NewJournals(Worth(CreditKey(r), credit, m))
      /\ NewJournals(Worth(RestockKey(r), restocked * WeightedCost(DateOf[ReturnOf[r]]), m))
  BY WorthFacts
<1> QED
  BY <1>1, TogetherFacts DEF ReturnEntries

\* All that a step can do to the ledger.
PostsSome == \E entries : NewJournals(entries) /\ Posts(entries)
PostsNoSale == \E entries : NewJournals(entries) /\ Posts(entries) /\ NoSale(entries)
PostsNoSpending == \E entries : NewJournals(entries) /\ Posts(entries) /\ NoSpending(entries)
PostsOthers ==
    \E entries : NewJournals(entries) /\ Posts(entries) /\ NoSale(entries) /\ NoSpending(entries)
ReversesSome ==
    \E keys, m : m \in Months /\ (\A s \in keys : Journaled(s)) /\ Reverses(keys, m)
TurnsPeriod == \E m \in Months : ClosePeriod(m) \/ ReopenPeriod(m)

\* Journals of expenses and the cashbook, of goods and by hand.
LEMMA OtherJournals ==
    ASSUME NEW a, NEW m
    PROVE  /\ \A e : NoSale(Journal(ExpenseKey(e), a, m))
           /\ \A c, i : NoSale(Journal(<<"entry", c, i>>, a, m))
           /\ \A d : NoSale(Worth(ArrivalKey(d), a, m)) /\ NoSpending(Worth(ArrivalKey(d), a, m))
           /\ \A d : NoSale(Worth(SendBackKey(d), a, m)) /\ NoSpending(Worth(SendBackKey(d), a, m))
           /\ \A s \in Manuals : NoSale(Journal(s, a, m)) /\ NoSpending(Journal(s, a, m))
<1> USE JournalFacts, WorthFacts
          DEF NoSale, Revenues, Captures, Reverts, Credits, RevenueKey, ReceiptKey, ReversalKey, CreditKey
<1>1. ASSUME NEW e PROVE NoSale(Journal(ExpenseKey(e), a, m))
  <2>1. DOMAIN Journal(ExpenseKey(e), a, m) = {ExpenseKey(e)}
    OBVIOUS
  <2> QED
    BY <2>1 DEF ExpenseKey
<1>2. ASSUME NEW c, NEW i PROVE NoSale(Journal(<<"entry", c, i>>, a, m))
  <2>1. DOMAIN Journal(<<"entry", c, i>>, a, m) = {<<"entry", c, i>>}
    OBVIOUS
  <2> QED
    BY <2>1
<1>3. ASSUME NEW d PROVE NoSale(Worth(ArrivalKey(d), a, m)) /\ NoSpending(Worth(ArrivalKey(d), a, m))
  <2>1. DOMAIN Worth(ArrivalKey(d), a, m) \subseteq {ArrivalKey(d)}
    OBVIOUS
  <2> QED
    BY <2>1 DEF ArrivalKey, NoSpending, ExpenseKey, EntryKeys
<1>4. ASSUME NEW d PROVE NoSale(Worth(SendBackKey(d), a, m)) /\ NoSpending(Worth(SendBackKey(d), a, m))
  <2>1. DOMAIN Worth(SendBackKey(d), a, m) \subseteq {SendBackKey(d)}
    OBVIOUS
  <2> QED
    BY <2>1 DEF SendBackKey, NoSpending, ExpenseKey, EntryKeys
<1>5. ASSUME NEW s \in Manuals PROVE NoSale(Journal(s, a, m)) /\ NoSpending(Journal(s, a, m))
  <2>1. DOMAIN Journal(s, a, m) = {s}
    OBVIOUS
  <2>2. NoSpending(Journal(s, a, m))
    BY <2>1, KeysAreSources DEF NoSpending
  <2>3. /\ \A o \in Orders : s # RevenueKey(o)
        /\ \A p \in Receipts : s # ReceiptKey(p) /\ s # ReversalKey(p)
        /\ \A r \in Returns : s # CreditKey(r)
    BY KeysAreSources
  <2> QED
    BY <2>1, <2>2, <2>3
<1> QED
  BY <1>1, <1>2, <1>3, <1>4, <1>5

LEMMA ExpenseSteps ==
    ASSUME ExpenseNext \/ CashbookNext
    PROVE  PostsNoSale \/ ReversesSome \/ UNCHANGED ledgerVars
<1>1. ASSUME NEW e \in Expenses, NEW m \in Months, PayExpense(e, m) PROVE PostsNoSale
  BY <1>1, JournalFacts, OtherJournals DEF PayExpense, PostsNoSale
<1>2. ASSUME NEW e \in Expenses, NEW m \in Months, VoidPaidExpense(e, m) PROVE ReversesSome
  BY <1>2 DEF VoidPaidExpense, ReversesSome, Standing, Journaled
<1>3. ASSUME NEW c \in Entries, NEW a, NEW first, NEW m \in Months, RegisterCashbookEntry(c, a, first, m)
      PROVE  PostsNoSale
  <2> DEFINE due == Journal(EntryKey(c), a, m)
             paid == IF first = 0 THEN <<>> ELSE Journal(SettlementKey(c, 1), first, m)
  <2>1. NewJournals(due) /\ NoSale(due)
    BY JournalFacts, OtherJournals DEF EntryKey
  <2>2. NewJournals(paid) /\ NoSale(paid)
    <3>1. DOMAIN <<>> = {}
      OBVIOUS
    <3>2. NewJournals(<<>>) /\ NoSale(<<>>)
      BY <3>1 DEF NewJournals, NoSale, Revenues, Captures, Reverts, Credits
    <3>3. NewJournals(Journal(SettlementKey(c, 1), first, m)) /\ NoSale(Journal(SettlementKey(c, 1), first, m))
      BY JournalFacts, OtherJournals DEF SettlementKey
    <3> QED
      BY <3>2, <3>3
  <2>3. Posts(due ++ paid)
    BY <1>3 DEF RegisterCashbookEntry
  <2> HIDE DEF due, paid
  <2>4. NewJournals(due ++ paid)
    BY <2>1, <2>2, TogetherFacts
  <2>5. NoSale(due ++ paid)
    BY <2>1, <2>2, TogetherBooks DEF NoSale
  <2> QED
    BY <2>3, <2>4, <2>5 DEF PostsNoSale
<1>4. ASSUME NEW c \in Entries, NEW a, NEW m \in Months, SettleCashbookEntry(c, a, m) PROVE PostsNoSale
  <2> DEFINE i == Len(entry[c].settled) + 1
  <2>1. Posts(Journal(<<"entry", c, i>>, a, m))
    BY <1>4 DEF SettleCashbookEntry, SettlementKey
  <2> HIDE DEF i
  <2>2. NewJournals(Journal(<<"entry", c, i>>, a, m)) /\ NoSale(Journal(<<"entry", c, i>>, a, m))
    BY JournalFacts, OtherJournals
  <2> QED
    BY <2>1, <2>2 DEF PostsNoSale
<1>5. ASSUME NEW c \in Entries, NEW m \in Months, VoidCashbookEntry(c, m)
      PROVE  ReversesSome \/ UNCHANGED ledgerVars
  BY <1>5 DEF VoidCashbookEntry, ReversesSome, Standing, Journaled
<1> QED
  BY <1>1, <1>2, <1>3, <1>4, <1>5
     DEF ExpenseNext, CashbookNext, RegisterExpense, UpdateDraftExpense, SubmitExpense, ApproveExpense,
         RejectExpense, CancelExpense, Moves

LEMMA GoodsSteps ==
    ASSUME GoodsNext PROVE PostsOthers
<1>1. ASSUME NEW d \in Lots, NEW m \in Months, ReceiveLot(d, m) PROVE PostsOthers
  BY <1>1, WorthFacts, OtherJournals DEF ReceiveLot, PostsOthers
<1>2. ASSUME NEW d \in Lots, NEW n, NEW m \in Months, SendBack(d, n, m) PROVE PostsOthers
  BY <1>2, WorthFacts, OtherJournals DEF SendBack, PostsOthers
<1> QED
  BY <1>1, <1>2 DEF GoodsNext

LEMMA LedgerPages ==
    ASSUME LedgerNext PROVE PostsOthers \/ ReversesSome \/ TurnsPeriod
<1>1. ASSUME NEW s \in Manuals, NEW m \in Months, PostManual(s, 1, m) PROVE PostsOthers
  BY <1>1, JournalFacts, OtherJournals DEF PostManual, PostsOthers
<1> QED
  BY <1>1 DEF LedgerNext, ReverseByHand, ReversesSome, TurnsPeriod

\* The keys of expenses and entries begin with words of their own.
LEMMA OtherKinds ==
    ASSUME NEW kind, kind # "expense", kind # "entry", NEW x, NEW i, NEW entries,
           DOMAIN entries \subseteq {<<kind, x, i>>}
    PROVE  NoSpending(entries)
BY DEF NoSpending, ExpenseKey, EntryKeys

\* Sales, payments and returns book nothing under the keys of expenses and entries.
LEMMA SalesSpareSpending ==
    ASSUME NEW o, NEW p, NEW r, NEW a, NEW n, NEW m
    PROVE  /\ NoSpending(OrderEntries(o)) /\ NoSpending(SaleEntries(o))
           /\ NoSpending(ReceiptEntries(p, m)) /\ NoSpending(Journal(ReversalKey(p), a, m))
           /\ NoSpending(ReturnEntries(r, a, n, m))
<1>1. NoSpending(Worth(RevenueKey(o), GrandTotal(o), DateOf[o]))
  <2>1. DOMAIN Worth(RevenueKey(o), GrandTotal(o), DateOf[o]) \subseteq {RevenueKey(o)}
    BY WorthFacts
  <2> QED
    BY <2>1, OtherKinds DEF RevenueKey
<1>2. NoSpending(Worth(CostKey(o), OrderCost(o), DateOf[o]))
  <2>1. DOMAIN Worth(CostKey(o), OrderCost(o), DateOf[o]) \subseteq {CostKey(o)}
    BY WorthFacts
  <2> QED
    BY <2>1, OtherKinds DEF CostKey
<1>3. NoSpending(Worth(CreditKey(r), a, m))
  <2>1. DOMAIN Worth(CreditKey(r), a, m) \subseteq {CreditKey(r)}
    BY WorthFacts
  <2> QED
    BY <2>1, OtherKinds DEF CreditKey
<1>4. NoSpending(Worth(RestockKey(r), n * WeightedCost(DateOf[ReturnOf[r]]), m))
  <2>1. DOMAIN Worth(RestockKey(r), n * WeightedCost(DateOf[ReturnOf[r]]), m) \subseteq {RestockKey(r)}
    BY WorthFacts
  <2> QED
    BY <2>1, OtherKinds DEF RestockKey
<1>5. NoSpending(ReceiptEntries(p, m)) /\ NoSpending(Journal(ReversalKey(p), a, m))
  <2>1. /\ DOMAIN ReceiptEntries(p, m) \subseteq {ReceiptKey(p)}
        /\ DOMAIN Journal(ReversalKey(p), a, m) \subseteq {ReversalKey(p)}
    BY JournalFacts DEF ReceiptEntries
  <2> QED
    BY <2>1, OtherKinds DEF ReceiptKey, ReversalKey
<1>6. NoSpending(<<>>)
  <2>1. DOMAIN <<>> = {}
    OBVIOUS
  <2> QED
    BY <2>1 DEF NoSpending
<1>7. NoSpending(OrderEntries(o))
  BY <1>1, <1>2, TogetherBooks DEF OrderEntries
<1>8. NoSpending(SaleEntries(o))
  BY <1>6, <1>7 DEF SaleEntries
<1>9. NoSpending(ReturnEntries(r, a, n, m))
  BY <1>3, <1>4, TogetherBooks DEF ReturnEntries
<1> QED
  BY <1>5, <1>7, <1>8, <1>9

LEMMA SaleSteps ==
    ASSUME ReceiptInv, SaleNext
    PROVE  ReceiptInv' /\ (PostsNoSpending \/ UNCHANGED ledgerVars)
<1> USE SalesLedgerAssumption
<1>1. ASSUME NEW o \in Orders, CompleteSale(o) \/ SaveOrder(o) PROVE PostsNoSpending /\ UNCHANGED receipt
  BY <1>1, SaleJournals, SalesSpareSpending DEF CompleteSale, SaveOrder, PostsNoSpending, saleVars
<1>2. ASSUME NEW p \in Receipts, NEW m \in Months
      PROVE  /\ NewJournals(ReceiptEntries(p, m) ++ SaleEntries(OrderOf[p]))
             /\ NoSpending(ReceiptEntries(p, m) ++ SaleEntries(OrderOf[p]))
  BY SaleJournals, SalesSpareSpending, TogetherFacts, TogetherBooks
<1>3. ASSUME NEW p \in Receipts, CompletePending(p) PROVE PostsNoSpending /\ ReceiptInv'
  <2>1. receipt[p] \in Payment /\ receipt[p].month \in Months
    BY <1>3, PaymentFacts DEF CompletePending
  <2>2. [receipt[p] EXCEPT !.status = "completed"] \in Payment
    BY <2>1 DEF Payment
  <2>3. ReceiptInv'
    BY <1>3, <2>2 DEF ReceiptInv, CompletePending
  <2> QED
    BY <1>2, <1>3, <2>1, <2>3 DEF CompletePending, PostsNoSpending
<1>4. ASSUME NEW p \in Receipts, FailPending(p) PROVE UNCHANGED ledgerVars /\ ReceiptInv'
  <2>1. receipt[p] \in Payment
    BY <1>4, PaymentFacts DEF FailPending
  <2>2. [receipt[p] EXCEPT !.status = "failed"] \in Payment
    BY <2>1 DEF Payment
  <2> QED
    BY <1>4, <2>2 DEF ReceiptInv, FailPending
<1>5. ASSUME NEW p \in Receipts, ReconcilePayment(p) PROVE PostsNoSpending /\ UNCHANGED receipt
  <2>1. receipt[p].month \in Months
    BY <1>5, PaymentFacts DEF ReconcilePayment
  <2>2. /\ NewJournals(ReceiptEntries(p, receipt[p].month))
        /\ NoSpending(ReceiptEntries(p, receipt[p].month))
    BY <2>1, SaleJournals, SalesSpareSpending
  <2> QED
    BY <1>5, <2>2 DEF ReconcilePayment, PostsNoSpending, saleVars
<1>6. ASSUME NEW p \in Receipts, NEW m \in Months, CapturePending(p, m)
      PROVE  UNCHANGED ledgerVars /\ ReceiptInv'
  BY <1>6 DEF CapturePending, ReceiptInv, Payment
<1>7. ASSUME NEW p \in Receipts, NEW m \in Months, CapturePayment(p, m) PROVE PostsNoSpending /\ ReceiptInv'
  <2>1. ReceiptInv'
    BY <1>7 DEF CapturePayment, ReceiptInv, Payment
  <2> QED
    BY <1>2, <1>7, <2>1 DEF CapturePayment, PostsNoSpending
<1>8. ASSUME NEW p \in Receipts, NEW m \in Months, ReversePayment(p, m) PROVE PostsNoSpending /\ ReceiptInv'
  <2>1. receipt[p] \in Payment /\ receipt[p].month \in Months
    BY <1>8, PaymentFacts DEF ReversePayment
  <2>2. [receipt[p] EXCEPT !.status = "reversed"] \in Payment
    BY <2>1 DEF Payment
  <2>3. ReceiptInv'
    BY <1>8, <2>2 DEF ReceiptInv, ReversePayment
  <2> DEFINE first == Journal(ReversalKey(p), GrandTotal(OrderOf[p]), m)
  <2>4. NewJournals(first) /\ NoSpending(first)
    BY JournalFacts, SalesSpareSpending
  <2>5. Posts(first ++ ReceiptEntries(p, receipt[p].month) ++ SaleEntries(OrderOf[p]))
    BY <1>8 DEF ReversePayment
  <2> HIDE DEF first
  <2>6. NewJournals(first ++ ReceiptEntries(p, receipt[p].month) ++ SaleEntries(OrderOf[p]))
    <3>1. NewJournals(ReceiptEntries(p, receipt[p].month)) /\ NewJournals(SaleEntries(OrderOf[p]))
      BY <2>1, SaleJournals
    <3> QED
      BY <2>4, <3>1, TogetherFacts
  <2>7. NoSpending(first ++ ReceiptEntries(p, receipt[p].month) ++ SaleEntries(OrderOf[p]))
    BY <2>4, SalesSpareSpending, TogetherBooks
  <2> QED
    BY <2>3, <2>5, <2>6, <2>7 DEF PostsNoSpending
<1>9. ASSUME NEW r \in Returns, NEW m \in Months, NEW credit, NEW restocked,
             CompleteReturn(r, credit, restocked, m)
      PROVE  PostsNoSpending /\ UNCHANGED receipt
  <2>1. NewJournals(ReturnEntries(r, credit, restocked, m) ++ SaleEntries(ReturnOf[r]))
    BY ReturnJournals, SaleJournals, TogetherFacts
  <2>2. NoSpending(ReturnEntries(r, credit, restocked, m) ++ SaleEntries(ReturnOf[r]))
    BY SalesSpareSpending, TogetherBooks
  <2> QED
    BY <1>9, <2>1, <2>2 DEF CompleteReturn, PostsNoSpending
<1> QED
  BY <1>1, <1>3, <1>4, <1>5, <1>6, <1>7, <1>8, <1>9 DEF SaleNext, ReceiptInv

LEMMA LedgerSteps ==
    ASSUME ReceiptInv, [BookNext /\ InBounds']_bookVars
    PROVE  ReceiptInv' /\ (PostsSome \/ ReversesSome \/ TurnsPeriod \/ UNCHANGED ledgerVars)
BY ExpenseSteps, GoodsSteps, SaleSteps, LedgerPages
   DEF BookNext, bookVars, ledgerVars, saleVars, expenseVars, goodsVars, ReceiptInv,
       PostsSome, PostsNoSale, PostsNoSpending, PostsOthers

BookInv == ChainsInv /\ ReceiptInv

\* The i-th journal of s is of month m.
IsOf(s, i, m) == i \in 1 .. Length(s) /\ book[s].months[i] = m

LEMMA JournalsAreOf ==
    ASSUME NEW m, \A s \in Sources : \A i : IsOf(s, i, m)' <=> IsOf(s, i, m)
    PROVE  JournalsOf(m)' = JournalsOf(m)
<1>1. \A s \in Sources : \A i : i \in {j \in 1 .. Length(s) : book[s].months[j] = m} <=> IsOf(s, i, m)
  BY DEF IsOf
<1>2. \A s \in Sources : \A i : i \in {j \in 1 .. Length(s)' : book'[s].months[j] = m} <=> IsOf(s, i, m)'
  BY DEF IsOf
<1>3. \A s \in Sources : {j \in 1 .. Length(s)' : book'[s].months[j] = m} = {j \in 1 .. Length(s) : book[s].months[j] = m}
  BY <1>1, <1>2
<1> QED
  BY <1>3 DEF JournalsOf

LEMMA ClosedStaySettled ==
    ASSUME ChainsInv, PostsSome \/ ReversesSome \/ TurnsPeriod \/ UNCHANGED ledgerVars
    PROVE  /\ ChainsInv'
           /\ \A m \in closed : JournalsOf(m)' # JournalsOf(m) => m \in late
<1>1. ASSUME NEW entries, NewJournals(entries), Posts(entries), NEW m \in closed, m \notin late
      PROVE  JournalsOf(m)' = JournalsOf(m)
  <2>1. ASSUME NEW s \in Sources PROVE \A i : IsOf(s, i, m)' <=> IsOf(s, i, m)
    <3>1. CASE Journaled(s) \/ s \notin DOMAIN entries
      BY <1>1, <3>1, PostsEffect DEF IsOf, Length
    <3>2. CASE ~Journaled(s) /\ s \in DOMAIN entries
      <4>1. PICK a, n : n \in Months /\ entries[s] = Entry(a, n)
        BY <1>1, <3>2 DEF NewJournals
      <4>2. Len(entries[s].months) = 1 /\ entries[s].months[1] = n
        BY <4>1, EntryFacts
      <4>3. n # m
        BY <1>1, <3>2, <4>2 DEF Posts, OpenFor
      <4>4. book'[s] = entries[s]
        BY <1>1, <3>2, PostsEffect
      <4>5. \A i : ~IsOf(s, i, m)'
        BY <4>2, <4>3, <4>4 DEF IsOf, Length
      <4>6. \A i : ~IsOf(s, i, m)
        BY <3>2 DEF IsOf, Journaled, Length, ChainsInv, Chain
      <4> QED
        BY <4>5, <4>6
    <3> QED
      BY <3>1, <3>2
  <2> QED
    BY <2>1, JournalsAreOf
<1>2. ASSUME NEW keys, NEW n \in Months, Reverses(keys, n), NEW m \in closed, m \notin late
      PROVE  JournalsOf(m)' = JournalsOf(m)
  <2>1. n # m
    BY <1>2 DEF Reverses, OpenFor
  <2>2. ASSUME NEW s \in Sources PROVE \A i : IsOf(s, i, m)' <=> IsOf(s, i, m)
    <3>1. CASE s \notin keys
      BY <1>2, <3>1, ReversesEffect DEF IsOf, Length
    <3>2. CASE s \in keys
      <4>1. book[s].months \in Seq(Months)
        BY DEF ChainsInv, Chain
      <4>2. book'[s].months = Append(book[s].months, n)
        BY <1>2, <3>2, ReversesEffect
      <4> DEFINE old == book[s].months
                 k == Len(old)
      <4>3. /\ k \in Nat /\ Len(Append(old, n)) = k + 1 /\ Append(old, n)[k + 1] = n
            /\ \A i \in 1 .. k : Append(old, n)[i] = old[i]
        BY <4>1, AppendProperties
      <4> QED
        BY <2>1, <4>2, <4>3 DEF IsOf, Length
    <3> QED
      BY <3>1, <3>2
  <2> QED
    BY <2>2, JournalsAreOf
<1>3. CASE PostsSome
  BY <1>1, <1>3, PostsEffect DEF PostsSome
<1>4. CASE ReversesSome
  BY <1>2, <1>4, ReversesEffect DEF ReversesSome
<1>5. ASSUME UNCHANGED book
      PROVE  ChainsInv' /\ \A m \in closed : JournalsOf(m)' = JournalsOf(m)
  <2>1. \A m : JournalsOf(m)' = JournalsOf(m)
    BY <1>5, JournalsAreOf DEF IsOf, Length
  <2> QED
    BY <1>5, <2>1 DEF ChainsInv
<1> QED
  BY <1>3, <1>4, <1>5 DEF TurnsPeriod, ClosePeriod, ReopenPeriod, ledgerVars

\* ensure_open_period (accounting/services.py:99), for any months, documents and
\* reversals: a closed month keeps its journals, but for a transaction that tested the
\* month before it was closed.
THEOREM ClosedMonthsStay == BookSpec => ClosedMonthsSettle
<1>1. BookInit => BookInv
  <2> SUFFICES ASSUME BookInit PROVE BookInv
    OBVIOUS
  <2>1. ReceiptInv
    BY DEF BookInit, SaleInit, ReceiptInv
  <2>2. book = [s \in Sources |-> NoJournal]
    BY DEF BookInit, LedgerInit
  <2>3. Chain(NoJournal)
    BY DEF Chain, NoJournal
  <2> QED
    BY <2>1, <2>2, <2>3 DEF BookInv, ChainsInv
<1>2. BookInv /\ [BookNext /\ InBounds']_bookVars => BookInv'
  BY LedgerSteps, ClosedStaySettled DEF BookInv
<1>3. BookInv /\ [BookNext /\ InBounds']_bookVars
        => [\A m \in closed : JournalsOf(m)' # JournalsOf(m) => m \in late]_ledgerVars
  BY LedgerSteps, ClosedStaySettled DEF BookInv
<1> QED
  BY <1>1, <1>2, <1>3, PTL DEF BookSpec, ClosedMonthsSettle
-----------------------------------------------------------------------------
(* Sales and their journals *)

\* Those that are booked.
BookedRevenues == {o \in Orders : Journaled(RevenueKey(o))}
BookedCaptures == {p \in Receipts : Journaled(ReceiptKey(p))}
BookedReverts  == {p \in Receipts : Journaled(ReversalKey(p))}
BookedCredits  == {r \in Returns : Journaled(CreditKey(r))}

BookedOn(p) == book[ReceiptKey(p)].months[1]

Worthy(o) == {x \in {o} : GrandTotal(x) > 0}

LEMMA SaleEntriesBook ==
    ASSUME NEW o \in Orders
    PROVE  /\ Revenues(OrderEntries(o)) = Worthy(o)
           /\ Captures(OrderEntries(o)) = {} /\ Reverts(OrderEntries(o)) = {}
           /\ Credits(OrderEntries(o)) = {}
           /\ Revenues(SaleEntries(o)) = Worthy(o) \cap completed
           /\ Captures(SaleEntries(o)) = {} /\ Reverts(SaleEntries(o)) = {}
           /\ Credits(SaleEntries(o)) = {}
<1> DEFINE revenue == Worth(RevenueKey(o), GrandTotal(o), DateOf[o])
           cost == Worth(CostKey(o), OrderCost(o), DateOf[o])
<1>1. DOMAIN revenue \subseteq {RevenueKey(o)} /\ (RevenueKey(o) \in DOMAIN revenue <=> GrandTotal(o) > 0)
  BY WorthFacts
<1>2. DOMAIN cost \subseteq {CostKey(o)}
  BY WorthFacts
<1>3. OrderEntries(o) = revenue ++ cost
  BY DEF OrderEntries
<1> HIDE DEF revenue, cost
<1>4. /\ Revenues(revenue) = Worthy(o) /\ Captures(revenue) = {}
      /\ Reverts(revenue) = {} /\ Credits(revenue) = {}
  BY <1>1 DEF Revenues, Captures, Reverts, Credits, Worthy, RevenueKey, ReceiptKey, ReversalKey, CreditKey
<1>5. NoSale(cost)
  BY <1>2 DEF NoSale, Revenues, Captures, Reverts, Credits, CostKey, RevenueKey, ReceiptKey,
              ReversalKey, CreditKey
<1>6. /\ Revenues(OrderEntries(o)) = Worthy(o) /\ Captures(OrderEntries(o)) = {}
      /\ Reverts(OrderEntries(o)) = {} /\ Credits(OrderEntries(o)) = {}
  <2>1. /\ Revenues(revenue ++ cost) = Revenues(revenue) \cup Revenues(cost)
        /\ Captures(revenue ++ cost) = Captures(revenue) \cup Captures(cost)
        /\ Reverts(revenue ++ cost) = Reverts(revenue) \cup Reverts(cost)
        /\ Credits(revenue ++ cost) = Credits(revenue) \cup Credits(cost)
    BY TogetherBooks
  <2> QED
    BY <1>3, <1>4, <1>5, <2>1 DEF NoSale
<1>7. DOMAIN <<>> = {}
  OBVIOUS
<1>8. o \notin completed => NoSale(SaleEntries(o))
  BY <1>7 DEF SaleEntries, NoSale, Revenues, Captures, Reverts, Credits
<1>9. o \in completed => SaleEntries(o) = OrderEntries(o)
  BY DEF SaleEntries
<1> QED
  BY <1>6, <1>8, <1>9 DEF NoSale, Worthy

LEMMA ReceiptEntriesBook ==
    ASSUME NEW p \in Receipts, NEW a, NEW m \in Months
    PROVE  /\ Captures(ReceiptEntries(p, m)) = {p} /\ Revenues(ReceiptEntries(p, m)) = {}
           /\ Reverts(ReceiptEntries(p, m)) = {} /\ Credits(ReceiptEntries(p, m)) = {}
           /\ ReceiptEntries(p, m)[ReceiptKey(p)].months[1] = m
           /\ Reverts(Journal(ReversalKey(p), a, m)) = {p} /\ Revenues(Journal(ReversalKey(p), a, m)) = {}
           /\ Captures(Journal(ReversalKey(p), a, m)) = {} /\ Credits(Journal(ReversalKey(p), a, m)) = {}
<1>1. /\ DOMAIN ReceiptEntries(p, m) = {ReceiptKey(p)}
      /\ ReceiptEntries(p, m)[ReceiptKey(p)] = Entry(GrandTotal(OrderOf[p]), m)
      /\ DOMAIN Journal(ReversalKey(p), a, m) = {ReversalKey(p)}
  <2>1. ReceiptEntries(p, m) = Journal(ReceiptKey(p), GrandTotal(OrderOf[p]), m)
    BY DEF ReceiptEntries
  <2>2. \A s, x : DOMAIN Journal(s, x, m) = {s} /\ Journal(s, x, m)[s] = Entry(x, m)
    BY DEF Journal
  <2> QED
    BY <2>1, <2>2
<1>2. ReceiptEntries(p, m)[ReceiptKey(p)].months[1] = m
  BY <1>1, EntryFacts
<1>3. /\ Captures(ReceiptEntries(p, m)) = {p} /\ Revenues(ReceiptEntries(p, m)) = {}
      /\ Reverts(ReceiptEntries(p, m)) = {} /\ Credits(ReceiptEntries(p, m)) = {}
  BY <1>1 DEF Revenues, Captures, Reverts, Credits, RevenueKey, ReceiptKey, ReversalKey, CreditKey
<1>4. /\ Reverts(Journal(ReversalKey(p), a, m)) = {p} /\ Revenues(Journal(ReversalKey(p), a, m)) = {}
      /\ Captures(Journal(ReversalKey(p), a, m)) = {} /\ Credits(Journal(ReversalKey(p), a, m)) = {}
  BY <1>1 DEF Revenues, Captures, Reverts, Credits, RevenueKey, ReceiptKey, ReversalKey, CreditKey
<1> QED
  BY <1>2, <1>3, <1>4

LEMMA ReturnEntriesBook ==
    ASSUME NEW r \in Returns, NEW credit, NEW restocked, NEW m
    PROVE  LET entries == ReturnEntries(r, credit, restocked, m) IN
           /\ Revenues(entries) = {} /\ Captures(entries) = {} /\ Reverts(entries) = {}
           /\ Credits(entries) = {x \in {r} : credit > 0}
<1> DEFINE paid == Worth(CreditKey(r), credit, m)
           back == Worth(RestockKey(r), restocked * WeightedCost(DateOf[ReturnOf[r]]), m)
<1>1. DOMAIN paid \subseteq {CreditKey(r)} /\ (CreditKey(r) \in DOMAIN paid <=> credit > 0)
  BY WorthFacts
<1>2. DOMAIN back \subseteq {RestockKey(r)}
  BY WorthFacts
<1>3. ReturnEntries(r, credit, restocked, m) = paid ++ back
  BY DEF ReturnEntries
<1> HIDE DEF paid, back
<1>4. /\ Revenues(paid) = {} /\ Captures(paid) = {} /\ Reverts(paid) = {}
      /\ Credits(paid) = {x \in {r} : credit > 0}
  BY <1>1 DEF Revenues, Captures, Reverts, Credits, RevenueKey, ReceiptKey, ReversalKey, CreditKey
<1>5. NoSale(back)
  BY <1>2 DEF NoSale, Revenues, Captures, Reverts, Credits, RestockKey, RevenueKey, ReceiptKey,
              ReversalKey, CreditKey
<1> QED
  BY <1>3, <1>4, <1>5, TogetherBooks DEF NoSale
\* What posting and reversing make of them.
LEMMA PostsBooks ==
    ASSUME ChainsInv, NEW entries, NewJournals(entries), Posts(entries)
    PROVE  /\ BookedRevenues' = BookedRevenues \cup Revenues(entries)
           /\ BookedCaptures' = BookedCaptures \cup Captures(entries)
           /\ BookedReverts' = BookedReverts \cup Reverts(entries)
           /\ BookedCredits' = BookedCredits \cup Credits(entries)
           /\ \A p \in BookedCaptures : BookedOn(p)' = BookedOn(p)
           /\ \A p \in Captures(entries) \ BookedCaptures :
                 BookedOn(p)' = entries[ReceiptKey(p)].months[1]
<1>1. \A s \in Sources : Journaled(s)' <=> Journaled(s) \/ s \in DOMAIN entries
  BY PostsEffect
<1>2. \A s \in Sources : Journaled(s) => book'[s] = book[s]
  BY PostsEffect
<1>3. \A s \in Sources : ~Journaled(s) /\ s \in DOMAIN entries => book'[s] = entries[s]
  BY PostsEffect
<1>4. BookedRevenues' = BookedRevenues \cup Revenues(entries)
  BY <1>1, KeysAreSources DEF BookedRevenues, Revenues
<1>5. BookedCaptures' = BookedCaptures \cup Captures(entries)
  BY <1>1, KeysAreSources DEF BookedCaptures, Captures
<1>6. BookedReverts' = BookedReverts \cup Reverts(entries)
  BY <1>1, KeysAreSources DEF BookedReverts, Reverts
<1>7. BookedCredits' = BookedCredits \cup Credits(entries)
  BY <1>1, KeysAreSources DEF BookedCredits, Credits
<1>8. \A p \in BookedCaptures : BookedOn(p)' = BookedOn(p)
  BY <1>2, KeysAreSources DEF BookedCaptures, BookedOn
<1>9. \A p \in Captures(entries) \ BookedCaptures : BookedOn(p)' = entries[ReceiptKey(p)].months[1]
  BY <1>3, KeysAreSources DEF BookedCaptures, Captures, BookedOn
<1> QED
  BY <1>4, <1>5, <1>6, <1>7, <1>8, <1>9

SameBooked ==
    /\ BookedRevenues' = BookedRevenues /\ BookedCaptures' = BookedCaptures
    /\ BookedReverts' = BookedReverts /\ BookedCredits' = BookedCredits
    /\ \A p \in BookedCaptures : BookedOn(p)' = BookedOn(p)

LEMMA ReversesBooks ==
    ASSUME ChainsInv, ReversesSome
    PROVE  SameBooked
<1>1. PICK keys, m : m \in Months /\ (\A s \in keys : Journaled(s)) /\ Reverses(keys, m)
  BY DEF ReversesSome
<1>2. ASSUME NEW s \in Sources
      PROVE  (Journaled(s)' <=> Journaled(s)) /\ (Journaled(s) => book'[s].months[1] = book[s].months[1])
  <2>1. CASE s \notin keys
    BY <1>1, <2>1, ReversesEffect DEF Journaled, Length
  <2>2. CASE s \in keys
    <3>1. book[s].months \in Seq(Months) /\ Len(book[s].months) > 0
      BY <1>1, <2>2 DEF ChainsInv, Chain, Journaled, Length
    <3>2. book'[s].months = Append(book[s].months, m)
      BY <1>1, <2>2, ReversesEffect
    <3>3. Len(book'[s].months) > 0 /\ book'[s].months[1] = book[s].months[1]
      BY <1>1, <3>1, <3>2, AppendProperties
    <3> QED
      BY <3>1, <3>3 DEF Journaled, Length
  <2> QED
    BY <2>1, <2>2
<1>3. BookedRevenues' = BookedRevenues /\ BookedCaptures' = BookedCaptures
  BY <1>2, KeysAreSources DEF BookedRevenues, BookedCaptures
<1>4. BookedReverts' = BookedReverts /\ BookedCredits' = BookedCredits
  BY <1>2, KeysAreSources DEF BookedReverts, BookedCredits
<1>5. \A p \in BookedCaptures : BookedOn(p)' = BookedOn(p)
  BY <1>2, KeysAreSources DEF BookedCaptures, BookedOn
<1> QED
  BY <1>3, <1>4, <1>5 DEF SameBooked

LEMMA OthersSpareSales ==
    ASSUME ChainsInv, PostsNoSale \/ PostsOthers \/ ReversesSome \/ TurnsPeriod \/ UNCHANGED ledgerVars
    PROVE  SameBooked
<1>1. ASSUME NEW entries, NewJournals(entries), Posts(entries), NoSale(entries) PROVE SameBooked
  BY <1>1, PostsBooks DEF NoSale, SameBooked
<1>2. ASSUME UNCHANGED book PROVE SameBooked
  <2>1. \A s : Journaled(s)' <=> Journaled(s)
    BY <1>2 DEF Journaled, Length
  <2> QED
    BY <1>2, <2>1 DEF SameBooked, BookedRevenues, BookedCaptures, BookedReverts, BookedCredits, BookedOn
<1> QED
  BY <1>1, <1>2, ReversesBooks
     DEF PostsNoSale, PostsOthers, TurnsPeriod, ClosePeriod, ReopenPeriod, ledgerVars

\* What is booked, by the rows of the documents.
SaleMatch ==
    /\ completed \subseteq Orders
    /\ DOMAIN returned = Returns
    /\ BookedRevenues = {o \in completed : GrandTotal(o) > 0}
    /\ BookedCaptures = {p \in Receipts : receipt[p].status \in {"completed", "reversed"}}
    /\ BookedReverts = {p \in Receipts : receipt[p].status = "reversed"}
    /\ BookedCredits = {r \in Returns : returned[r].credit > 0}
    /\ \A p \in BookedCaptures : BookedOn(p) = receipt[p].month

LEMMA MatchIsSales == SaleMatch <=> SalesMatchBooks /\ completed \subseteq Orders /\ DOMAIN returned = Returns
<1>1. SaleMatch => SalesMatchBooks
  BY DEF SaleMatch, SalesMatchBooks, BookedRevenues, BookedCaptures, BookedReverts, BookedCredits, BookedOn
<1>2. SalesMatchBooks /\ completed \subseteq Orders /\ DOMAIN returned = Returns => SaleMatch
  BY DEF SaleMatch, SalesMatchBooks, BookedRevenues, BookedCaptures, BookedReverts, BookedCredits, BookedOn
<1> QED
  BY <1>1, <1>2 DEF SaleMatch

\* A save of a payment with its order books them.
LEMMA PaymentBooks ==
    ASSUME ChainsInv, SaleMatch, NEW p \in Receipts, NEW m \in Months,
           Posts(ReceiptEntries(p, m) ++ SaleEntries(OrderOf[p]))
    PROVE  /\ BookedRevenues' = BookedRevenues
           /\ BookedCaptures' = BookedCaptures \cup {p}
           /\ BookedReverts' = BookedReverts /\ BookedCredits' = BookedCredits
           /\ \A q \in BookedCaptures : BookedOn(q)' = BookedOn(q)
           /\ p \notin BookedCaptures => BookedOn(p)' = m
<1> DEFINE entries == ReceiptEntries(p, m) ++ SaleEntries(OrderOf[p])
<1>1. OrderOf[p] \in Orders
  BY SalesLedgerAssumption
<1>2. NewJournals(entries)
  BY <1>1, SaleJournals, TogetherFacts
<1>3. /\ Revenues(entries) = Worthy(OrderOf[p]) \cap completed /\ Captures(entries) = {p}
      /\ Reverts(entries) = {} /\ Credits(entries) = {}
  BY <1>1, TogetherBooks, SaleEntriesBook, ReceiptEntriesBook
<1>4. entries[ReceiptKey(p)].months[1] = m
  <2>1. ReceiptKey(p) \in DOMAIN ReceiptEntries(p, m)
    BY JournalFacts DEF ReceiptEntries
  <2>2. entries[ReceiptKey(p)] = ReceiptEntries(p, m)[ReceiptKey(p)]
    BY <2>1, TogetherFacts
  <2> QED
    BY <2>2, ReceiptEntriesBook
<1>5. Worthy(OrderOf[p]) \cap completed \subseteq BookedRevenues
  BY DEF Worthy, SaleMatch
<1> HIDE DEF entries
<1>6. /\ BookedRevenues' = BookedRevenues \cup Revenues(entries)
      /\ BookedCaptures' = BookedCaptures \cup Captures(entries)
      /\ BookedReverts' = BookedReverts \cup Reverts(entries)
      /\ BookedCredits' = BookedCredits \cup Credits(entries)
  BY <1>2, PostsBooks DEF entries
<1>7. /\ \A q \in BookedCaptures : BookedOn(q)' = BookedOn(q)
      /\ \A q \in Captures(entries) \ BookedCaptures : BookedOn(q)' = entries[ReceiptKey(q)].months[1]
  BY <1>2, PostsBooks DEF entries
<1> QED
  BY <1>3, <1>4, <1>5, <1>6, <1>7
LEMMA SaleNextMatch ==
    ASSUME ChainsInv, ReceiptInv, SaleMatch, SaleNext
    PROVE  SaleMatch'
<1> USE SalesLedgerAssumption
<1>0. DOMAIN receipt = Receipts
  BY DEF ReceiptInv
<1>1. ASSUME NEW o \in Orders, CompleteSale(o) PROVE SaleMatch'
  <2>1. /\ BookedRevenues' = BookedRevenues \cup Worthy(o) /\ BookedCaptures' = BookedCaptures
        /\ BookedReverts' = BookedReverts /\ BookedCredits' = BookedCredits
        /\ \A p \in BookedCaptures : BookedOn(p)' = BookedOn(p)
    BY <1>1, SaleJournals, SaleEntriesBook, PostsBooks DEF CompleteSale
  <2>2. completed' = completed \cup {o} /\ UNCHANGED <<receipt, returned>>
    BY <1>1 DEF CompleteSale
  <2>3. BookedRevenues' = {x \in completed' : GrandTotal(x) > 0}
    BY <2>1, <2>2 DEF SaleMatch, Worthy
  <2> QED
    BY <2>1, <2>2, <2>3 DEF SaleMatch, GrandTotal
<1>2. ASSUME NEW o \in Orders, SaveOrder(o) PROVE SaleMatch'
  <2>1. /\ BookedRevenues' = BookedRevenues \cup (Worthy(o) \cap completed)
        /\ BookedCaptures' = BookedCaptures
        /\ BookedReverts' = BookedReverts /\ BookedCredits' = BookedCredits
        /\ \A p \in BookedCaptures : BookedOn(p)' = BookedOn(p)
    BY <1>2, SaleJournals, SaleEntriesBook, PostsBooks DEF SaveOrder
  <2>2. BookedRevenues' = BookedRevenues /\ UNCHANGED <<completed, receipt, returned>>
    BY <1>2, <2>1 DEF SaveOrder, SaleMatch, Worthy, saleVars
  <2> QED
    BY <2>1, <2>2 DEF SaleMatch
<1>3. ASSUME NEW p \in Receipts, NEW m \in Months, receipt[p].status \in {"absent", "pending"},
             Posts(ReceiptEntries(p, m) ++ SaleEntries(OrderOf[p])),
             receipt' = [receipt EXCEPT ![p] = [status |-> "completed", month |-> m]],
             UNCHANGED <<completed, returned>>
      PROVE  SaleMatch'
  <2>1. p \notin BookedCaptures
    BY <1>3 DEF SaleMatch
  <2>2. /\ BookedRevenues' = BookedRevenues /\ BookedCaptures' = BookedCaptures \cup {p}
        /\ BookedReverts' = BookedReverts /\ BookedCredits' = BookedCredits
        /\ (\A q \in BookedCaptures : BookedOn(q)' = BookedOn(q)) /\ BookedOn(p)' = m
    BY <1>3, <2>1, PaymentBooks
  <2>3. \A q \in Receipts : receipt'[q] = IF q = p THEN [status |-> "completed", month |-> m] ELSE receipt[q]
    BY <1>0, <1>3
  <2>4. receipt'[p].status = "completed" /\ receipt'[p].month = m /\ \A q \in Receipts \ {p} : receipt'[q] = receipt[q]
    BY <2>3
  <2>5. /\ BookedCaptures' = {q \in Receipts : receipt'[q].status \in {"completed", "reversed"}}
        /\ BookedReverts' = {q \in Receipts : receipt'[q].status = "reversed"}
        /\ \A q \in BookedCaptures' : BookedOn(q)' = receipt'[q].month
    BY <1>3, <2>1, <2>2, <2>4 DEF SaleMatch
  <2> QED
    BY <1>3, <2>2, <2>5 DEF SaleMatch
<1>4. ASSUME NEW p \in Receipts, NEW m \in Months, CapturePayment(p, m) PROVE SaleMatch'
  <2>1. receipt[p].status = "absent"
    BY <1>4 DEF CapturePayment, NoReceipt
  <2> QED
    BY <1>3, <1>4, <2>1 DEF CapturePayment
<1>5. ASSUME NEW p \in Receipts, CompletePending(p) PROVE SaleMatch'
  <2>1. receipt[p] \in Payment /\ receipt[p].month \in Months
    BY <1>5, PaymentFacts DEF CompletePending
  <2>2. [receipt[p] EXCEPT !.status = "completed"] = [status |-> "completed", month |-> receipt[p].month]
    BY <2>1 DEF Payment
  <2> QED
    BY <1>3, <1>5, <2>1, <2>2 DEF CompletePending
<1>6. ASSUME NEW p \in Receipts, UNCHANGED <<completed, returned, book>>, NEW row,
             receipt' = [receipt EXCEPT ![p] = row], row.status \in {"pending", "failed"},
             receipt[p].status \in {"absent", "pending"}
      PROVE  SaleMatch'
  <2>1. SameBooked
    BY <1>6 DEF SameBooked, BookedRevenues, BookedCaptures, BookedReverts, BookedCredits, BookedOn,
                Journaled, Length
  <2>2. receipt'[p] = row /\ \A q \in Receipts \ {p} : receipt'[q] = receipt[q]
    BY <1>0, <1>6
  <2>3. p \notin BookedCaptures
    BY <1>6 DEF SaleMatch
  <2> QED
    BY <1>6, <2>1, <2>2, <2>3 DEF SaleMatch, SameBooked
<1>7. ASSUME NEW p \in Receipts, NEW m \in Months, CapturePending(p, m) PROVE SaleMatch'
  <2> DEFINE row == [status |-> "pending", month |-> m]
  <2>1. receipt' = [receipt EXCEPT ![p] = row] /\ UNCHANGED <<completed, returned, book>>
        /\ receipt[p].status = "absent" /\ row.status = "pending"
    BY <1>7 DEF CapturePending, NoReceipt, ledgerVars
  <2> HIDE DEF row
  <2> QED
    BY <1>6, <2>1
<1>8. ASSUME NEW p \in Receipts, FailPending(p) PROVE SaleMatch'
  <2> DEFINE row == [receipt[p] EXCEPT !.status = "failed"]
  <2>1. receipt[p] \in Payment
    BY <1>8, PaymentFacts DEF FailPending
  <2>2. receipt' = [receipt EXCEPT ![p] = row] /\ UNCHANGED <<completed, returned, book>>
        /\ receipt[p].status = "pending" /\ row.status = "failed"
    BY <1>8, <2>1 DEF FailPending, ledgerVars, Payment
  <2> HIDE DEF row
  <2> QED
    BY <1>6, <2>2
<1>9. ASSUME NEW p \in Receipts, ReconcilePayment(p) PROVE SaleMatch'
  <2>1. receipt[p].month \in Months /\ p \in BookedCaptures
    BY <1>9, PaymentFacts DEF ReconcilePayment, SaleMatch
  <2> DEFINE entries == ReceiptEntries(p, receipt[p].month)
  <2>2. /\ Revenues(entries) = {} /\ Captures(entries) = {p} /\ Reverts(entries) = {}
        /\ Credits(entries) = {} /\ NewJournals(entries)
    BY <2>1, ReceiptEntriesBook, SaleJournals
  <2>3. Posts(entries)
    BY <1>9 DEF ReconcilePayment
  <2> HIDE DEF entries
  <2>4. SameBooked
    BY <2>1, <2>2, <2>3, PostsBooks DEF SameBooked
  <2> QED
    BY <1>9, <2>4 DEF SaleMatch, SameBooked, ReconcilePayment, saleVars
<1>10. ASSUME NEW p \in Receipts, NEW m \in Months, ReversePayment(p, m) PROVE SaleMatch'
  <2> DEFINE first == Journal(ReversalKey(p), GrandTotal(OrderOf[p]), m)
             saved == ReceiptEntries(p, receipt[p].month)
             sale == SaleEntries(OrderOf[p])
             entries == first ++ saved ++ sale
  <2>1. receipt[p] \in Payment /\ receipt[p].month \in Months /\ p \in BookedCaptures
    BY <1>10, PaymentFacts DEF ReversePayment, SaleMatch
  <2>2. Revenues(first) = {} /\ Captures(first) = {} /\ Reverts(first) = {p} /\ Credits(first) = {}
        /\ NewJournals(first)
    BY ReceiptEntriesBook, JournalFacts
  <2>3. Revenues(saved) = {} /\ Captures(saved) = {p} /\ Reverts(saved) = {} /\ Credits(saved) = {}
        /\ NewJournals(saved)
    BY <2>1, ReceiptEntriesBook, SaleJournals
  <2>4. /\ Revenues(sale) = Worthy(OrderOf[p]) \cap completed /\ Captures(sale) = {}
        /\ Reverts(sale) = {} /\ Credits(sale) = {} /\ NewJournals(sale)
    BY SaleEntriesBook, SaleJournals
  <2>5. Posts(entries)
    BY <1>10 DEF ReversePayment
  <2> HIDE DEF first, saved, sale
  <2>6. /\ Revenues(entries) = Worthy(OrderOf[p]) \cap completed /\ Captures(entries) = {p}
        /\ Reverts(entries) = {p} /\ Credits(entries) = {} /\ NewJournals(entries)
    <3> DEFINE both == first ++ saved
    <3>1. /\ Revenues(both) = {} /\ Captures(both) = {p} /\ Reverts(both) = {p} /\ Credits(both) = {}
          /\ NewJournals(both)
      <4>1. NewJournals(both)
        BY <2>2, <2>3, TogetherFacts
      <4> QED
        BY <2>2, <2>3, <4>1, TogetherBooks
    <3> HIDE DEF both
    <3>2. entries = both ++ sale
      BY DEF both
    <3>3. NewJournals(both ++ sale)
      BY <2>4, <3>1, TogetherFacts
    <3> QED
      BY <2>4, <3>1, <3>2, <3>3, TogetherBooks
  <2>7. Worthy(OrderOf[p]) \cap completed \subseteq BookedRevenues
    BY DEF Worthy, SaleMatch
  <2> HIDE DEF entries
  <2>8. /\ BookedRevenues' = BookedRevenues /\ BookedCaptures' = BookedCaptures
        /\ BookedReverts' = BookedReverts \cup {p} /\ BookedCredits' = BookedCredits
        /\ \A q \in BookedCaptures : BookedOn(q)' = BookedOn(q)
    BY <2>1, <2>5, <2>6, <2>7, PostsBooks
  <2>9. receipt' = [receipt EXCEPT ![p] = [receipt[p] EXCEPT !.status = "reversed"]]
        /\ UNCHANGED <<completed, returned>>
    BY <1>10 DEF ReversePayment
  <2>10. /\ receipt'[p].status = "reversed" /\ receipt'[p].month = receipt[p].month
         /\ \A q \in Receipts \ {p} : receipt'[q] = receipt[q]
    BY <1>0, <2>1, <2>9 DEF Payment
  <2> QED
    BY <2>1, <2>8, <2>9, <2>10 DEF SaleMatch
<1>11. ASSUME NEW r \in Returns, NEW m \in Months, NEW restocked,
              NEW credit \in 0 .. GrandTotal(ReturnOf[r]), CompleteReturn(r, credit, restocked, m)
       PROVE  SaleMatch'
  <2> DEFINE own == ReturnEntries(r, credit, restocked, m)
             sale == SaleEntries(ReturnOf[r])
  <2>1. /\ Revenues(own) = {} /\ Captures(own) = {} /\ Reverts(own) = {}
        /\ Credits(own) = {x \in {r} : credit > 0} /\ NewJournals(own)
    BY ReturnEntriesBook, ReturnJournals
  <2>2. /\ Revenues(sale) = Worthy(ReturnOf[r]) \cap completed /\ Captures(sale) = {}
        /\ Reverts(sale) = {} /\ Credits(sale) = {} /\ NewJournals(sale)
    BY SaleEntriesBook, SaleJournals
  <2>3. Posts(own ++ sale) /\ returned[r] = NotReturned /\ UNCHANGED <<completed, receipt>>
    BY <1>11 DEF CompleteReturn
  <2>4. returned' = [returned EXCEPT ![r] = [credit |-> credit, restocked |-> restocked, month |-> m]]
    BY <1>11 DEF CompleteReturn
  <2> HIDE DEF own, sale
  <2>5. /\ Revenues(own ++ sale) = Worthy(ReturnOf[r]) \cap completed /\ Captures(own ++ sale) = {}
        /\ Reverts(own ++ sale) = {} /\ Credits(own ++ sale) = {x \in {r} : credit > 0}
        /\ NewJournals(own ++ sale)
    <3>1. NewJournals(own ++ sale)
      BY <2>1, <2>2, TogetherFacts
    <3> QED
      BY <2>1, <2>2, <3>1, TogetherBooks
  <2>6. Worthy(ReturnOf[r]) \cap completed \subseteq BookedRevenues
    BY DEF Worthy, SaleMatch
  <2>7. /\ BookedRevenues' = BookedRevenues /\ BookedCaptures' = BookedCaptures
        /\ BookedReverts' = BookedReverts /\ BookedCredits' = BookedCredits \cup {x \in {r} : credit > 0}
        /\ \A q \in BookedCaptures : BookedOn(q)' = BookedOn(q)
    BY <2>3, <2>5, <2>6, PostsBooks
  <2>8. /\ DOMAIN returned' = Returns /\ returned'[r].credit = credit
        /\ \A x \in Returns \ {r} : returned'[x] = returned[x]
    BY <2>4 DEF SaleMatch
  <2>9. r \notin BookedCredits
    BY <2>3 DEF SaleMatch, NotReturned
  <2>10. BookedCredits' = {x \in Returns : returned'[x].credit > 0}
    BY <2>7, <2>8, <2>9 DEF SaleMatch
  <2> QED
    BY <2>3, <2>7, <2>8, <2>10 DEF SaleMatch
<1> QED
  BY <1>1, <1>2, <1>4, <1>5, <1>7, <1>8, <1>9, <1>10, <1>11 DEF SaleNext
-----------------------------------------------------------------------------
(* Expenses, the cashbook and their journals *)

\* A source that a step books nothing under.
Carried(s) ==
    /\ Journaled(s)' <=> Journaled(s)
    /\ book'[s].amount = book[s].amount
    /\ ~Standing(s) => ~Standing(s)'

LEMMA PostsCarries ==
    ASSUME ChainsInv, NEW entries, NewJournals(entries), Posts(entries), NEW s \in Sources,
           Journaled(s) \/ s \notin DOMAIN entries
    PROVE  Carried(s)
BY PostsEffect DEF Carried, Journaled, Standing, Length

LEMMA ReversesCarries ==
    ASSUME ChainsInv, NEW keys, NEW m \in Months, Reverses(keys, m), \A s \in keys : Journaled(s),
           NEW s \in Sources
    PROVE  Carried(s) /\ (s \in keys => ~Standing(s)')
<1>1. Length(s) \in Nat
  BY DEF ChainsInv, Chain, Length
<1>2. book'[s].amount = book[s].amount
  BY ReversesEffect
<1>3. CASE s \in keys
  <2>1. Length(s)' = Length(s) + 1 /\ Length(s) > 0
    BY <1>3, ReversesEffect DEF Journaled
  <2> QED
    BY <1>1, <1>2, <2>1 DEF Carried, Journaled, Standing
<1>4. CASE s \notin keys
  BY <1>4, ReversesEffect DEF Carried, Journaled, Standing, Length
<1> QED
  BY <1>3, <1>4

LEMMA OthersCarry ==
    ASSUME ChainsInv, PostsNoSpending \/ PostsOthers \/ ReversesSome \/ TurnsPeriod \/ UNCHANGED ledgerVars
    PROVE  /\ \A e \in Expenses : Carried(ExpenseKey(e))
           /\ \A c \in Entries : \A s \in EntryKeys(c) : Carried(s)
<1>1. ASSUME NEW entries, NewJournals(entries), Posts(entries), NoSpending(entries)
      PROVE  /\ \A e \in Expenses : Carried(ExpenseKey(e))
             /\ \A c \in Entries : \A s \in EntryKeys(c) : Carried(s)
  BY <1>1, PostsCarries, KeysAreSources DEF NoSpending
<1>2. ASSUME ReversesSome PROVE \A s \in Sources : Carried(s)
  BY <1>2, ReversesCarries DEF ReversesSome
<1>3. ASSUME UNCHANGED book PROVE \A s \in Sources : Carried(s)
  BY <1>3 DEF Carried, Journaled, Standing, Length
<1>4. CASE \A s \in Sources : Carried(s)
  BY <1>4, KeysAreSources
<1> QED
  BY <1>1, <1>2, <1>3, <1>4
     DEF PostsNoSpending, PostsOthers, TurnsPeriod, ClosePeriod, ReopenPeriod, ledgerVars

Expense == [status : {"absent", "draft", "pending", "approved", "rejected", "cancelled", "paid", "voided"},
            amount : Int]

CashEntry == [amount : 0 .. MaxAmount, settled : Seq(Amounts), voided : BOOLEAN]

\* Of an expense with its journal.
ExpenseOK(e) == expense[e] \in Expense /\ PaidMatchesJournal(e)

\* Of a cashbook entry with its journals: each settlement has its own, together they
\* settle no more than is due, and those of a voided entry are not POSTED.
EntryOK(c) ==
    /\ entry[c] \in CashEntry
    /\ Len(entry[c].settled) <= MaxSettlements
    /\ Settled(c) <= entry[c].amount
    /\ entry[c].amount = 0 => entry[c] = NoEntry
    /\ Journaled(EntryKey(c)) <=> entry[c].amount > 0
    /\ Journaled(EntryKey(c)) => book[EntryKey(c)].amount = entry[c].amount
    /\ \A i \in 1 .. MaxSettlements :
          /\ Journaled(SettlementKey(c, i)) <=> i <= Len(entry[c].settled)
          /\ Journaled(SettlementKey(c, i)) => book[SettlementKey(c, i)].amount = entry[c].settled[i]
    /\ entry[c].voided => \A s \in EntryKeys(c) : ~Standing(s)

SpendingMatch ==
    /\ DOMAIN expense = Expenses /\ DOMAIN entry = Entries
    /\ \A e \in Expenses : ExpenseOK(e)
    /\ \A c \in Entries : EntryOK(c)

LEMMA ExpenseCarried ==
    ASSUME NEW e, ExpenseOK(e), Carried(ExpenseKey(e)), expense'[e] = expense[e]
    PROVE  ExpenseOK(e)'
BY DEF ExpenseOK, PaidMatchesJournal, Carried

LEMMA KeysOfEntry ==
    ASSUME NEW c
    PROVE  /\ EntryKey(c) \in EntryKeys(c)
           /\ \A i \in 1 .. MaxSettlements : SettlementKey(c, i) \in EntryKeys(c)
           /\ \A s \in EntryKeys(c) : s = EntryKey(c) \/ \E i \in 1 .. MaxSettlements : s = SettlementKey(c, i)
BY ExpenseAssumption DEF EntryKey, EntryKeys, SettlementKey

LEMMA EntryCarried ==
    ASSUME NEW c, EntryOK(c), \A s \in EntryKeys(c) : Carried(s), entry'[c] = entry[c]
    PROVE  EntryOK(c)'
<1>1. Carried(EntryKey(c)) /\ \A i \in 1 .. MaxSettlements : Carried(SettlementKey(c, i))
  BY KeysOfEntry
<1>2. Settled(c)' = Settled(c)
  BY DEF Settled, Settlement
<1>3. /\ Journaled(EntryKey(c))' <=> entry'[c].amount > 0
      /\ Journaled(EntryKey(c))' => book'[EntryKey(c)].amount = entry'[c].amount
  BY <1>1 DEF EntryOK, Carried
<1>4. \A i \in 1 .. MaxSettlements :
          /\ Journaled(SettlementKey(c, i))' <=> i <= Len(entry'[c].settled)
          /\ Journaled(SettlementKey(c, i))' => book'[SettlementKey(c, i)].amount = entry'[c].settled[i]
  BY <1>1 DEF EntryOK, Carried
<1>5. entry'[c].voided => \A s \in EntryKeys(c) : ~Standing(s)'
  BY DEF EntryOK, Carried
<1> QED
  BY <1>2, <1>3, <1>4, <1>5 DEF EntryOK

\* A step that changes one expense, and books nothing of the others.
LEMMA OneExpense ==
    ASSUME SpendingMatch, NEW e \in Expenses, NEW row, expense' = [expense EXCEPT ![e] = row],
           UNCHANGED entry, \A x \in Expenses \ {e} : Carried(ExpenseKey(x)),
           \A c \in Entries : \A s \in EntryKeys(c) : Carried(s),
           ExpenseOK(e)'
    PROVE  SpendingMatch'
<1>1. \A x \in Expenses \ {e} : expense'[x] = expense[x]
  BY DEF SpendingMatch
<1>2. \A x \in Expenses \ {e} : ExpenseOK(x)'
  BY <1>1, ExpenseCarried DEF SpendingMatch
<1>3. \A x \in Expenses : ExpenseOK(x)'
  BY <1>2
<1>4. \A c \in Entries : EntryOK(c)'
  BY EntryCarried DEF SpendingMatch
<1>5. DOMAIN expense' = Expenses /\ DOMAIN entry' = Entries
  BY DEF SpendingMatch
<1> QED
  BY <1>3, <1>4, <1>5 DEF SpendingMatch

LEMMA ExpenseNextMatch ==
    ASSUME ChainsInv, SpendingMatch, ExpenseNext
    PROVE  SpendingMatch'
<1>0. \A e \in Expenses : ExpenseOK(e) /\ expense[e] \in Expense
  BY DEF SpendingMatch, ExpenseOK
<1>1. \A a \in Amounts : a \in Int
  BY ExpenseAssumption DEF Amounts
\* A step that books nothing, of an expense that has no journal before or after.
<1>2. ASSUME NEW e \in Expenses, NEW row \in Expense, UNCHANGED <<entry, ledgerVars>>,
             expense' = [expense EXCEPT ![e] = row],
             expense[e].status \notin {"paid", "voided"}, row.status \notin {"paid", "voided"}
      PROVE  SpendingMatch'
  <2>1. /\ \A x \in Expenses : Carried(ExpenseKey(x))
        /\ \A c \in Entries : \A s \in EntryKeys(c) : Carried(s)
    BY <1>2, OthersCarry
  <2>2. expense'[e] = row
    BY <1>2 DEF SpendingMatch
  <2>3. ~Journaled(ExpenseKey(e))
    BY <1>0, <1>2 DEF ExpenseOK, PaidMatchesJournal
  <2>4. ExpenseOK(e)'
    BY <1>2, <2>1, <2>2, <2>3 DEF ExpenseOK, PaidMatchesJournal, Carried
  <2> QED
    BY <1>2, <2>1, <2>4, OneExpense
<1>3. ASSUME NEW e \in Expenses, NEW a \in Amounts, NEW status \in {"draft", "pending"},
             RegisterExpense(e, a, status)
      PROVE  SpendingMatch'
  <2> DEFINE row == [status |-> status, amount |-> a]
  <2>1. row \in Expense /\ row.status = status
    BY <1>1, <1>3 DEF Expense
  <2>2. expense[e].status = "absent" /\ expense' = [expense EXCEPT ![e] = row]
        /\ UNCHANGED <<entry, ledgerVars>>
    BY <1>3 DEF RegisterExpense, NoExpense
  <2> HIDE DEF row
  <2> QED
    BY <1>2, <2>1, <2>2
<1>4. ASSUME NEW e \in Expenses, NEW a \in Amounts, UpdateDraftExpense(e, a) PROVE SpendingMatch'
  <2> DEFINE row == [expense[e] EXCEPT !.amount = a]
  <2>1. row \in Expense /\ row.status = expense[e].status
    BY <1>0, <1>1 DEF Expense
  <2>2. expense[e].status = "draft" /\ expense' = [expense EXCEPT ![e] = row]
        /\ UNCHANGED <<entry, ledgerVars>>
    BY <1>4 DEF UpdateDraftExpense
  <2> HIDE DEF row
  <2> QED
    BY <1>2, <2>1, <2>2
<1>5. ASSUME NEW e \in Expenses, NEW from, NEW to, Moves(e, from, to),
             from \subseteq {"draft", "pending", "approved"},
             to \in {"pending", "approved", "rejected", "cancelled"}
      PROVE  SpendingMatch'
  <2> DEFINE row == [expense[e] EXCEPT !.status = to]
  <2>1. row \in Expense /\ row.status = to
    BY <1>0, <1>5 DEF Expense
  <2>2. expense[e].status \in from /\ expense' = [expense EXCEPT ![e] = row]
        /\ UNCHANGED <<entry, ledgerVars>>
    BY <1>5 DEF Moves
  <2> HIDE DEF row
  <2> QED
    BY <1>2, <1>5, <2>1, <2>2
<1>6. ASSUME NEW e \in Expenses,
             SubmitExpense(e) \/ ApproveExpense(e) \/ RejectExpense(e) \/ CancelExpense(e)
      PROVE  SpendingMatch'
  BY <1>5, <1>6 DEF SubmitExpense, ApproveExpense, RejectExpense, CancelExpense
<1>7. ASSUME NEW e \in Expenses, NEW m \in Months, PayExpense(e, m) PROVE SpendingMatch'
  <2> DEFINE row == [expense[e] EXCEPT !.status = "paid"]
             entries == Journal(ExpenseKey(e), expense[e].amount, m)
  <2>1. row \in Expense /\ row.status = "paid" /\ row.amount = expense[e].amount
    BY <1>0 DEF Expense
  <2>2. /\ expense[e].status = "approved" /\ expense' = [expense EXCEPT ![e] = row]
        /\ UNCHANGED entry /\ Posts(entries)
    BY <1>7 DEF PayExpense
  <2> DEFINE key == ExpenseKey(e)
             amount == expense[e].amount
  <2>a. /\ DOMAIN Journal(key, amount, m) = {key}
        /\ Journal(key, amount, m)[key] = Entry(amount, m)
        /\ m \in Months => NewJournals(Journal(key, amount, m))
    <3> HIDE DEF key, amount
    <3> QED
      BY JournalFacts
  <2>3. /\ DOMAIN entries = {ExpenseKey(e)} /\ NewJournals(entries)
        /\ entries[ExpenseKey(e)] = Entry(expense[e].amount, m)
    BY <2>a
  <2> HIDE DEF row, entries
  <2>4. ASSUME NEW s \in Sources, s # ExpenseKey(e) PROVE Carried(s)
    BY <2>2, <2>3, <2>4, PostsCarries
  <2>5. /\ \A x \in Expenses \ {e} : Carried(ExpenseKey(x))
        /\ \A c \in Entries : \A s \in EntryKeys(c) : Carried(s)
    <3>1. \A x \in Expenses \ {e} : ExpenseKey(x) \in Sources /\ ExpenseKey(x) # ExpenseKey(e)
      BY KeysAreSources DEF ExpenseKey
    <3>2. \A c \in Entries : \A s \in EntryKeys(c) : s \in Sources /\ s # ExpenseKey(e)
      BY KeysAreSources DEF ExpenseKey, EntryKeys
    <3> QED
      BY <2>4, <3>1, <3>2
  <2>6. ~Journaled(ExpenseKey(e))
    BY <1>0, <2>2 DEF ExpenseOK, PaidMatchesJournal
  <2>7. /\ Journaled(ExpenseKey(e))'
        /\ book'[ExpenseKey(e)].amount = expense[e].amount
    BY <2>2, <2>3, <2>6, KeysAreSources, PostsEffect, EntryFacts
  <2>8. expense'[e] = row
    BY <2>2 DEF SpendingMatch
  <2>9. ExpenseOK(e)'
    BY <2>1, <2>7, <2>8 DEF ExpenseOK, PaidMatchesJournal
  <2> QED
    BY <2>2, <2>5, <2>9, OneExpense
<1>8. ASSUME NEW e \in Expenses, NEW m \in Months, VoidPaidExpense(e, m) PROVE SpendingMatch'
  <2> DEFINE row == [expense[e] EXCEPT !.status = "voided"]
  <2>1. row \in Expense /\ row.status = "voided" /\ row.amount = expense[e].amount
    BY <1>0 DEF Expense
  <2>2. /\ expense[e].status = "paid" /\ expense' = [expense EXCEPT ![e] = row]
        /\ UNCHANGED entry /\ Reverses({ExpenseKey(e)}, m)
    BY <1>8 DEF VoidPaidExpense
  <2> HIDE DEF row
  <2>3. Journaled(ExpenseKey(e)) /\ book[ExpenseKey(e)].amount = expense[e].amount
    BY <1>0, <2>2 DEF ExpenseOK, PaidMatchesJournal
  <2>4. \A s \in Sources : Carried(s) /\ (s = ExpenseKey(e) => ~Standing(s)')
    BY <2>2, <2>3, ReversesCarries
  <2>5. expense'[e] = row
    BY <2>2 DEF SpendingMatch
  <2>6. Carried(ExpenseKey(e)) /\ ~Standing(ExpenseKey(e))'
    BY <2>4, KeysAreSources
  <2>7. ExpenseOK(e)'
    BY <2>1, <2>3, <2>5, <2>6 DEF ExpenseOK, PaidMatchesJournal, Carried
  <2>8. /\ \A x \in Expenses \ {e} : Carried(ExpenseKey(x))
        /\ \A c \in Entries : \A s \in EntryKeys(c) : Carried(s)
    BY <2>4, KeysAreSources
  <2> QED
    BY <2>2, <2>7, <2>8, OneExpense
<1> QED
  BY <1>3, <1>4, <1>6, <1>7, <1>8 DEF ExpenseNext

\* A step that changes one entry of the cashbook, and books nothing of the others.
LEMMA OneEntry ==
    ASSUME SpendingMatch, NEW c \in Entries, NEW row, entry' = [entry EXCEPT ![c] = row],
           UNCHANGED expense, \A e \in Expenses : Carried(ExpenseKey(e)),
           \A d \in Entries \ {c} : \A s \in EntryKeys(d) : Carried(s),
           EntryOK(c)'
    PROVE  SpendingMatch'
<1>1. \A d \in Entries \ {c} : entry'[d] = entry[d]
  BY DEF SpendingMatch
<1>2. \A d \in Entries \ {c} : EntryOK(d)'
  BY <1>1, EntryCarried DEF SpendingMatch
<1>3. \A d \in Entries : EntryOK(d)'
  BY <1>2
<1>4. \A e \in Expenses : ExpenseOK(e)'
  BY ExpenseCarried DEF SpendingMatch
<1>5. DOMAIN expense' = Expenses /\ DOMAIN entry' = Entries
  BY DEF SpendingMatch
<1> QED
  BY <1>3, <1>4, <1>5 DEF SpendingMatch

\* Settlements of an entry, by number, as far as there are any.
LEMMA SettlementFacts ==
    ASSUME NEW c, EntryOK(c)
    PROVE  /\ \A i \in 1 .. MaxSettlements : Settlement(c, i) \in 0 .. MaxAmount
           /\ Settled(c) \in Nat /\ entry[c].amount \in 0 .. MaxAmount
           /\ IsFiniteSet(1 .. MaxSettlements)
<1> USE ExpenseAssumption
<1>1. entry[c].settled \in Seq(Amounts) /\ entry[c].amount \in 0 .. MaxAmount
  BY DEF EntryOK, CashEntry
<1>2. ASSUME NEW i \in 1 .. MaxSettlements PROVE Settlement(c, i) \in 0 .. MaxAmount
  <2>1. i <= Len(entry[c].settled) => entry[c].settled[i] \in Amounts
    BY <1>1
  <2> QED
    BY <2>1 DEF Settlement, Amounts
<1>3. IsFiniteSet(1 .. MaxSettlements)
  BY FS_Interval
<1> DEFINE f == [i \in 1 .. MaxSettlements |-> Settlement(c, i)]
<1>4. f \in [1 .. MaxSettlements -> 0 .. MaxAmount] /\ Settled(c) = Total(f, MaxAmount)
  BY <1>2 DEF Settled
<1> HIDE DEF f
<1>5. Total(f, MaxAmount) \in Nat
  BY <1>3, <1>4, TotalNat
<1> QED
  BY <1>1, <1>2, <1>3, <1>4, <1>5

\* A new entry and its first settlement.
LEMMA RegisterMatches ==
    ASSUME ChainsInv, SpendingMatch, NEW c \in Entries, NEW a \in Amounts, NEW m \in Months,
           NEW first \in 0 .. a, RegisterCashbookEntry(c, a, first, m)
    PROVE  SpendingMatch'
<1> USE ExpenseAssumption
<1> DEFINE row == [amount |-> a, settled |-> IF first = 0 THEN <<>> ELSE <<first>>, voided |-> FALSE]
           due == Journal(EntryKey(c), a, m)
           paid == IF first = 0 THEN <<>> ELSE Journal(SettlementKey(c, 1), first, m)
<1>0. EntryOK(c)
  BY DEF SpendingMatch
<1>1. entry[c] = NoEntry /\ entry' = [entry EXCEPT ![c] = row] /\ UNCHANGED expense
      /\ Posts(due ++ paid)
  BY DEF RegisterCashbookEntry
<1>2. entry'[c] = row
  BY <1>1 DEF SpendingMatch
<1>3. a \in 1 .. MaxAmount /\ first \in 0 .. MaxAmount
  BY DEF Amounts
<1>4. /\ entry'[c].amount = a /\ entry'[c].voided = FALSE
      /\ first = 0 => entry'[c].settled = <<>>
      /\ first # 0 => entry'[c].settled = <<first>>
      /\ entry'[c] = [amount |-> a, settled |-> entry'[c].settled, voided |-> FALSE]
  BY <1>2
<1>5. /\ entry'[c].settled \in Seq(Amounts)
      /\ Len(entry'[c].settled) = IF first = 0 THEN 0 ELSE 1
      /\ first # 0 => entry'[c].settled[1] = first
  <2>1. CASE first = 0
    <3>1. <<>> \in Seq(Amounts) /\ Len(<<>>) = 0
      OBVIOUS
    <3> QED
      <4>1. entry'[c].settled = <<>>
        BY <1>4, <2>1
      <4>2. entry'[c].settled \in Seq(Amounts) /\ Len(entry'[c].settled) = 0
        BY <3>1, <4>1
      <4> QED
        BY <2>1, <4>2
  <2>2. CASE first # 0
    <3>1. first \in Amounts
      BY <1>3, <2>2 DEF Amounts
    <3>2. <<first>> \in Seq(Amounts) /\ Len(<<first>>) = 1 /\ <<first>>[1] = first
      BY <3>1
    <3> QED
      BY <1>4, <2>2, <3>2, Zenon
  <2> QED
    BY <2>1, <2>2
<1>6. \A s \in EntryKeys(c) : ~Journaled(s)
  <2>1. entry[c].amount = 0 /\ Len(entry[c].settled) = 0
    BY <1>1 DEF NoEntry
  <2>2. ~Journaled(EntryKey(c))
    BY <1>0, <2>1 DEF EntryOK
  <2>3. \A i \in 1 .. MaxSettlements : ~Journaled(SettlementKey(c, i))
    BY <1>0, <2>1 DEF EntryOK
  <2> QED
    BY <2>2, <2>3, KeysOfEntry
<1>7. /\ DOMAIN due = {EntryKey(c)} /\ due[EntryKey(c)] = Entry(a, m) /\ NewJournals(due)
  BY JournalFacts
<1>8. /\ NewJournals(paid)
      /\ first = 0 => DOMAIN paid = {}
      /\ first # 0 => DOMAIN paid = {SettlementKey(c, 1)}
      /\ first # 0 => paid[SettlementKey(c, 1)] = Entry(first, m)
  <2>1. CASE first = 0
    <3>1. paid = <<>> /\ DOMAIN <<>> = {}
      BY <2>1
    <3> QED
      BY <2>1, <3>1 DEF NewJournals
  <2>2. CASE first # 0
    <3>1. paid = Journal(SettlementKey(c, 1), first, m)
      BY <2>2
    <3>2. /\ DOMAIN Journal(SettlementKey(c, 1), first, m) = {SettlementKey(c, 1)}
          /\ Journal(SettlementKey(c, 1), first, m)[SettlementKey(c, 1)] = Entry(first, m)
          /\ NewJournals(Journal(SettlementKey(c, 1), first, m))
      BY JournalFacts
    <3> HIDE DEF paid
    <3> QED
      BY <2>2, <3>1, <3>2
  <2> QED
    BY <2>1, <2>2
<1> HIDE DEF row, due, paid
<1> DEFINE entries == due ++ paid
<1>9a. /\ DOMAIN (due ++ paid) = DOMAIN due \cup DOMAIN paid
       /\ \A s \in DOMAIN due : (due ++ paid)[s] = due[s]
       /\ \A s \in DOMAIN paid \ DOMAIN due : (due ++ paid)[s] = paid[s]
       /\ NewJournals(due) /\ NewJournals(paid) => NewJournals(due ++ paid)
  BY TogetherFacts
<1>9. /\ DOMAIN entries = DOMAIN due \cup DOMAIN paid /\ NewJournals(entries)
      /\ \A s \in DOMAIN due : entries[s] = due[s]
      /\ \A s \in DOMAIN paid \ DOMAIN due : entries[s] = paid[s]
  BY <1>7, <1>8, <1>9a, Zenon
<1>10. Posts(entries)
  BY <1>1
<1> HIDE DEF entries
<1>11. DOMAIN entries \subseteq EntryKeys(c)
  <2>1. EntryKey(c) \in EntryKeys(c) /\ SettlementKey(c, 1) \in EntryKeys(c)
    BY KeysOfEntry
  <2> QED
    BY <1>7, <1>8, <1>9, <2>1
<1>12. /\ \A e \in Expenses : Carried(ExpenseKey(e))
       /\ \A d \in Entries \ {c} : \A s \in EntryKeys(d) : Carried(s)
  <2>1. \A e \in Expenses : ExpenseKey(e) \in Sources /\ ExpenseKey(e) \notin EntryKeys(c)
    BY KeysAreSources DEF ExpenseKey, EntryKeys
  <2>2. \A d \in Entries \ {c} : \A s \in EntryKeys(d) : s \in Sources /\ s \notin EntryKeys(c)
    BY KeysAreSources DEF EntryKeys
  <2> QED
    BY <1>9, <1>10, <1>11, <2>1, <2>2, PostsCarries
<1>13. EntryKey(c) # SettlementKey(c, 1)
  BY DEF EntryKey, SettlementKey
<1>14. /\ EntryKeys(c) \subseteq Sources
       /\ \A s \in EntryKeys(c) : Journaled(s)' <=> s \in DOMAIN entries
       /\ \A s \in DOMAIN entries : book'[s] = entries[s]
  BY <1>6, <1>9, <1>10, <1>11, KeysAreSources, PostsEffect
<1>15. Journaled(EntryKey(c))' /\ book'[EntryKey(c)].amount = a
  <2>1. EntryKey(c) \in DOMAIN entries /\ entries[EntryKey(c)] = Entry(a, m)
    BY <1>7, <1>9
  <2> QED
    BY <1>14, <1>11, <2>1, EntryFacts
<1>16. ASSUME NEW i \in 1 .. MaxSettlements
       PROVE  /\ Journaled(SettlementKey(c, i))' <=> i <= Len(entry'[c].settled)
              /\ Journaled(SettlementKey(c, i))' => book'[SettlementKey(c, i)].amount = entry'[c].settled[i]
  <2>0. SettlementKey(c, i) \in EntryKeys(c)
    BY KeysOfEntry
  <2>1. SettlementKey(c, i) \in EntryKeys(c) /\ SettlementKey(c, i) # EntryKey(c)
        /\ (SettlementKey(c, i) = SettlementKey(c, 1) <=> i = 1)
    BY <2>0 DEF EntryKey, SettlementKey
  <2>2. SettlementKey(c, i) \in DOMAIN entries <=> i = 1 /\ first # 0
    BY <1>7, <1>8, <1>9, <2>1
  <2>3. i <= Len(entry'[c].settled) <=> i = 1 /\ first # 0
    BY <1>5
  <2>4. i = 1 /\ first # 0 => book'[SettlementKey(c, i)].amount = first
    <3> HAVE i = 1 /\ first # 0
    <3>1. SettlementKey(c, 1) \in DOMAIN paid \ DOMAIN due
      BY <1>7, <1>8, <1>13
    <3>2. entries[SettlementKey(c, 1)] = Entry(first, m)
      BY <1>8, <1>9, <3>1
    <3> QED
      BY <1>14, <2>2, <3>2, EntryFacts
  <2> QED
    BY <1>5, <1>14, <2>1, <2>2, <2>3, <2>4
<1>17. Settled(c)' = first
  <2> DEFINE f == [i \in 1 .. MaxSettlements |-> IF i = 1 THEN first ELSE 0]
  <2>1. ASSUME NEW i \in 1 .. MaxSettlements PROVE Settlement(c, i)' = IF i = 1 THEN first ELSE 0
    BY <1>5 DEF Settlement
  <2>2. Settled(c)' = Total([i \in 1 .. MaxSettlements |-> Settlement(c, i)'], MaxAmount)
    BY DEF Settled
  <2>3. [i \in 1 .. MaxSettlements |-> Settlement(c, i)'] = f
    BY <2>1
  <2>4. IsFiniteSet(1 .. MaxSettlements) /\ 1 \in 1 .. MaxSettlements
    BY FS_Interval
  <2>5. Total(f, MaxAmount) = first
    <3> DEFINE S == 1 .. MaxSettlements
               one == 1
    <3>1. one \in S /\ IsFiniteSet(S) /\ f = [i \in S |-> IF i = one THEN first ELSE 0]
      BY <2>4
    <3> HIDE DEF S, one, f
    <3>2. Total([i \in S |-> IF i = one THEN first ELSE 0], MaxAmount) = first
      BY <1>3, <3>1, TotalSingle
    <3> QED
      BY <3>1, <3>2
  <2> QED
    BY <2>2, <2>3, <2>5
<1>18. EntryOK(c)'
  <2>1. entry'[c] \in CashEntry
    <3> DEFINE paidOff == entry'[c].settled
    <3>1. entry'[c] = [amount |-> a, settled |-> paidOff, voided |-> FALSE] /\ a \in 0 .. MaxAmount
          /\ paidOff \in Seq(Amounts)
      BY <1>3, <1>4, <1>5
    <3> HIDE DEF paidOff
    <3> QED
      BY <3>1 DEF CashEntry
  <2>2. Len(entry'[c].settled) <= MaxSettlements /\ Settled(c)' <= entry'[c].amount
        /\ entry'[c].amount > 0
    BY <1>3, <1>4, <1>5, <1>17
  <2> QED
    BY <1>4, <1>15, <1>16, <2>1, <2>2 DEF EntryOK
<1> QED
  BY <1>1, <1>12, <1>18, OneEntry

\* One more settlement, of no more than what is due.
LEMMA SettleMatches ==
    ASSUME ChainsInv, SpendingMatch, NEW c \in Entries, NEW a \in Amounts, NEW m \in Months,
           SettleCashbookEntry(c, a, m)
    PROVE  SpendingMatch'
<1> USE ExpenseAssumption
<1> DEFINE old == entry[c].settled
<1>a. PICK n : n = Len(old) + 1
  OBVIOUS
<1> DEFINE row == [entry[c] EXCEPT !.settled = Append(old, a)]
           key == SettlementKey(c, n)
<1>0. EntryOK(c)
  BY DEF SpendingMatch
<1>1. /\ ~entry[c].voided /\ n <= MaxSettlements /\ a <= Due(c) /\ entry[c] # NoEntry
      /\ entry' = [entry EXCEPT ![c] = row] /\ UNCHANGED expense
      /\ Posts(Journal(key, a, m))
  BY <1>a DEF SettleCashbookEntry
<1>2. a \in 1 .. MaxAmount
  BY DEF Amounts
<1>3. /\ entry[c] \in CashEntry /\ old \in Seq(Amounts) /\ entry[c].amount \in 0 .. MaxAmount
      /\ n \in 1 .. MaxSettlements
  BY <1>0, <1>1, <1>a DEF EntryOK, CashEntry
<1>4. entry'[c] = row
  BY <1>1 DEF SpendingMatch
<1>5. /\ Append(old, a) \in Seq(Amounts) /\ Len(Append(old, a)) = n /\ Append(old, a)[n] = a
      /\ \A i \in 1 .. Len(old) : Append(old, a)[i] = old[i]
  BY <1>3, <1>a, AppendProperties
<1>6. /\ row \in CashEntry /\ row.amount = entry[c].amount /\ row.voided = FALSE
      /\ row.settled = Append(old, a)
  <2> DEFINE longer == Append(old, a)
  <2>1. row = [entry[c] EXCEPT !.settled = longer] /\ longer \in Seq(Amounts)
    BY <1>5
  <2> HIDE DEF longer, row
  <2>2. row \in CashEntry /\ row.amount = entry[c].amount /\ row.voided = entry[c].voided
        /\ row.settled = longer
    BY <1>3, <2>1 DEF CashEntry
  <2>3. entry[c].voided \in BOOLEAN
    BY <1>3 DEF CashEntry
  <2>4. entry[c].voided = FALSE
    BY <1>1, <2>3
  <2> QED
    BY <2>2, <2>4 DEF longer
<1>7. /\ entry'[c] \in CashEntry /\ entry'[c].amount = entry[c].amount /\ entry'[c].voided = FALSE
      /\ entry'[c].settled \in Seq(Amounts) /\ Len(entry'[c].settled) = n
      /\ entry'[c].settled[n] = a /\ \A i \in 1 .. n - 1 : entry'[c].settled[i] = old[i]
  <2>1. Len(old) = n - 1
    BY <1>3, <1>a
  <2> HIDE DEF row
  <2>2. entry'[c].settled = Append(old, a)
    BY <1>4, <1>6
  <2> HIDE DEF old
  <2> QED
    BY <1>4, <1>5, <1>6, <2>1, <2>2
<1> HIDE DEF row
<1>8. key \in EntryKeys(c) /\ key \in Sources /\ ~Journaled(key)
  <2>1. key \in EntryKeys(c)
    BY <1>3, KeysOfEntry
  <2>2. ~(n <= Len(old))
    BY <1>3, <1>a
  <2>3. ~Journaled(key)
    BY <1>0, <1>3, <2>2 DEF EntryOK
  <2> QED
    BY <2>1, <2>3, KeysAreSources
<1> DEFINE entries == Journal(key, a, m)
<1>9. /\ DOMAIN entries = {key} /\ entries[key] = Entry(a, m) /\ NewJournals(entries) /\ Posts(entries)
  <2>1. Posts(entries)
    BY <1>1
  <2> HIDE DEF key
  <2>2. DOMAIN entries = {key} /\ entries[key] = Entry(a, m) /\ NewJournals(entries)
    BY JournalFacts
  <2> QED
    BY <2>1, <2>2
<1> HIDE DEF entries
<1>10. ASSUME NEW s \in Sources, s # key PROVE Carried(s)
  BY <1>9, <1>10, PostsCarries
<1>11. /\ \A e \in Expenses : Carried(ExpenseKey(e))
       /\ \A d \in Entries \ {c} : \A s \in EntryKeys(d) : Carried(s)
       /\ Carried(EntryKey(c))
       /\ \A i \in 1 .. MaxSettlements : i # n => Carried(SettlementKey(c, i))
  <2>1. \A e \in Expenses : ExpenseKey(e) \in Sources /\ ExpenseKey(e) # key
    BY KeysAreSources DEF ExpenseKey, SettlementKey
  <2>2. \A d \in Entries \ {c} : \A s \in EntryKeys(d) : s \in Sources /\ s # key
    BY KeysAreSources DEF EntryKeys, SettlementKey
  <2>3. EntryKey(c) \in Sources /\ EntryKey(c) # key
    <3>1. EntryKey(c) \in EntryKeys(c)
      BY KeysOfEntry
    <3> QED
      BY <1>3, <3>1, KeysAreSources DEF EntryKey, SettlementKey
  <2>4. \A i \in 1 .. MaxSettlements : SettlementKey(c, i) \in Sources
    BY KeysOfEntry, KeysAreSources
  <2>5. \A i \in 1 .. MaxSettlements : i # n => SettlementKey(c, i) # key
    BY DEF SettlementKey
  <2> HIDE DEF key
  <2> QED
    BY <1>10, <2>1, <2>2, <2>3, <2>4, <2>5
<1>12. Journaled(key)' /\ book'[key].amount = a
  <2> HIDE DEF key
  <2>1. Journaled(key)' /\ book'[key] = entries[key]
    BY <1>8, <1>9, PostsEffect
  <2> QED
    BY <1>9, <2>1, EntryFacts
<1>13. ASSUME NEW i \in 1 .. MaxSettlements
       PROVE  /\ Journaled(SettlementKey(c, i))' <=> i <= Len(entry'[c].settled)
              /\ Journaled(SettlementKey(c, i))' => book'[SettlementKey(c, i)].amount = entry'[c].settled[i]
  <2>1. CASE i = n
    <3>1. SettlementKey(c, i) = key /\ i <= Len(entry'[c].settled) /\ entry'[c].settled[i] = a
      BY <1>3, <1>7, <2>1
    <3> HIDE DEF key
    <3> QED
      BY <1>12, <3>1
  <2>2. CASE i # n
    <3>1. Carried(SettlementKey(c, i))
      BY <1>11, <2>2
    <3>2. /\ Journaled(SettlementKey(c, i)) <=> i <= Len(old)
          /\ Journaled(SettlementKey(c, i)) => book[SettlementKey(c, i)].amount = old[i]
      BY <1>0 DEF EntryOK
    <3>3. i <= Len(old) <=> i <= Len(entry'[c].settled)
      BY <1>3, <1>7, <1>a, <2>2
    <3>4. i <= Len(old) => entry'[c].settled[i] = old[i]
      BY <1>3, <1>7, <1>a
    <3> QED
      BY <3>1, <3>2, <3>3, <3>4 DEF Carried
  <2> QED
    BY <2>1, <2>2
<1>14. Settled(c)' = Settled(c) + a
  <2> DEFINE S == 1 .. MaxSettlements
             f == [i \in S |-> Settlement(c, i)']
             g == [i \in S |-> Settlement(c, i)]
  <2>1. ASSUME NEW i \in S
        PROVE  /\ Settlement(c, i) \in 0 .. MaxAmount
               /\ Settlement(c, i)' = Settlement(c, i) + (IF i = n THEN a ELSE 0)
               /\ Settlement(c, i)' \in 0 .. MaxAmount
    <3>1. Settlement(c, i) \in 0 .. MaxAmount
      BY <1>0, SettlementFacts
    <3>2. CASE i = n
      <4>1. Settlement(c, i) = 0 /\ Settlement(c, i)' = a
        BY <1>3, <1>7, <1>a, <3>2 DEF Settlement
      <4> QED
        BY <1>2, <3>1, <3>2, <4>1
    <3>3. CASE i # n
      <4>1. Settlement(c, i)' = Settlement(c, i)
        BY <1>3, <1>7, <1>a, <3>3 DEF Settlement
      <4> QED
        BY <3>1, <3>3, <4>1
    <3> QED
      BY <3>2, <3>3, <3>1
  <2>2. /\ f \in [S -> 0 .. MaxAmount] /\ g \in [S -> 0 .. MaxAmount]
        /\ Settled(c)' = Total(f, MaxAmount) /\ Settled(c) = Total(g, MaxAmount)
        /\ IsFiniteSet(S) /\ n \in S
    <3>1. Settled(c)' = Total(f, MaxAmount) /\ Settled(c) = Total(g, MaxAmount)
      BY DEF Settled
    <3>2. IsFiniteSet(S) /\ n \in S
      <4>1. IsFiniteSet(S)
        BY <1>0, SettlementFacts
      <4>2. n \in S
        BY <1>3
      <4> QED
        BY <4>1, <4>2, Zenon
    <3>3. f \in [S -> 0 .. MaxAmount] /\ g \in [S -> 0 .. MaxAmount]
      BY <2>1
    <3> QED
      BY <3>1, <3>2, <3>3
  <2>3. RowMore(S, f, g, n, a)
    BY <2>1 DEF RowMore
  <2> HIDE DEF f, g, S
  <2>4. Total(f, MaxAmount) = Total(g, MaxAmount) + a
    BY <1>2, <2>2, <2>3, TotalRowMore
  <2> QED
    BY <2>2, <2>4
<1>15. Settled(c)' <= entry'[c].amount /\ entry'[c].amount > 0
  <2>1. Settled(c) \in Nat
    BY <1>0, SettlementFacts
  <2> QED
    BY <1>1, <1>2, <1>3, <1>7, <1>14, <2>1 DEF Due
<1>16. /\ Journaled(EntryKey(c))' <=> entry'[c].amount > 0
       /\ Journaled(EntryKey(c))' => book'[EntryKey(c)].amount = entry'[c].amount
  BY <1>0, <1>7, <1>11 DEF EntryOK, Carried
<1>17. EntryOK(c)'
  <2>1. Len(entry'[c].settled) <= MaxSettlements /\ ~entry'[c].voided /\ entry'[c].amount # 0
    BY <1>1, <1>3, <1>7, <1>15
  <2> HIDE DEF old
  <2> QED
    BY <1>7, <1>13, <1>15, <1>16, <2>1 DEF EntryOK
<1> HIDE DEF old, key
<1> QED
  BY <1>1, <1>11, <1>17, OneEntry

\* A voided entry, whose journals that were POSTED are reversed.
LEMMA VoidMatches ==
    ASSUME ChainsInv, SpendingMatch, NEW c \in Entries, NEW m \in Months, VoidCashbookEntry(c, m)
    PROVE  SpendingMatch'
<1> DEFINE row == [entry[c] EXCEPT !.voided = TRUE]
           standing == {s \in EntryKeys(c) : Standing(s)}
<1>0. EntryOK(c) /\ entry[c] \in CashEntry
  BY DEF SpendingMatch, EntryOK
<1>1. /\ entry[c] # NoEntry /\ entry' = [entry EXCEPT ![c] = row] /\ UNCHANGED expense
      /\ IF standing = {} THEN UNCHANGED ledgerVars ELSE Reverses(standing, m)
  BY DEF VoidCashbookEntry
<1>2. /\ row \in CashEntry /\ row.amount = entry[c].amount /\ row.settled = entry[c].settled
      /\ row.voided = TRUE
  BY <1>0 DEF CashEntry
<1>3. entry'[c] = row
  BY <1>1 DEF SpendingMatch
<1> HIDE DEF row
<1>4. \A s \in standing : Journaled(s)
  BY DEF Standing, Journaled
<1>5. /\ \A s \in Sources : Carried(s)
      /\ \A s \in EntryKeys(c) : ~Standing(s)'
  <2>1. CASE standing = {}
    <3>1. UNCHANGED book /\ \A s \in EntryKeys(c) : ~Standing(s)
      BY <1>1, <2>1 DEF ledgerVars
    <3> QED
      BY <3>1 DEF Carried, Journaled, Standing, Length
  <2>2. CASE standing # {}
    <3>1. Reverses(standing, m)
      BY <1>1, <2>2
    <3>2. \A s \in EntryKeys(c) : s \in Sources /\ (s \in standing \/ ~Standing(s))
      BY KeysAreSources
    <3> HIDE DEF standing
    <3>3. \A s \in Sources : Carried(s) /\ (s \in standing => ~Standing(s)')
      BY <1>4, <3>1, ReversesCarries
    <3> QED
      BY <3>2, <3>3 DEF Carried
  <2> QED
    BY <2>1, <2>2
<1>6. /\ \A e \in Expenses : Carried(ExpenseKey(e))
      /\ \A d \in Entries : \A s \in EntryKeys(d) : Carried(s)
  BY <1>5, KeysAreSources
<1>7. Settled(c)' = Settled(c)
  BY <1>2, <1>3 DEF Settled, Settlement
<1>8. Carried(EntryKey(c)) /\ \A i \in 1 .. MaxSettlements : Carried(SettlementKey(c, i))
  BY <1>6, KeysOfEntry
<1>9. /\ Journaled(EntryKey(c))' <=> entry'[c].amount > 0
      /\ Journaled(EntryKey(c))' => book'[EntryKey(c)].amount = entry'[c].amount
  BY <1>0, <1>2, <1>3, <1>8 DEF EntryOK, Carried
<1>10. \A i \in 1 .. MaxSettlements :
          /\ Journaled(SettlementKey(c, i))' <=> i <= Len(entry'[c].settled)
          /\ Journaled(SettlementKey(c, i))' => book'[SettlementKey(c, i)].amount = entry'[c].settled[i]
  BY <1>0, <1>2, <1>3, <1>8 DEF EntryOK, Carried
<1>11. /\ entry'[c] \in CashEntry /\ Len(entry'[c].settled) <= MaxSettlements
       /\ Settled(c)' <= entry'[c].amount /\ entry'[c].amount # 0
  BY <1>0, <1>1, <1>2, <1>3, <1>7 DEF EntryOK
<1>12. EntryOK(c)'
  BY <1>5, <1>9, <1>10, <1>11 DEF EntryOK
<1> QED
  BY <1>1, <1>6, <1>12, OneEntry

LEMMA CashbookNextMatch ==
    ASSUME ChainsInv, SpendingMatch, CashbookNext
    PROVE  SpendingMatch'
BY RegisterMatches, SettleMatches, VoidMatches DEF CashbookNext

\* What the pages of expenses and the cashbook say follows.
LEMMA MatchIsSpending ==
    ASSUME ChainsInv, SpendingMatch
    PROVE  ExpensesMatchBooks
<1> USE ExpenseAssumption
<1>1. \A e \in Expenses : PaidMatchesJournal(e)
  BY DEF SpendingMatch, ExpenseOK
<1>2. \A s \in Sources : Length(s) \in Nat
  BY DEF ChainsInv, Chain, Length
<1>3. ASSUME NEW c \in Entries
      PROVE  /\ Settled(c) \in Nat /\ entry[c].amount \in Nat /\ Settled(c) <= entry[c].amount
             /\ \A s \in EntryKeys(c) : Length(s) \in Nat
             /\ \A i \in 1 .. MaxSettlements : SettlementKey(c, i) \in EntryKeys(c)
             /\ EntryKey(c) \in EntryKeys(c)
  <2>1. EntryOK(c)
    BY DEF SpendingMatch
  <2>2. Settled(c) \in Nat /\ entry[c].amount \in Nat
    BY <2>1, SettlementFacts
  <2>3. Settled(c) <= entry[c].amount
    BY <2>1 DEF EntryOK
  <2> QED
    BY <1>2, <2>2, <2>3, KeysOfEntry, KeysAreSources
\* No journal of the entry is reversed: the books hold what the entry says.
<1>4. ASSUME NEW c \in Entries, ~entry[c].voided, \A s \in EntryKeys(c) : Length(s) <= 1
      PROVE  Cash(c) = Settled(c) /\ Owed(c) = Due(c) /\ Due(c) >= 0
  <2>1. EntryOK(c)
    BY DEF SpendingMatch
  <2>2. ASSUME NEW i \in 1 .. MaxSettlements PROVE Net(SettlementKey(c, i)) = Settlement(c, i)
    <3>1. Length(SettlementKey(c, i)) \in {0, 1}
      BY <1>3, <1>4
    <3>2. /\ Journaled(SettlementKey(c, i)) <=> i <= Len(entry[c].settled)
          /\ Journaled(SettlementKey(c, i)) => book[SettlementKey(c, i)].amount = entry[c].settled[i]
      BY <2>1 DEF EntryOK
    <3> QED
      BY <3>1, <3>2 DEF Net, Settlement, Journaled
  <2>3. Cash(c) = Settled(c)
    BY <2>2 DEF Cash, Settled
  <2>4. Net(EntryKey(c)) = entry[c].amount
    <3>1. Length(EntryKey(c)) \in {0, 1}
      BY <1>3, <1>4
    <3>2. /\ Journaled(EntryKey(c)) <=> entry[c].amount > 0
          /\ Journaled(EntryKey(c)) => book[EntryKey(c)].amount = entry[c].amount
      BY <2>1 DEF EntryOK
    <3> QED
      BY <1>3, <3>1, <3>2 DEF Net, Journaled
  <2>5. Due(c) >= 0
    BY <1>3 DEF Due
  <2> QED
    BY <2>3, <2>4, <2>5 DEF Owed, Due
\* Every journal of a voided entry is reversed, once if none was reversed again.
<1>5. ASSUME NEW c \in Entries, entry[c].voided, \A s \in EntryKeys(c) : Length(s) <= 2
      PROVE  Cash(c) = 0 /\ Owed(c) = 0
  <2>1. EntryOK(c)
    BY DEF SpendingMatch
  <2>2. ASSUME NEW s \in EntryKeys(c) PROVE Net(s) = 0
    <3>1. Length(s) # 1
      BY <1>5, <2>1 DEF EntryOK, Standing
    <3>2. Length(s) \in {0, 2}
      BY <1>3, <1>5, <3>1
    <3> QED
      BY <3>2 DEF Net
  <2>3. [i \in 1 .. MaxSettlements |-> Net(SettlementKey(c, i))] = [i \in 1 .. MaxSettlements |-> 0]
    BY <1>3, <2>2
  <2>4. Total([i \in 1 .. MaxSettlements |-> 0], MaxAmount) = 0
    BY TotalZero
  <2>5. Cash(c) = 0 /\ Net(EntryKey(c)) = 0
    BY <1>3, <2>2, <2>3, <2>4 DEF Cash
  <2> QED
    BY <2>5 DEF Owed
<1>6. \A c \in Entries : DueMatchesBooks(c)
  BY <1>4, <1>5 DEF DueMatchesBooks
<1>7. ASSUME \A e \in Expenses : Length(ExpenseKey(e)) <= IF expense[e].status = "voided" THEN 2 ELSE 1
      PROVE  PaidAmount = SumFunction([e \in Expenses |-> Net(ExpenseKey(e))])
  <2>1. ASSUME NEW e \in Expenses
        PROVE  (IF expense[e].status = "paid" THEN expense[e].amount ELSE 0) = Net(ExpenseKey(e))
    <3>1. Length(ExpenseKey(e)) \in Nat
      BY <1>2, KeysAreSources
    <3>2. CASE expense[e].status = "voided"
      <4>1. Length(ExpenseKey(e)) <= 2 /\ ~Standing(ExpenseKey(e))
        BY <1>1, <1>7, <3>2 DEF PaidMatchesJournal
      <4>2. Length(ExpenseKey(e)) \in {0, 2}
        BY <3>1, <4>1 DEF Standing
      <4> QED
        BY <3>2, <4>2 DEF Net
    <3>3. CASE expense[e].status # "voided"
      <4>1. Length(ExpenseKey(e)) \in {0, 1}
        BY <1>7, <3>1, <3>3
      <4>2. /\ Journaled(ExpenseKey(e)) <=> expense[e].status = "paid"
            /\ Journaled(ExpenseKey(e)) => book[ExpenseKey(e)].amount = expense[e].amount
        BY <1>1, <3>3 DEF PaidMatchesJournal
      <4> QED
        BY <4>1, <4>2 DEF Net, Journaled
    <3> QED
      BY <3>2, <3>3
  <2> QED
    BY <2>1 DEF PaidAmount
<1>8. ASSUME \A c \in Entries : \A s \in EntryKeys(c) : Length(s) <= IF entry[c].voided THEN 2 ELSE 1
      PROVE  /\ DueAmount = SumFunction([c \in Entries |-> Owed(c)])
             /\ PaidOrReceived = SumFunction([c \in Entries |-> Cash(c)])
  <2>1. ASSUME NEW c \in Entries
        PROVE  IfActive(c, Due(c)) = Owed(c) /\ IfActive(c, Settled(c)) = Cash(c)
    <3>1. CASE entry[c].voided
      BY <1>5, <1>8, <3>1 DEF IfActive
    <3>2. CASE ~entry[c].voided
      BY <1>4, <1>8, <3>2 DEF IfActive
    <3> QED
      BY <3>1, <3>2
  <2> QED
    BY <2>1 DEF DueAmount, PaidOrReceived
<1> QED
  BY <1>1, <1>6, <1>7, <1>8 DEF ExpensesMatchBooks

-----------------------------------------------------------------------------
(* The pages and the books *)

DocumentInv == BookInv /\ SaleMatch /\ SpendingMatch

LEMMA DocumentsStart == BookInit => DocumentInv
<1> SUFFICES ASSUME BookInit PROVE DocumentInv
  OBVIOUS
<1>1. /\ book = [s \in Sources |-> NoJournal] /\ completed = {}
      /\ receipt = [p \in Receipts |-> NoReceipt] /\ returned = [r \in Returns |-> NotReturned]
      /\ expense = [e \in Expenses |-> NoExpense] /\ entry = [c \in Entries |-> NoEntry]
  BY DEF BookInit, LedgerInit, SaleInit, ExpenseInit
<1>2. Chain(NoJournal) /\ NoJournal.months = <<>>
  BY DEF Chain, NoJournal
<1>3. BookInv
  BY <1>1, <1>2 DEF BookInv, ChainsInv, ReceiptInv
<1>4. \A s \in Sources : ~Journaled(s) /\ ~Standing(s)
  <2>1. Len(<<>>) = 0
    OBVIOUS
  <2>2. \A s \in Sources : Length(s) = 0
    BY <1>1, <1>2, <2>1 DEF Length
  <2> QED
    BY <2>2 DEF Journaled, Standing
<1>5. BookedRevenues = {} /\ BookedCaptures = {} /\ BookedReverts = {} /\ BookedCredits = {}
  BY <1>4, KeysAreSources DEF BookedRevenues, BookedCaptures, BookedReverts, BookedCredits
<1>6. SaleMatch
  BY <1>1, <1>5 DEF SaleMatch, NoReceipt, NotReturned
<1>7. ASSUME NEW e \in Expenses PROVE ExpenseOK(e)
  <2>1. expense[e] = NoExpense /\ ~Journaled(ExpenseKey(e))
    BY <1>1, <1>4, KeysAreSources
  <2> QED
    BY <2>1 DEF ExpenseOK, PaidMatchesJournal, NoExpense, Expense
<1>8. ASSUME NEW c \in Entries PROVE EntryOK(c)
  <2>1. entry[c] = NoEntry
    BY <1>1
  <2>2. /\ entry[c].amount = 0 /\ entry[c].settled = <<>> /\ ~entry[c].voided
        /\ <<>> \in Seq(Amounts) /\ Len(<<>>) = 0
    BY <2>1 DEF NoEntry
  <2>3. entry[c] \in CashEntry
    BY <2>1, ExpenseAssumption DEF NoEntry, CashEntry
  <2>4. \A i \in 1 .. MaxSettlements : Settlement(c, i) = 0
    BY <2>2 DEF Settlement
  <2>5. [i \in 1 .. MaxSettlements |-> Settlement(c, i)] = [i \in 1 .. MaxSettlements |-> 0]
    BY <2>4
  <2>6. Settled(c) = 0
    BY <2>5, TotalZero, ExpenseAssumption DEF Settled
  <2>7. ~Journaled(EntryKey(c)) /\ \A i \in 1 .. MaxSettlements : ~Journaled(SettlementKey(c, i))
    BY <1>4, KeysOfEntry, KeysAreSources
  <2>8. Len(entry[c].settled) = 0 /\ Len(entry[c].settled) <= MaxSettlements
    BY <2>2, ExpenseAssumption
  <2>9. Settled(c) <= entry[c].amount
    BY <2>2, <2>6
  <2> QED
    BY <2>1, <2>2, <2>3, <2>7, <2>8, <2>9 DEF EntryOK
<1> QED
  BY <1>1, <1>3, <1>6, <1>7, <1>8 DEF DocumentInv, SpendingMatch

\* A step that books no sale and leaves the sales alone.
LEMMA SalesSpared ==
    ASSUME SaleMatch, SameBooked, UNCHANGED saleVars
    PROVE  SaleMatch'
BY DEF SaleMatch, SameBooked, saleVars

\* A step that books no spending and leaves expenses and the cashbook alone.
LEMMA SpendingSpared ==
    ASSUME ChainsInv, SpendingMatch, UNCHANGED expenseVars,
           PostsNoSpending \/ PostsOthers \/ ReversesSome \/ TurnsPeriod \/ UNCHANGED ledgerVars
    PROVE  SpendingMatch'
<1>1. /\ \A e \in Expenses : Carried(ExpenseKey(e))
      /\ \A c \in Entries : \A s \in EntryKeys(c) : Carried(s)
  BY OthersCarry
<1>2. UNCHANGED <<expense, entry>>
  BY DEF expenseVars
<1>3. \A e \in Expenses : ExpenseOK(e)'
  BY <1>1, <1>2, ExpenseCarried DEF SpendingMatch
<1>4. \A c \in Entries : EntryOK(c)'
  BY <1>1, <1>2, EntryCarried DEF SpendingMatch
<1> QED
  BY <1>2, <1>3, <1>4 DEF SpendingMatch

LEMMA DocumentsStep == DocumentInv /\ [BookNext /\ InBounds']_bookVars => DocumentInv'
<1> SUFFICES ASSUME DocumentInv, [BookNext /\ InBounds']_bookVars PROVE DocumentInv'
  OBVIOUS
<1>0. ChainsInv /\ ReceiptInv /\ SaleMatch /\ SpendingMatch
  BY DEF DocumentInv, BookInv
<1>1. ReceiptInv' /\ ChainsInv'
  BY <1>0, LedgerSteps, ClosedStaySettled
<1>2. CASE (ExpenseNext \/ CashbookNext) /\ UNCHANGED <<goodsVars, saleVars>>
  <2>1. SaleMatch'
    BY <1>0, <1>2, ExpenseSteps, OthersSpareSales, SalesSpared
  <2>2. SpendingMatch'
    BY <1>0, <1>2, ExpenseNextMatch, CashbookNextMatch
  <2> QED
    BY <1>1, <2>1, <2>2 DEF DocumentInv, BookInv
<1>3. CASE GoodsNext /\ UNCHANGED <<expenseVars, saleVars>>
  <2>1. SaleMatch' /\ SpendingMatch'
    BY <1>0, <1>3, GoodsSteps, OthersSpareSales, SalesSpared, SpendingSpared
  <2> QED
    BY <1>1, <2>1 DEF DocumentInv, BookInv
<1>4. CASE SaleNext /\ UNCHANGED expenseVars
  <2>1. SaleMatch'
    BY <1>0, <1>4, SaleNextMatch
  <2>2. SpendingMatch'
    BY <1>0, <1>4, SaleSteps, SpendingSpared
  <2> QED
    BY <1>1, <2>1, <2>2 DEF DocumentInv, BookInv
<1>5. CASE LedgerNext /\ UNCHANGED <<expenseVars, goodsVars, saleVars>>
  <2>1. SaleMatch' /\ SpendingMatch'
    BY <1>0, <1>5, LedgerPages, OthersSpareSales, SalesSpared, SpendingSpared
  <2> QED
    BY <1>1, <2>1 DEF DocumentInv, BookInv
<1>6. CASE UNCHANGED bookVars
  <2>1. UNCHANGED ledgerVars /\ UNCHANGED saleVars /\ UNCHANGED expenseVars
    BY <1>6 DEF bookVars, ledgerVars, saleVars, expenseVars
  <2>2. SaleMatch' /\ SpendingMatch'
    BY <1>0, <2>1, OthersSpareSales, SalesSpared, SpendingSpared
  <2> QED
    BY <1>1, <2>2 DEF DocumentInv, BookInv
<1> QED
  BY <1>2, <1>3, <1>4, <1>5, <1>6 DEF BookNext

\* The receivers of accounting/signals.py and the services of expenses/services.py, for
\* any number of orders, payments, returns, expenses, entries and reversals by hand:
\* every row has the journals it calls for, once, and the reports that read the rows
\* say what the ledger says.
THEOREM BooksAgree == BookSpec => []BooksMatchDocuments
<1>1. DocumentInv => BooksMatchDocuments
  BY MatchIsSales, MatchIsSpending DEF DocumentInv, BookInv, BooksMatchDocuments
<1> QED
  BY <1>1, DocumentsStart, DocumentsStep, PTL DEF BookSpec

-----------------------------------------------------------------------------
(* What the journals say *)

\* Journals of amounts in which revenue is that of an order, in full, and those
\* typed in by hand are of no document.
Stated(entries) ==
    \A s \in DOMAIN entries :
        /\ entries[s].amount \in Int
        /\ s[1] = "revenue" => \E o \in Orders : s = RevenueKey(o) /\ entries[s].amount = GrandTotal(o)
        /\ s[1] = "manual" => s \in Manuals

\* Neither revenue nor typed in by hand.
Ordinary(s) == s[1] # "revenue" /\ s[1] # "manual"

LEMMA StatedFacts ==
    ASSUME NEW s, NEW a, NEW m
    PROVE  /\ Stated(<<>>)
           /\ Ordinary(s) /\ a \in Int => Stated(Journal(s, a, m))
           /\ Ordinary(s) /\ a \in Int => Stated(Worth(s, a, m))
           /\ \A f, g : Stated(f) /\ Stated(g) => Stated(f ++ g)
<1>1. Stated(<<>>)
  <2>1. DOMAIN <<>> = {}
    OBVIOUS
  <2> QED
    BY <2>1 DEF Stated
<1>2. Entry(a, m).amount = a
  BY DEF Entry
<1>3. ASSUME Ordinary(s), a \in Int PROVE Stated(Journal(s, a, m))
  <2>1. DOMAIN Journal(s, a, m) = {s} /\ Journal(s, a, m)[s].amount = a
    BY <1>2, JournalFacts
  <2> QED
    BY <1>3, <2>1 DEF Stated, Ordinary
<1>4. ASSUME Ordinary(s), a \in Int PROVE Stated(Worth(s, a, m))
  <2>1. CASE a > 0
    <3>1. Worth(s, a, m) = Journal(s, a, m) /\ a \in Nat
      BY <1>4, <2>1 DEF Worth
    <3> QED
      BY <1>3, <1>4, <3>1
  <2>2. CASE ~(a > 0)
    <3>1. Worth(s, a, m) = <<>>
      BY <2>2 DEF Worth
    <3> QED
      BY <1>1, <3>1
  <2> QED
    BY <2>1, <2>2
<1>5. ASSUME NEW f, NEW g, Stated(f), Stated(g) PROVE Stated(f ++ g)
  <2>1. /\ DOMAIN (f ++ g) = DOMAIN f \cup DOMAIN g
        /\ \A k \in DOMAIN f : (f ++ g)[k] = f[k]
        /\ \A k \in DOMAIN g \ DOMAIN f : (f ++ g)[k] = g[k]
    BY TogetherFacts
  <2> QED
    BY <1>5, <2>1 DEF Stated
<1> QED
  BY <1>1, <1>3, <1>4, <1>5

\* Goods that went back were of some number.
GoodsInv == sentBack \in [Lots -> [quantity : Nat, month : Months \cup {0}]]

LEMMA OrdinaryKeys ==
    /\ \A e : Ordinary(ExpenseKey(e))
    /\ \A c, i : Ordinary(<<"entry", c, i>>)
    /\ \A d : Ordinary(ArrivalKey(d)) /\ Ordinary(SendBackKey(d))
    /\ \A o : Ordinary(CostKey(o))
    /\ \A p : Ordinary(ReceiptKey(p)) /\ Ordinary(ReversalKey(p))
    /\ \A r : Ordinary(CreditKey(r)) /\ Ordinary(RestockKey(r))
BY DEF Ordinary, ExpenseKey, ArrivalKey, SendBackKey, CostKey, ReceiptKey, ReversalKey, CreditKey, RestockKey

\* A sum over a table, by its rows.
LEMMA SumIs ==
    ASSUME NEW S, IsFiniteSet(S), NEW f, DOMAIN f = S, \A s \in S : f[s] \in Int
    PROVE  Sum(f) = SumOver(f, S) /\ Sum(f) \in Int
BY SumInt DEF Sum

\* A cost is a whole number.
LEMMA CostInt ==
    ASSUME GoodsInv, NEW m
    PROVE  WeightedCost(m) \in Int
<1> USE CostingAssumption
<1>1. IsFiniteSet(ArrivedBy(m)) /\ IsFiniteSet(SentBackBy(m))
  BY FS_Subset DEF ArrivedBy, SentBackBy
<1> DEFINE in == [d \in ArrivedBy(m) |-> LotQuantity[d]]
           out == [d \in SentBackBy(m) |-> sentBack[d].quantity]
           worth == [d \in ArrivedBy(m) |-> LotQuantity[d] * LotCost[d]]
           back == [d \in SentBackBy(m) |-> sentBack[d].quantity * LotCost[d]]
           quantity == Sum(in) - Sum(out)
           value == Sum(worth) - Sum(back)
<1>2. \A d \in ArrivedBy(m) : in[d] \in Int /\ worth[d] \in Int
  BY DEF ArrivedBy
<1>3. \A d \in SentBackBy(m) : out[d] \in Int /\ back[d] \in Int
  BY DEF SentBackBy, GoodsInv
<1>4. /\ DOMAIN in = ArrivedBy(m) /\ DOMAIN worth = ArrivedBy(m)
      /\ DOMAIN out = SentBackBy(m) /\ DOMAIN back = SentBackBy(m)
  OBVIOUS
<1>5. WeightedCost(m) = IF quantity <= 0 \/ value <= 0 THEN 0 ELSE Rounded(value, quantity)
  BY DEF WeightedCost
<1> HIDE DEF in, out, worth, back
<1>6. Sum(in) \in Int /\ Sum(worth) \in Int /\ Sum(out) \in Int /\ Sum(back) \in Int
  BY <1>1, <1>2, <1>3, <1>4, SumIs
<1>7. quantity \in Int /\ value \in Int
  BY <1>6
<1> HIDE DEF quantity, value
<1>8. CASE quantity <= 0 \/ value <= 0
  BY <1>5, <1>8
<1>9. CASE ~(quantity <= 0 \/ value <= 0)
  <2>1. 2 * quantity > 0 /\ 2 * quantity \in Int /\ 2 * value + quantity \in Int
    BY <1>7, <1>9
  <2>2. (2 * value + quantity) \div (2 * quantity) \in Int
    BY <2>1
  <2> QED
    BY <1>5, <1>9, <2>2 DEF Rounded
<1> QED
  BY <1>8, <1>9

LEMMA TotalIsNat ==
    ASSUME NEW o \in Orders
    PROVE  GrandTotal(o) \in Nat /\ ProductRevenue(o) \in Nat /\ Terms[o].units \in Nat /\ Terms[o].shipping \in Nat
BY SalesLedgerAssumption DEF GrandTotal, ProductRevenue, Positive

LEMMA RevenueStated ==
    ASSUME NEW o \in Orders, NEW s, s = RevenueKey(o), NEW a, a = GrandTotal(o), a \in Nat, NEW m
    PROVE  Stated(Worth(s, a, m))
<1>1. CASE a > 0
  <2>1. DOMAIN Worth(s, a, m) = {s}
    BY <1>1, WorthFacts
  <2>2. Worth(s, a, m)[s] = Entry(a, m)
    BY <1>1 DEF Worth, Journal
  <2>3. Entry(a, m).amount = a
    BY DEF Entry
  <2>4. s[1] = "revenue"
    BY DEF RevenueKey
  <2> QED
    BY <2>1, <2>2, <2>3, <2>4 DEF Stated
<1>2. CASE ~(a > 0)
  BY <1>2, WorthFacts DEF Stated
<1> QED
  BY <1>1, <1>2

\* What an order, a payment and a return book is stated.
LEMMA SalesStated ==
    ASSUME GoodsInv
    PROVE  /\ \A o \in Orders : Stated(OrderEntries(o)) /\ Stated(SaleEntries(o))
           /\ \A p \in Receipts, m \in Months :
                 /\ Stated(ReceiptEntries(p, m))
                 /\ Stated(Journal(ReversalKey(p), GrandTotal(OrderOf[p]), m))
           /\ \A r \in Returns, credit \in Nat, restocked \in Nat, m \in Months :
                 Stated(ReturnEntries(r, credit, restocked, m))
<1> USE SalesLedgerAssumption
<1>1. ASSUME NEW o \in Orders PROVE Stated(OrderEntries(o)) /\ Stated(SaleEntries(o))
  <2> DEFINE revenue == Worth(RevenueKey(o), GrandTotal(o), DateOf[o])
             cost == Worth(CostKey(o), OrderCost(o), DateOf[o])
  <2>1. Stated(revenue)
    <3>1. GrandTotal(o) \in Nat
      BY TotalIsNat
    <3> QED
      BY <3>1, RevenueStated
  <2>2. OrderCost(o) \in Int
    <3>1. WeightedCost(DateOf[o]) \in Int /\ Terms[o].units \in Nat
      BY CostInt, TotalIsNat
    <3> QED
      BY <3>1 DEF OrderCost
  <2>3. Stated(cost)
    BY <2>2, StatedFacts, OrdinaryKeys
  <2>4. OrderEntries(o) = revenue ++ cost
    BY DEF OrderEntries
  <2> HIDE DEF revenue, cost
  <2>5. Stated(OrderEntries(o))
    BY <2>1, <2>3, <2>4, StatedFacts
  <2> QED
    BY <2>5, StatedFacts DEF SaleEntries
<1>2. ASSUME NEW p \in Receipts, NEW m \in Months
      PROVE  Stated(ReceiptEntries(p, m)) /\ Stated(Journal(ReversalKey(p), GrandTotal(OrderOf[p]), m))
  <2>1. GrandTotal(OrderOf[p]) \in Nat
    BY TotalIsNat
  <2> QED
    BY <2>1, StatedFacts, OrdinaryKeys DEF ReceiptEntries
<1>3. ASSUME NEW r \in Returns, NEW credit \in Nat, NEW restocked \in Nat, NEW m \in Months
      PROVE  Stated(ReturnEntries(r, credit, restocked, m))
  <2>1. WeightedCost(DateOf[ReturnOf[r]]) \in Int
    BY CostInt
  <2>2. restocked * WeightedCost(DateOf[ReturnOf[r]]) \in Int
    BY <2>1
  <2>3. /\ Stated(Worth(CreditKey(r), credit, m))
        /\ Stated(Worth(RestockKey(r), restocked * WeightedCost(DateOf[ReturnOf[r]]), m))
    BY <2>2, StatedFacts, OrdinaryKeys
  <2> QED
    BY <2>3, StatedFacts DEF ReturnEntries
<1> QED
  BY <1>1, <1>2, <1>3

\* What the journal of a source says.
TrueOf(s) ==
    /\ s[1] = "revenue" => \E o \in Orders : s = RevenueKey(o) /\ book[s].amount = GrandTotal(o)
    /\ s[1] = "manual" => s \in Manuals

StatedBook == \A s \in Sources : book[s].amount \in Int /\ (Journaled(s) => TrueOf(s))

PostsStated == \E entries : NewJournals(entries) /\ Posts(entries) /\ Stated(entries)

LEMMA StatedStep ==
    ASSUME ChainsInv, StatedBook, PostsStated \/ ReversesSome \/ TurnsPeriod \/ UNCHANGED ledgerVars
    PROVE  StatedBook' /\ \A s \in Sources : Journaled(s) => book'[s].amount = book[s].amount
<1>1. ASSUME NEW entries, NewJournals(entries), Posts(entries), Stated(entries)
      PROVE  StatedBook' /\ \A s \in Sources : Journaled(s) => book'[s].amount = book[s].amount
  <2>1. /\ \A s \in Sources : Journaled(s)' <=> Journaled(s) \/ s \in DOMAIN entries
        /\ \A s \in Sources : Journaled(s) \/ s \notin DOMAIN entries => book'[s] = book[s]
        /\ \A s \in Sources : ~Journaled(s) /\ s \in DOMAIN entries => book'[s] = entries[s]
    BY <1>1, PostsEffect
  <2>2. ASSUME NEW s \in Sources PROVE book'[s].amount \in Int /\ (Journaled(s)' => TrueOf(s)')
    <3>1. CASE Journaled(s) \/ s \notin DOMAIN entries
      BY <2>1, <3>1 DEF StatedBook, TrueOf, GrandTotal
    <3>2. CASE ~Journaled(s) /\ s \in DOMAIN entries
      BY <1>1, <2>1, <3>2 DEF Stated, TrueOf, GrandTotal
    <3> QED
      BY <3>1, <3>2
  <2> QED
    BY <2>1, <2>2 DEF StatedBook
<1>2. ASSUME NEW keys, NEW m \in Months, \A s \in keys : Journaled(s), Reverses(keys, m)
      PROVE  StatedBook' /\ \A s \in Sources : Journaled(s) => book'[s].amount = book[s].amount
  <2>1. \A s \in Sources : Carried(s)
    BY <1>2, ReversesCarries
  <2> QED
    BY <2>1 DEF StatedBook, TrueOf, Carried, GrandTotal
<1>3. ASSUME UNCHANGED book
      PROVE  StatedBook' /\ \A s \in Sources : Journaled(s) => book'[s].amount = book[s].amount
  BY <1>3 DEF StatedBook, TrueOf, Journaled, Length, GrandTotal
<1> QED
  BY <1>1, <1>2, <1>3
     DEF PostsStated, ReversesSome, TurnsPeriod, ClosePeriod, ReopenPeriod, ledgerVars

\* Expenses and the cashbook book amounts.
LEMMA SpendingStated ==
    ASSUME SpendingMatch, ExpenseNext \/ CashbookNext
    PROVE  PostsStated \/ ReversesSome \/ UNCHANGED ledgerVars
<1> USE ExpenseAssumption
<1>1. ASSUME NEW e \in Expenses, NEW m \in Months, PayExpense(e, m) PROVE PostsStated
  <2>0. expense[e] \in Expense
    BY DEF SpendingMatch, ExpenseOK
  <2>1. expense[e].amount \in Int
    BY <2>0 DEF Expense
  <2>2. Stated(Journal(ExpenseKey(e), expense[e].amount, m))
    BY <2>1, StatedFacts, OrdinaryKeys
  <2>3. NewJournals(Journal(ExpenseKey(e), expense[e].amount, m))
    BY JournalFacts
  <2> QED
    BY <1>1, <2>2, <2>3 DEF PayExpense, PostsStated
<1>2. ASSUME NEW e \in Expenses, NEW m \in Months, VoidPaidExpense(e, m) PROVE ReversesSome
  BY <1>2 DEF VoidPaidExpense, ReversesSome, Standing, Journaled
<1>3. ASSUME NEW c \in Entries, NEW a \in Amounts, NEW first \in 0 .. a, NEW m \in Months,
             RegisterCashbookEntry(c, a, first, m)
      PROVE  PostsStated
  <2> DEFINE due == Journal(EntryKey(c), a, m)
             paid == IF first = 0 THEN <<>> ELSE Journal(SettlementKey(c, 1), first, m)
  <2>0. a \in Int /\ first \in Int
    BY DEF Amounts
  <2>1. NewJournals(due) /\ Stated(due)
    BY <2>0, JournalFacts, StatedFacts, OrdinaryKeys DEF EntryKey
  <2>2. NewJournals(paid) /\ Stated(paid)
    <3>1. NewJournals(<<>>) /\ Stated(<<>>)
      <4>1. DOMAIN <<>> = {}
        OBVIOUS
      <4> QED
        BY <4>1, StatedFacts DEF NewJournals
    <3>2. NewJournals(Journal(SettlementKey(c, 1), first, m)) /\ Stated(Journal(SettlementKey(c, 1), first, m))
      BY <2>0, JournalFacts, StatedFacts, OrdinaryKeys DEF SettlementKey
    <3> QED
      BY <3>1, <3>2
  <2>3. Posts(due ++ paid)
    BY <1>3 DEF RegisterCashbookEntry
  <2> HIDE DEF due, paid
  <2>4. NewJournals(due ++ paid)
    BY <2>1, <2>2, TogetherFacts
  <2>5. Stated(due ++ paid)
    BY <2>1, <2>2, StatedFacts
  <2> QED
    BY <2>3, <2>4, <2>5 DEF PostsStated
<1>4. ASSUME NEW c \in Entries, NEW a \in Amounts, NEW m \in Months, SettleCashbookEntry(c, a, m)
      PROVE  PostsStated
  <2> DEFINE i == Len(entry[c].settled) + 1
  <2>1. Posts(Journal(<<"entry", c, i>>, a, m))
    BY <1>4 DEF SettleCashbookEntry, SettlementKey
  <2>2. a \in Int
    BY DEF Amounts
  <2> HIDE DEF i
  <2>3. NewJournals(Journal(<<"entry", c, i>>, a, m)) /\ Stated(Journal(<<"entry", c, i>>, a, m))
    BY <2>2, JournalFacts, StatedFacts, OrdinaryKeys
  <2> QED
    BY <2>1, <2>3 DEF PostsStated
<1>5. ASSUME NEW c \in Entries, NEW m \in Months, VoidCashbookEntry(c, m)
      PROVE  ReversesSome \/ UNCHANGED ledgerVars
  BY <1>5 DEF VoidCashbookEntry, ReversesSome, Standing, Journaled
<1> QED
  BY <1>1, <1>2, <1>3, <1>4, <1>5
     DEF ExpenseNext, CashbookNext, RegisterExpense, UpdateDraftExpense, SubmitExpense, ApproveExpense,
         RejectExpense, CancelExpense, Moves

\* Goods and the pages of the ledger.
LEMMA GoodsStated ==
    ASSUME GoodsInv, GoodsNext
    PROVE  PostsStated /\ GoodsInv'
<1> USE CostingAssumption
<1>1. ASSUME NEW d \in Lots, NEW m \in Months, ReceiveLot(d, m) PROVE PostsStated /\ GoodsInv'
  <2>1. LotQuantity[d] * LotCost[d] \in Int
    OBVIOUS
  <2>2. Stated(Worth(ArrivalKey(d), LotQuantity[d] * LotCost[d], m))
    BY <2>1, StatedFacts, OrdinaryKeys
  <2>3. NewJournals(Worth(ArrivalKey(d), LotQuantity[d] * LotCost[d], m))
    BY WorthFacts
  <2> QED
    BY <1>1, <2>2, <2>3 DEF ReceiveLot, PostsStated, GoodsInv
<1>2. ASSUME NEW d \in Lots, NEW m \in Months, NEW n \in 1 .. LotQuantity[d], SendBack(d, n, m)
      PROVE  PostsStated /\ GoodsInv'
  <2>1. n \in Nat /\ n * LotCost[d] \in Int
    OBVIOUS
  <2>2. Stated(Worth(SendBackKey(d), n * LotCost[d], m))
    BY <2>1, StatedFacts, OrdinaryKeys
  <2>3. NewJournals(Worth(SendBackKey(d), n * LotCost[d], m))
    BY WorthFacts
  <2>4. [quantity |-> n, month |-> m] \in [quantity : Nat, month : Months \cup {0}]
    BY <2>1
  <2> QED
    BY <1>2, <2>2, <2>3, <2>4 DEF SendBack, PostsStated, GoodsInv
<1> QED
  BY <1>1, <1>2 DEF GoodsNext

LEMMA PagesStated ==
    ASSUME LedgerNext PROVE PostsStated \/ ReversesSome \/ TurnsPeriod
<1>1. ASSUME NEW s \in Manuals, NEW m \in Months, PostManual(s, 1, m) PROVE PostsStated
  <2> DEFINE typed == Journal(s, 1, m)
  <2>1. DOMAIN typed = {s} /\ NewJournals(typed)
    BY JournalFacts
  <2>6. typed[s] = Entry(1, m)
    BY DEF Journal
  <2>2. Entry(1, m).amount = 1
    BY DEF Entry
  <2>3. s[1] # "revenue"
    BY StatementsAssumption
  <2>4. Posts(typed)
    BY <1>1 DEF PostManual
  <2> HIDE DEF typed
  <2>5. Stated(typed)
    BY <2>1, <2>2, <2>3, <2>6 DEF Stated
  <2> QED
    BY <2>1, <2>4, <2>5 DEF PostsStated
<1>2. ASSUME NEW s \in Sources, NEW m \in Months, ReverseByHand(s, m) PROVE ReversesSome
  BY <1>2 DEF ReverseByHand, ReversesSome
<1> QED
  BY <1>1, <1>2 DEF LedgerNext, TurnsPeriod

\* Sales, payments and returns.
LEMMA SaleNextStated ==
    ASSUME GoodsInv, ReceiptInv, SaleNext
    PROVE  PostsStated \/ UNCHANGED ledgerVars
<1> USE SalesLedgerAssumption
<1>0. \A f, g : /\ NewJournals(f) /\ NewJournals(g) => NewJournals(f ++ g)
                /\ Stated(f) /\ Stated(g) => Stated(f ++ g)
  BY TogetherFacts, StatedFacts
<1>1. \A o \in Orders : /\ NewJournals(OrderEntries(o)) /\ Stated(OrderEntries(o))
                        /\ NewJournals(SaleEntries(o)) /\ Stated(SaleEntries(o))
  BY SaleJournals, SalesStated
<1>2. \A p \in Receipts, m \in Months :
         /\ NewJournals(ReceiptEntries(p, m)) /\ Stated(ReceiptEntries(p, m))
         /\ NewJournals(Journal(ReversalKey(p), GrandTotal(OrderOf[p]), m))
         /\ Stated(Journal(ReversalKey(p), GrandTotal(OrderOf[p]), m))
  BY SalesStated, SaleJournals, JournalFacts
<1>3. ASSUME NEW o \in Orders, CompleteSale(o) \/ SaveOrder(o) PROVE PostsStated
  BY <1>1, <1>3 DEF CompleteSale, SaveOrder, PostsStated
<1>4. ASSUME NEW p \in Receipts, NEW m \in Months, Posts(ReceiptEntries(p, m) ++ SaleEntries(OrderOf[p]))
      PROVE  PostsStated
  <2>1. NewJournals(ReceiptEntries(p, m) ++ SaleEntries(OrderOf[p]))
    BY <1>0, <1>1, <1>2
  <2>2. Stated(ReceiptEntries(p, m) ++ SaleEntries(OrderOf[p]))
    BY <1>0, <1>1, <1>2
  <2> QED
    BY <1>4, <2>1, <2>2 DEF PostsStated
<1>5. ASSUME NEW p \in Receipts, CompletePending(p) PROVE PostsStated
  <2>1. receipt[p].month \in Months
    BY <1>5, PaymentFacts DEF CompletePending
  <2> QED
    BY <1>4, <1>5, <2>1 DEF CompletePending
<1>6. ASSUME NEW p \in Receipts, ReconcilePayment(p) PROVE PostsStated
  <2>1. receipt[p].month \in Months
    BY <1>6, PaymentFacts DEF ReconcilePayment
  <2> QED
    BY <1>2, <1>6, <2>1 DEF ReconcilePayment, PostsStated
<1>7. ASSUME NEW p \in Receipts, NEW m \in Months, ReversePayment(p, m) PROVE PostsStated
  <2>1. receipt[p].month \in Months
    BY <1>7, PaymentFacts DEF ReversePayment
  <2> DEFINE first == Journal(ReversalKey(p), GrandTotal(OrderOf[p]), m)
             saved == ReceiptEntries(p, receipt[p].month)
             sale == SaleEntries(OrderOf[p])
  <2>2. Posts(first ++ saved ++ sale)
    BY <1>7 DEF ReversePayment
  <2>3. NewJournals(first) /\ NewJournals(saved) /\ NewJournals(sale)
    BY <1>1, <1>2, <2>1
  <2>4. Stated(first) /\ Stated(saved) /\ Stated(sale)
    BY <1>1, <1>2, <2>1
  <2> HIDE DEF first, saved, sale
  <2>5. NewJournals(first ++ saved) /\ Stated(first ++ saved)
    BY <1>0, <2>3, <2>4
  <2>6. NewJournals(first ++ saved ++ sale) /\ Stated(first ++ saved ++ sale)
    BY <1>0, <2>3, <2>4, <2>5
  <2> QED
    BY <2>2, <2>6 DEF PostsStated
<1>8. ASSUME NEW r \in Returns, NEW m \in Months, NEW credit \in 0 .. GrandTotal(ReturnOf[r]),
             NEW restocked \in 0 .. Terms[ReturnOf[r]].units, CompleteReturn(r, credit, restocked, m)
      PROVE  PostsStated
  <2>1. credit \in Nat /\ restocked \in Nat
    BY TotalIsNat
  <2>2. /\ NewJournals(ReturnEntries(r, credit, restocked, m))
        /\ Stated(ReturnEntries(r, credit, restocked, m))
    BY <2>1, ReturnJournals, SalesStated
  <2>3. /\ NewJournals(ReturnEntries(r, credit, restocked, m) ++ SaleEntries(ReturnOf[r]))
        /\ Stated(ReturnEntries(r, credit, restocked, m) ++ SaleEntries(ReturnOf[r]))
    BY <1>0, <1>1, <2>2
  <2> QED
    BY <1>8, <2>3 DEF CompleteReturn, PostsStated
<1> QED
  BY <1>3, <1>4, <1>5, <1>6, <1>7, <1>8 DEF SaleNext, CapturePending, CapturePayment, FailPending

ReturnRow == [credit : Nat, restocked : Nat, month : Months \cup {0}]

\* Completed orders could be booked, and their returns credit what the order says
\* and the journal said, never more than the total.
CreditInv ==
    /\ \A o \in completed : Balanced(o)
    /\ \A r \in Returns : returned[r] \in ReturnRow
    /\ \A r \in Returns : Journaled(CreditKey(r)) => book[CreditKey(r)].amount = returned[r].credit
    /\ \A o \in Orders : ReturnCredit(o) <= GrandTotal(o)

AmountInv == GoodsInv /\ StatedBook /\ CreditInv

LEMMA AmountsStart == BookInit => AmountInv
<1> SUFFICES ASSUME BookInit PROVE AmountInv
  OBVIOUS
<1>1. /\ book = [s \in Sources |-> NoJournal] /\ completed = {}
      /\ returned = [r \in Returns |-> NotReturned] /\ sentBack = [d \in Lots |-> Kept]
  BY DEF BookInit, LedgerInit, SaleInit, GoodsInit
<1>2. GoodsInv
  BY <1>1 DEF GoodsInv, Kept
<1>3. \A s \in Sources : ~Journaled(s) /\ book[s].amount = 0
  <2>1. Len(<<>>) = 0
    OBVIOUS
  <2> QED
    BY <1>1, <2>1 DEF Journaled, Length, NoJournal
<1>4. StatedBook
  BY <1>3 DEF StatedBook
<1>5. ASSUME NEW o \in Orders PROVE ReturnCredit(o) <= GrandTotal(o)
  <2> DEFINE f == [r \in ReturnsOf(o) |-> returned[r].credit]
  <2>1. ReturnsOf(o) = {}
    BY <1>1 DEF ReturnsOf
  <2>2. DOMAIN f = {}
    BY <2>1
  <2>3. ReturnCredit(o) = Sum(f)
    BY DEF ReturnCredit
  <2> HIDE DEF f
  <2>4. ReturnCredit(o) = 0
    BY <2>2, <2>3, SumNone DEF Sum
  <2> QED
    BY <2>4, TotalIsNat
<1>6. \A r \in Returns : returned[r] \in ReturnRow /\ ~Journaled(CreditKey(r))
  BY <1>1, <1>3, KeysAreSources DEF ReturnRow, NotReturned
<1> QED
  BY <1>1, <1>2, <1>4, <1>5, <1>6 DEF AmountInv, CreditInv

\* The returns of an order, and what they credit, are a finite table.
LEMMA ReturnSums ==
    ASSUME CreditInv, NEW o
    PROVE  /\ IsFiniteSet(ReturnsOf(o)) /\ ReturnsOf(o) \subseteq Returns
           /\ ReturnCredit(o) \in Int
<1>1. IsFiniteSet(ReturnsOf(o)) /\ ReturnsOf(o) \subseteq Returns
  BY SalesLedgerAssumption, FS_Subset DEF ReturnsOf
<1> DEFINE f == [r \in ReturnsOf(o) |-> returned[r].credit]
<1>2. \A r \in ReturnsOf(o) : f[r] \in Int
  BY <1>1 DEF CreditInv, ReturnRow
<1>3. DOMAIN f = ReturnsOf(o)
  OBVIOUS
<1>4. ReturnCredit(o) = Sum(f)
  BY DEF ReturnCredit
<1> HIDE DEF f
<1> QED
  BY <1>1, <1>2, <1>3, <1>4, SumIs

\* A completed return adds its credit to that of its order.
LEMMA ReturnCredits ==
    ASSUME CreditInv, DOMAIN returned = Returns, NEW r \in Returns, NEW credit \in Nat, NEW restocked \in Nat,
           NEW m \in Months, credit + restocked > 0, returned[r] = NotReturned,
           returned' = [returned EXCEPT ![r] = [credit |-> credit, restocked |-> restocked, month |-> m]]
    PROVE  /\ ReturnCredit(ReturnOf[r])' = credit + ReturnCredit(ReturnOf[r])
           /\ \A o : o # ReturnOf[r] => ReturnCredit(o)' = ReturnCredit(o)
<1> DEFINE row == [credit |-> credit, restocked |-> restocked, month |-> m]
<1>1. row # NotReturned /\ row.credit = credit /\ row.credit \in Int
  <2>1. CASE credit # 0
    BY <2>1 DEF NotReturned
  <2>2. CASE restocked # 0
    BY <2>2 DEF NotReturned
  <2> QED
    BY <2>1, <2>2
<1>2. returned'[r] = row /\ \A x \in Returns : x # r => returned'[x] = returned[x]
  OBVIOUS
<1> HIDE DEF row
<1>3. ASSUME NEW o, o # ReturnOf[r] PROVE ReturnCredit(o)' = ReturnCredit(o)
  <2>1. ReturnsOf(o)' = ReturnsOf(o)
    BY <1>2, <1>3 DEF ReturnsOf
  <2>2. \A x \in ReturnsOf(o) : returned'[x] = returned[x]
    BY <1>2, <1>3 DEF ReturnsOf
  <2>3. [x \in ReturnsOf(o)' |-> returned'[x].credit] = [x \in ReturnsOf(o) |-> returned[x].credit]
    BY <2>1, <2>2
  <2> QED
    BY <2>3 DEF ReturnCredit
<1>4. ReturnCredit(ReturnOf[r])' = credit + ReturnCredit(ReturnOf[r])
  <2> DEFINE R == ReturnsOf(ReturnOf[r])
             f == [x \in R |-> returned[x].credit]
             g == [x \in ReturnsOf(ReturnOf[r])' |-> returned'[x].credit]
  <2>1. ReturnsOf(ReturnOf[r])' = R \cup {r} /\ r \notin R
    BY <1>1, <1>2 DEF ReturnsOf
  <2>2. IsFiniteSet(R) /\ R \subseteq Returns
    BY ReturnSums
  <2>3. ReturnCredit(ReturnOf[r]) = Sum(f) /\ ReturnCredit(ReturnOf[r])' = Sum(g)
    BY DEF ReturnCredit
  <2>4. DOMAIN f = R /\ DOMAIN g = R \cup {r}
    BY <2>1
  <2>5. \A x \in R : f[x] = returned[x].credit /\ f[x] \in Int
    BY <2>2 DEF CreditInv, ReturnRow
  <2>6. g[r] = credit
    BY <1>1, <1>2, <2>1
  <2>7. \A x \in R : g[x] = f[x]
    BY <1>2, <2>1, <2>2
  <2> HIDE DEF f, g, R
  <2>8. IsFiniteSet(R \cup {r}) /\ (R \cup {r}) \ {r} = R
    BY <2>1, <2>2, FS_AddElement
  <2>9. \A x \in R \cup {r} : g[x] \in Int
    BY <2>5, <2>6, <2>7
  <2>10. SumOver(g, R \cup {r}) = g[r] + SumOver(g, (R \cup {r}) \ {r})
    BY <2>8, <2>9, SumTakes
  <2>11. SumOver(g, R) = SumOver(f, R)
    BY <2>2, <2>7, SumAgrees
  <2>12. Sum(f) = SumOver(f, R) /\ Sum(g) = SumOver(g, R \cup {r})
    BY <2>4 DEF Sum
  <2>13. SumOver(g, R \cup {r}) = credit + SumOver(g, R)
    BY <2>6, <2>8, <2>10
  <2> QED
    BY <2>3, <2>11, <2>12, <2>13
<1> QED
  BY <1>3, <1>4

\* A step that leaves the sales and the bookings of returns alone.
LEMMA CreditsSpared ==
    ASSUME CreditInv, UNCHANGED <<completed, returned>>, BookedCredits' = BookedCredits,
           \A s \in Sources : Journaled(s) => book'[s].amount = book[s].amount
    PROVE  CreditInv'
<1>1. \A o : (ReturnCredit(o)' = ReturnCredit(o)) /\ (GrandTotal(o)' = GrandTotal(o)) /\ (Balanced(o)' <=> Balanced(o))
  BY DEF ReturnCredit, ReturnsOf, GrandTotal, Balanced, ProductRevenue
<1>2. \A r \in Returns : Journaled(CreditKey(r))' <=> Journaled(CreditKey(r))
  BY DEF BookedCredits
<1> QED
  BY <1>1, <1>2, KeysAreSources DEF CreditInv, ReturnRow

LEMMA AmountsStep == DocumentInv /\ AmountInv /\ [BookNext /\ InBounds']_bookVars => AmountInv'
<1> SUFFICES ASSUME DocumentInv, AmountInv, [BookNext /\ InBounds']_bookVars PROVE AmountInv'
  OBVIOUS
<1> USE DEF AmountInv
<1>0. ChainsInv /\ ReceiptInv /\ SaleMatch /\ SpendingMatch /\ SaleMatch'
  BY DocumentsStep DEF DocumentInv, BookInv
<1>1. ASSUME UNCHANGED saleVars, GoodsInv',
             PostsStated \/ ReversesSome \/ TurnsPeriod \/ UNCHANGED ledgerVars
      PROVE  AmountInv'
  <2>1. StatedBook' /\ \A s \in Sources : Journaled(s) => book'[s].amount = book[s].amount
    BY <1>0, <1>1, StatedStep
  <2>2. UNCHANGED <<completed, returned>>
    BY <1>1 DEF saleVars
  <2>3. BookedCredits' = BookedCredits
    BY <1>0, <2>2 DEF SaleMatch
  <2> QED
    BY <1>1, <2>1, <2>2, <2>3, CreditsSpared
<1>2. CASE (ExpenseNext \/ CashbookNext) /\ UNCHANGED <<goodsVars, saleVars>>
  <2>1. UNCHANGED saleVars /\ GoodsInv'
    BY <1>2 DEF goodsVars, GoodsInv
  <2> QED
    BY <1>0, <1>1, <1>2, <2>1, SpendingStated
<1>3. CASE GoodsNext /\ UNCHANGED <<expenseVars, saleVars>>
  <2>1. UNCHANGED saleVars
    BY <1>3
  <2> QED
    BY <1>1, <1>3, <2>1, GoodsStated
<1>4. CASE LedgerNext /\ UNCHANGED <<expenseVars, goodsVars, saleVars>>
  <2>1. UNCHANGED saleVars /\ GoodsInv'
    BY <1>4 DEF goodsVars, GoodsInv
  <2> QED
    BY <1>1, <1>4, <2>1, PagesStated
<1>5. CASE UNCHANGED bookVars
  <2>1. UNCHANGED saleVars /\ GoodsInv' /\ UNCHANGED ledgerVars
    BY <1>5 DEF bookVars, ledgerVars, saleVars, GoodsInv
  <2> QED
    BY <1>1, <2>1
<1>6. CASE SaleNext /\ UNCHANGED expenseVars
  <2>1. StatedBook' /\ \A s \in Sources : Journaled(s) => book'[s].amount = book[s].amount
    BY <1>0, <1>6, SaleNextStated, StatedStep
  <2>2. GoodsInv'
    BY <1>6 DEF SaleNext, CompleteSale, SaveOrder, CompletePending, FailPending, ReconcilePayment,
                CapturePending, CapturePayment, ReversePayment, CompleteReturn, goodsVars, GoodsInv
  <2>3. ASSUME UNCHANGED <<completed, returned>> PROVE CreditInv'
    <3>1. BookedCredits' = BookedCredits
      BY <1>0, <2>3 DEF SaleMatch
    <3> QED
      BY <2>1, <2>3, <3>1, CreditsSpared
  <2>4. ASSUME NEW o \in Orders, CompleteSale(o) PROVE CreditInv'
    <3>1. completed' = completed \cup {o} /\ Balanced(o) /\ UNCHANGED returned
      BY <2>4 DEF CompleteSale
    <3>2. BookedCredits' = BookedCredits
      BY <1>0, <3>1 DEF SaleMatch
    <3>3. \A x : ReturnCredit(x)' = ReturnCredit(x) /\ GrandTotal(x)' = GrandTotal(x)
      BY <3>1 DEF ReturnCredit, ReturnsOf, GrandTotal
    <3>4. \A x \in completed' : Balanced(x)'
      BY <3>1 DEF CreditInv, Balanced, GrandTotal, ProductRevenue
    <3>5. \A r \in Returns : Journaled(CreditKey(r))' <=> Journaled(CreditKey(r))
      BY <3>2 DEF BookedCredits
    <3>6. \A r \in Returns : Journaled(CreditKey(r))' => book'[CreditKey(r)].amount = returned'[r].credit
      BY <2>1, <3>1, <3>5, KeysAreSources DEF CreditInv
    <3> QED
      BY <3>1, <3>3, <3>4, <3>6 DEF CreditInv, ReturnRow
  <2>5. ASSUME NEW r \in Returns, NEW m \in Months, NEW credit \in 0 .. GrandTotal(ReturnOf[r]),
               NEW restocked \in 0 .. Terms[ReturnOf[r]].units, CompleteReturn(r, credit, restocked, m)
        PROVE  CreditInv'
    <3> DEFINE row == [credit |-> credit, restocked |-> restocked, month |-> m]
    <3>1. /\ returned[r] = NotReturned /\ credit + restocked > 0 /\ UNCHANGED completed
          /\ returned' = [returned EXCEPT ![r] = row]
          /\ credit + ReturnCredit(ReturnOf[r]) <= GrandTotal(ReturnOf[r])
      BY <2>5 DEF CompleteReturn, ReturnCredit
    <3>2. /\ ReturnOf[r] \in Orders /\ credit \in Nat /\ restocked \in Nat
          /\ DOMAIN returned = Returns
      BY <1>0, SalesLedgerAssumption, TotalIsNat DEF SaleMatch
    <3>3. /\ ReturnCredit(ReturnOf[r])' = credit + ReturnCredit(ReturnOf[r])
          /\ \A o : o # ReturnOf[r] => ReturnCredit(o)' = ReturnCredit(o)
      BY <3>1, <3>2, ReturnCredits
    <3>4. \A o \in Orders : ReturnCredit(o)' <= GrandTotal(o)'
      BY <3>1, <3>3 DEF CreditInv, GrandTotal
    <3>5. row \in ReturnRow /\ row.credit = credit
      BY <3>2 DEF ReturnRow
    <3>6. returned'[r] = row /\ \A x \in Returns : x # r => returned'[x] = returned[x]
      BY <3>1, <3>2
    <3> HIDE DEF row
    <3>7. \A x \in Returns : returned'[x] \in ReturnRow'
      BY <3>5, <3>6 DEF CreditInv, ReturnRow
    <3>8. ASSUME NEW x \in Returns, x # r, Journaled(CreditKey(x))'
          PROVE  book'[CreditKey(x)].amount = returned'[x].credit
      <4>1. x \in BookedCredits' /\ returned'[x] = returned[x]
        BY <3>6, <3>8 DEF BookedCredits
      <4>2. x \in BookedCredits
        BY <1>0, <4>1 DEF SaleMatch
      <4>3. Journaled(CreditKey(x))
        BY <4>2 DEF BookedCredits
      <4> QED
        BY <2>1, <4>1, <4>3, KeysAreSources DEF CreditInv
    <3>9. ASSUME Journaled(CreditKey(r))' PROVE book'[CreditKey(r)].amount = returned'[r].credit
      <4> DEFINE own == ReturnEntries(r, credit, restocked, m)
                 sale == SaleEntries(ReturnOf[r])
                 paid == Worth(CreditKey(r), credit, m)
                 back == Worth(RestockKey(r), restocked * WeightedCost(DateOf[ReturnOf[r]]), m)
      <4>1. credit > 0
        <5>1. r \in BookedCredits'
          BY <3>9 DEF BookedCredits
        <5>2. returned'[r].credit > 0
          BY <1>0, <5>1 DEF SaleMatch
        <5> QED
          BY <3>5, <3>6, <5>2
      <4>2. ~Journaled(CreditKey(r))
        <5>1. r \notin BookedCredits
          BY <1>0, <3>1 DEF SaleMatch, NotReturned
        <5> QED
          BY <5>1 DEF BookedCredits
      <4>3. DOMAIN paid = {CreditKey(r)} /\ paid[CreditKey(r)].amount = credit
        BY <4>1 DEF Worth, Journal, Entry
      <4>4. Posts(own ++ sale) /\ own = paid ++ back
        BY <2>5 DEF CompleteReturn, ReturnEntries
      <4>5. NewJournals(own) /\ NewJournals(sale)
        BY <3>2, ReturnJournals, SaleJournals
      <4> HIDE DEF own, sale, paid, back
      <4>6. own[CreditKey(r)] = paid[CreditKey(r)] /\ CreditKey(r) \in DOMAIN own
        <5>1. CreditKey(r) \in DOMAIN paid
          BY <4>3
        <5>2. (paid ++ back)[CreditKey(r)] = paid[CreditKey(r)]
          BY <5>1, TogetherFacts
        <5>3. CreditKey(r) \in DOMAIN (paid ++ back)
          BY <5>1, TogetherFacts
        <5> QED
          BY <4>4, <5>2, <5>3
      <4>7. (own ++ sale)[CreditKey(r)] = own[CreditKey(r)] /\ CreditKey(r) \in DOMAIN (own ++ sale)
        BY <4>6, TogetherFacts
      <4>8. NewJournals(own ++ sale)
        BY <4>5, TogetherFacts
      <4> DEFINE entries == own ++ sale
      <4>9. entries[CreditKey(r)].amount = credit /\ CreditKey(r) \in DOMAIN entries
        BY <4>3, <4>6, <4>7
      <4>10. Posts(entries) /\ NewJournals(entries)
        BY <4>4, <4>8
      <4> HIDE DEF entries
      <4>11. book'[CreditKey(r)] = entries[CreditKey(r)]
        BY <1>0, <4>2, <4>9, <4>10, PostsEffect, KeysAreSources
      <4> QED
        BY <3>5, <3>6, <4>9, <4>11
    <3>10. \A o \in completed' : Balanced(o)'
      BY <3>1 DEF CreditInv, Balanced, GrandTotal, ProductRevenue
    <3> QED
      BY <3>4, <3>7, <3>8, <3>9, <3>10 DEF CreditInv
  <2>6. CreditInv'
    BY <1>6, <2>3, <2>4, <2>5 DEF SaleNext, SaveOrder, CompletePending, FailPending, ReconcilePayment,
                CapturePending, CapturePayment, ReversePayment, saleVars
  <2> QED
    BY <2>1, <2>2, <2>6
<1> QED
  BY <1>2, <1>3, <1>4, <1>5, <1>6 DEF BookNext

\* Of an order that the ledger explains, report and ledger tell the same profit.
LEMMA SameProfit ==
    ASSUME ChainsInv, SaleMatch, AmountInv, NEW o \in completed, Explained(o)
    PROVE  Profit(o) = LedgerProfit(o)
<1> DEFINE R == ReturnsOf(o)
           back == [r \in R |-> PostedCost(RestockKey(r))]
           paid == [r \in R |-> returned[r].credit]
           gain == [r \in R |-> Net(RestockKey(r)) - Net(CreditKey(r))]
<1>1. o \in Orders /\ RevenueKey(o) \in Sources /\ CostKey(o) \in Sources
  BY KeysAreSources DEF SaleMatch
<1>2. IsFiniteSet(R) /\ R \subseteq Returns /\ ReturnCredit(o) \in Int
  BY ReturnSums DEF AmountInv
<1>3. ASSUME NEW s \in Sources, Length(s) <= 1
      PROVE  /\ Standing(s) <=> Journaled(s)
             /\ Net(s) = (IF Standing(s) THEN book[s].amount ELSE 0) /\ Net(s) \in Int
  <2>0. book[s].months \in Seq(Months)
    BY DEF ChainsInv, Chain
  <2>4. Length(s) \in Nat
    BY <2>0, LenProperties DEF Length
  <2>1. Length(s) = 0 \/ Length(s) = 1
    BY <1>3, <2>4
  <2>2. book[s].amount \in Int
    BY DEF AmountInv, StatedBook
  <2>3. 0 % 2 = 0 /\ 1 % 2 = 1
    OBVIOUS
  <2> QED
    BY <2>1, <2>2, <2>3 DEF Standing, Journaled, Net
<1>4. ASSUME NEW r \in R
      PROVE  back[r] \in Int /\ paid[r] \in Int /\ gain[r] \in Int /\ back[r] = gain[r] + paid[r]
  <2>1. r \in Returns /\ CreditKey(r) \in Sources /\ RestockKey(r) \in Sources
    BY <1>2, KeysAreSources, BooksAssumption
  <2>2. Length(CreditKey(r)) <= 1 /\ Length(RestockKey(r)) <= 1
    BY DEF Explained
  <2>3. Net(RestockKey(r)) = PostedCost(RestockKey(r)) /\ Net(RestockKey(r)) \in Int
    BY <1>3, <2>1, <2>2 DEF PostedCost
  <2>4. returned[r].credit \in Nat
    BY <2>1 DEF AmountInv, CreditInv, ReturnRow
  <2>5. Journaled(CreditKey(r)) <=> returned[r].credit > 0
    BY <2>1 DEF SaleMatch, BookedCredits
  <2>6. Net(CreditKey(r)) = returned[r].credit
    BY <1>3, <2>1, <2>2, <2>4, <2>5 DEF AmountInv, CreditInv
  <2> QED
    BY <2>3, <2>4, <2>6
<1>5. /\ DOMAIN back = R /\ DOMAIN paid = R /\ DOMAIN gain = R
      /\ ReturnedCogs(o) = Sum(back) /\ ReturnCredit(o) = Sum(paid)
      /\ LedgerProfit(o) = Net(RevenueKey(o)) - Net(CostKey(o)) + Sum(gain)
  BY DEF ReturnedCogs, ReturnCredit, LedgerProfit
<1> HIDE DEF back, paid, gain, R
<1>6. Sum(back) \in Int /\ Sum(paid) \in Int /\ Sum(gain) \in Int
  BY <1>2, <1>4, <1>5, SumIs
<1>7. Sum(back) = Sum(gain) + Sum(paid)
  <2>1. SumOver(back, R) = SumOver(gain, R) + SumOver(paid, R)
    BY <1>2, <1>4, SumAdds
  <2> QED
    BY <2>1, <1>5 DEF Sum
<1>8. GrandTotal(o) \in Nat /\ Net(RevenueKey(o)) = GrandTotal(o)
  <2>1. GrandTotal(o) \in Nat
    BY <1>1, TotalIsNat
  <2>2. Journaled(RevenueKey(o)) <=> GrandTotal(o) > 0
    BY <1>1 DEF SaleMatch, BookedRevenues
  <2>3. Journaled(RevenueKey(o)) => book[RevenueKey(o)].amount = GrandTotal(o)
    BY <1>1 DEF AmountInv, StatedBook, TrueOf, RevenueKey
  <2>4. Length(RevenueKey(o)) <= 1
    BY DEF Explained
  <2>5. Net(RevenueKey(o)) = (IF Standing(RevenueKey(o)) THEN book[RevenueKey(o)].amount ELSE 0)
        /\ (Standing(RevenueKey(o)) <=> Journaled(RevenueKey(o)))
    BY <1>1, <1>3, <2>4
  <2> QED
    BY <2>1, <2>2, <2>3, <2>5
<1>9. Net(CostKey(o)) = OriginalCogs(o) /\ Net(CostKey(o)) \in Int
  <2>1. Length(CostKey(o)) <= 1
    BY DEF Explained
  <2>2. Journaled(CostKey(o)) \/ OrderCost(o) = 0
    BY DEF Explained
  <2> QED
    BY <1>1, <1>3, <2>1, <2>2 DEF OriginalCogs
<1>10. ReturnCredit(o) <= GrandTotal(o) /\ ReturnedCogs(o) <= OriginalCogs(o)
  BY <1>1 DEF AmountInv, CreditInv, Explained
<1>11. NetSales(o) = GrandTotal(o) - Sum(paid)
  BY <1>5, <1>6, <1>8, <1>10 DEF NetSales, Positive
<1>12. NetCogs(o) = OriginalCogs(o) - Sum(back)
  BY <1>5, <1>6, <1>9, <1>10 DEF NetCogs, Positive
<1> QED
  BY <1>5, <1>6, <1>7, <1>8, <1>9, <1>11, <1>12 DEF Profit

PageInv == DocumentInv /\ AmountInv

LEMMA PagesStart == BookInit => PageInv
BY DocumentsStart, AmountsStart DEF PageInv

LEMMA PagesStep == PageInv /\ [BookNext /\ InBounds']_bookVars => PageInv'
BY DocumentsStep, AmountsStep DEF PageInv

\* The sales and profit report, for any orders, returns, purchases and reversals: of the
\* orders whose journals stand as their services posted them, it shows the profit
\* that the ledger recognized.
THEOREM ProfitReportIsTrue == BookSpec => []SalesReportAgrees
<1>1. PageInv => SalesReportAgrees
  <2> SUFFICES ASSUME PageInv, NEW m \in Months,
                      \A o \in {x \in completed : DateOf[x] = m} : Explained(o)
               PROVE  Reported({m}) = Sum([o \in {x \in completed : DateOf[x] = m} |-> LedgerProfit(o)])
    BY DEF SalesReportAgrees
  <2>1. {x \in completed : DateOf[x] \in {m}} = {x \in completed : DateOf[x] = m}
    OBVIOUS
  <2>2. ASSUME NEW o \in {x \in completed : DateOf[x] = m} PROVE Profit(o) = LedgerProfit(o)
    BY SameProfit DEF PageInv, DocumentInv, BookInv
  <2>3. [o \in {x \in completed : DateOf[x] \in {m}} |-> Profit(o)]
          = [o \in {x \in completed : DateOf[x] = m} |-> LedgerProfit(o)]
    BY <2>1, <2>2
  <2> QED
    BY <2>3 DEF Reported
<1> QED
  BY <1>1, PagesStart, PagesStep, PTL DEF BookSpec

-----------------------------------------------------------------------------
(* Statements *)

\* A journal: the accounts of the chart it moves, as much up as down.
Even(lines) ==
    /\ IsFiniteSet(DOMAIN lines) /\ DOMAIN lines \subseteq DOMAIN Chart
    /\ \A a \in DOMAIN lines : lines[a] \in Int
    /\ SumOver(lines, DOMAIN lines) = 0

LEMMA PairIsEven ==
    ASSUME NEW debit \in DOMAIN Chart, NEW credit \in DOMAIN Chart, NEW a \in Int
    PROVE  Even(Pair(debit, credit, a)) /\ DOMAIN Pair(debit, credit, a) = {debit, credit}
<1> DEFINE lines == Pair(debit, credit, a)
<1>1. DOMAIN lines = {debit, credit} /\ \A x \in {debit, credit} : lines[x] \in Int
  BY DEF Pair
<1>2. IsFiniteSet({debit, credit})
  BY TwoAreFinite
<1>3. SumOver(lines, {debit, credit}) = 0
  <2>1. CASE debit = credit
    <3>1. \A x \in {debit, credit} : lines[x] = 0
      BY <2>1 DEF Pair
    <3> HIDE DEF lines
    <3> QED
      BY <1>2, <3>1, SumZero
  <2>2. CASE debit # credit
    <3>1. lines[debit] = a /\ lines[credit] = -a
      BY <2>2 DEF Pair
    <3> HIDE DEF lines
    <3>2. SumOver(lines, {debit, credit}) = lines[debit] + lines[credit]
      BY <1>1, <2>2, SumOfTwo
    <3> QED
      BY <3>1, <3>2
  <2> QED
    BY <2>1, <2>2
<1> QED
  BY <1>1, <1>2, <1>3 DEF Even

LEMMA RevenueIsEven ==
    ASSUME NEW a \in Int, NEW product \in Int, NEW shipping \in Int, a = product + shipping
    PROVE  Even([receivable |-> a, sales |-> -product, shipping_revenue |-> -shipping])
<1> DEFINE lines == [receivable |-> a, sales |-> -product, shipping_revenue |-> -shipping]
           Credit == {"sales", "shipping_revenue"}
           All == {"receivable", "sales", "shipping_revenue"}
<1>1. /\ DOMAIN lines = All
      /\ lines["receivable"] = a /\ lines["sales"] = -product /\ lines["shipping_revenue"] = -shipping
  OBVIOUS
<1>2. All \subseteq DOMAIN Chart
  BY StatementsAssumption DEF SystemAccounts
<1>3. IsFiniteSet(Credit) /\ IsFiniteSet(All) /\ All \ {"receivable"} = Credit
  <2>1. All = Credit \cup {"receivable"} /\ All \ {"receivable"} = Credit
    OBVIOUS
  <2>2. IsFiniteSet(Credit) /\ IsFiniteSet({"receivable"})
    BY TwoAreFinite
  <2> HIDE DEF Credit, All
  <2> QED
    BY <2>1, <2>2, FS_Union
<1> HIDE DEF lines
<1>4. \A x \in All : lines[x] \in Int
  BY <1>1
<1>5. SumOver(lines, Credit) = lines["sales"] + lines["shipping_revenue"]
  <2>1. lines["sales"] \in Int /\ lines["shipping_revenue"] \in Int /\ "sales" # "shipping_revenue"
    BY <1>1
  <2> QED
    BY <2>1, SumOfTwo
<1>6. "receivable" \in All
  OBVIOUS
<1> HIDE DEF All, Credit
<1>7. SumOver(lines, All) = lines["receivable"] + SumOver(lines, All \ {"receivable"})
  BY <1>3, <1>4, <1>6, SumTakes
<1>8. SumOver(lines, All) = a + (-product + -shipping)
  BY <1>1, <1>3, <1>5, <1>7
<1>9. SumOver(lines, All) = 0
  BY <1>8
<1>10. Even(lines)
  BY <1>1, <1>2, <1>3, <1>4, <1>9 DEF Even
<1> QED
  BY <1>10 DEF lines

\* Whatever is booked moves as much up as down.
LEMMA LinesAreEven ==
    ASSUME PageInv, NEW s \in Booked
    PROVE  Even(Lines(s))
<1> DEFINE a == book[s].amount
<1>1. s \in Sources /\ Journaled(s) /\ a \in Int /\ TrueOf(s)
  BY DEF Booked, PageInv, AmountInv, StatedBook
<1>2. SystemAccounts \subseteq DOMAIN Chart
  BY StatementsAssumption
<1>3. \A x, y \in SystemAccounts : Even(Pair(x, y, a))
  BY <1>1, <1>2, PairIsEven
<1>4. CASE s[1] = "manual"
  <2>1. s \in Manuals
    BY <1>1, <1>4 DEF TrueOf
  <2>2. ManualLines[s].debit \in DOMAIN Chart /\ ManualLines[s].credit \in DOMAIN Chart
    BY <2>1, StatementsAssumption
  <2>3. Lines(s) = Pair(ManualLines[s].debit, ManualLines[s].credit, a)
    BY <1>4 DEF Lines
  <2> HIDE DEF a
  <2>4. a \in Int
    BY <1>1
  <2>5. Even(Pair(ManualLines[s].debit, ManualLines[s].credit, a))
    BY <2>2, <2>4, PairIsEven
  <2> QED
    BY <2>3, <2>5
<1>5. CASE s[1] = "revenue"
  <2>1. PICK o \in Orders : s = RevenueKey(o) /\ a = GrandTotal(o)
    BY <1>1, <1>5 DEF TrueOf
  <2>2. s[2] = o
    BY <2>1 DEF RevenueKey
  <2>3. GrandTotal(o) \in Nat /\ ProductRevenue(o) \in Nat /\ Terms[o].shipping \in Nat
    BY TotalIsNat
  <2>4. o \in completed /\ GrandTotal(o) > 0
    <3>1. o \in BookedRevenues
      BY <1>1, <2>1 DEF BookedRevenues
    <3> QED
      BY <3>1 DEF PageInv, DocumentInv, SaleMatch
  <2>5. GrandTotal(o) = ProductRevenue(o) + Terms[o].shipping
    <3>1. Balanced(o)
      BY <2>4 DEF PageInv, AmountInv, CreditInv
    <3> QED
      BY <2>4, <3>1 DEF Balanced
  <2>6. Lines(s) = [receivable |-> a, sales |-> -ProductRevenue(o), shipping_revenue |-> -Terms[o].shipping]
    BY <1>5, <2>2 DEF Lines
  <2> HIDE DEF a
  <2>7. Even([receivable |-> a, sales |-> -ProductRevenue(o), shipping_revenue |-> -Terms[o].shipping])
    BY <1>1, <2>1, <2>3, <2>5, RevenueIsEven
  <2> QED
    BY <2>6, <2>7
<1>6. CASE s[1] # "manual" /\ s[1] # "revenue"
  <2> DEFINE Paired(lines) == \E x, y \in SystemAccounts : lines = Pair(x, y, a)
  <2>1. Paired(CashbookLines(s))
    <3>1. CASE s[2] \in Incomes /\ s[3] = 0
      <4>1. CashbookLines(s) = Pair("other_receivable", "other_income", a)
        BY <3>1 DEF CashbookLines
      <4> QED
        BY <4>1 DEF SystemAccounts
    <3>2. CASE s[2] \in Incomes /\ s[3] > 0
      <4>0. s[3] # 0
        BY <3>2
      <4>1. CashbookLines(s) = Pair("cash", "other_receivable", a)
        BY <3>2, <4>0 DEF CashbookLines
      <4> QED
        BY <4>1 DEF SystemAccounts
    <3>3. CASE s[2] \notin Incomes /\ s[3] = 0
      <4>1. CashbookLines(s) = Pair("other_expense", "other_payable", a)
        BY <3>3 DEF CashbookLines
      <4> QED
        BY <4>1 DEF SystemAccounts
    <3>4. CASE ~ (s[2] \in Incomes /\ s[3] = 0) /\ ~ (s[2] \in Incomes /\ s[3] > 0)
               /\ ~ (s[2] \notin Incomes /\ s[3] = 0)
      <4>1. CashbookLines(s) = Pair("other_payable", "cash", a)
        BY <3>4 DEF CashbookLines
      <4> QED
        BY <4>1 DEF SystemAccounts
    <3> QED
      BY <3>1, <3>2, <3>3, <3>4
  <2>2. Paired(Lines(s))
    <3>1. CASE s[1] = "expense"
      <4>1. Lines(s) = Pair("other_expense", "cash", a)
        BY <3>1 DEF Lines
      <4> QED
        BY <4>1 DEF SystemAccounts
    <3>2. CASE s[1] = "entry"
      <4>1. Lines(s) = CashbookLines(s)
        BY <3>2 DEF Lines
      <4> HIDE DEF Paired
      <4> QED
        BY <2>1, <4>1
    <3>3. CASE s[1] = "arrival"
      <4>1. Lines(s) = Pair("inventory", "payable", a)
        BY <3>3 DEF Lines
      <4> QED
        BY <4>1 DEF SystemAccounts
    <3>4. CASE s[1] = "sendback"
      <4>1. Lines(s) = Pair("payable", "inventory", a)
        BY <3>4 DEF Lines
      <4> QED
        BY <4>1 DEF SystemAccounts
    <3>5. CASE s[1] = "cost"
      <4>1. Lines(s) = Pair("cogs", "inventory", a)
        BY <3>5 DEF Lines
      <4> QED
        BY <4>1 DEF SystemAccounts
    <3>6. CASE s[1] = "payment"
      <4>1. \/ Lines(s) = Pair("cash", "receivable", a)
            \/ Lines(s) = Pair("receivable", "cash", a)
        BY <3>6 DEF Lines
      <4> QED
        BY <4>1 DEF SystemAccounts
    <3>7. CASE s[1] = "credit"
      <4>1. Lines(s) = Pair("sales_returns", "receivable", a)
        BY <3>7 DEF Lines
      <4> QED
        BY <4>1 DEF SystemAccounts
    <3>8. CASE s[1] \notin {"expense", "entry", "arrival", "sendback", "cost", "payment", "credit"}
      <4>1. Lines(s) = Pair("inventory", "cogs", a)
        BY <1>6, <3>8 DEF Lines
      <4> QED
        BY <4>1 DEF SystemAccounts
    <3> HIDE DEF Paired
    <3> QED
      BY <3>1, <3>2, <3>3, <3>4, <3>5, <3>6, <3>7, <3>8
  <2> QED
    BY <1>3, <2>2
<1> QED
  BY <1>4, <1>5, <1>6

\* Sources with even journals, each any number of times, add up to even accounts.
LEMMA EvenColumns ==
    ASSUME NEW S, IsFiniteSet(S), NEW lines, \A s \in S : Even(lines[s]),
           NEW times, \A s \in S : times[s] \in Int,
           NEW act,
           DOMAIN act = UNION {DOMAIN lines[s] : s \in S},
           \A a \in DOMAIN act :
               act[a] = Sum([s \in {x \in S : a \in DOMAIN lines[x]} |-> times[s] * lines[s][a]])
    PROVE  Even(act)
<1> DEFINE A == DOMAIN act
           Of(a) == {x \in S : a \in DOMAIN lines[x]}
           m == [s \in S |-> [a \in A |-> IF a \in DOMAIN lines[s] THEN times[s] * lines[s][a] ELSE 0]]
           row == [s \in S |-> SumOver(m[s], A)]
           turned == [a \in A |-> [s \in S |-> m[s][a]]]
<1>1. IsFiniteSet(A)
  <2>1. \A s \in S : IsFiniteSet(DOMAIN lines[s])
    BY DEF Even
  <2>2. IsFiniteSet({DOMAIN lines[s] : s \in S})
    <3> DEFINE T == {DOMAIN lines[s] : s \in S}
               f == [s \in S |-> DOMAIN lines[s]]
    <3>1. f \in Surjection(S, T)
      BY DEF Surjection
    <3> QED
      BY <3>1, FS_Surjection
  <2>3. \A T \in {DOMAIN lines[s] : s \in S} : IsFiniteSet(T)
    BY <2>1
  <2> QED
    BY <2>2, <2>3, FS_UNION
<1>2. \A s \in S : DOMAIN lines[s] \subseteq A
  OBVIOUS
<1>3. \A s \in S : \A a \in A : m[s][a] = (IF a \in DOMAIN lines[s] THEN times[s] * lines[s][a] ELSE 0)
  OBVIOUS
<1>4. \A s \in S : \A a \in A : m[s][a] \in Int
  BY <1>3 DEF Even
<1>5. \A a \in A : A # {} /\ Of(a) \in SUBSET S
  OBVIOUS
<1> HIDE DEF m
<1>6. \A s \in S : row[s] = SumOver(m[s], A)
  OBVIOUS
<1>7. ASSUME NEW s \in S PROVE row[s] = 0
  <2> DEFINE P == DOMAIN lines[s]
             f == lines[s]
             n == times[s]
             g == m[s]
  <2>1. P \in SUBSET A /\ IsFiniteSet(P) /\ n \in Int
    BY <1>2 DEF Even
  <2>2. \A a \in P : f[a] \in Int /\ g[a] = n * f[a]
    BY <1>2, <1>3 DEF Even
  <2>3. \A a \in A \ P : g[a] = 0
    BY <1>3
  <2>4. \A a \in A : g[a] \in Int
    BY <1>4
  <2>5. SumOver(f, P) = 0
    BY DEF Even
  <2>6. row[s] = SumOver(g, A)
    OBVIOUS
  <2> HIDE DEF P, f, n, g, row, A
  <2>7. SumOver(g, A) = SumOver(g, P)
    BY <1>1, <2>1, <2>3, <2>4, SumSkips
  <2>8. SumOver(g, P) = n * SumOver(f, P)
    BY <2>1, <2>2, SumScales
  <2>9. n * 0 = 0
    BY <2>1
  <2> QED
    BY <2>5, <2>6, <2>7, <2>8, <2>9
<1>8. ASSUME NEW a \in A
      PROVE act[a] = SumOver(turned[a], S) /\ act[a] \in Int
  <2> DEFINE P == Of(a)
             f == turned[a]
             g == [s \in P |-> times[s] * lines[s][a]]
  <2>1. P \in SUBSET S /\ IsFiniteSet(P)
    BY FS_Subset
  <2>2. \A s \in S : f[s] \in Int
    BY <1>4
  <2>3. \A s \in S \ P : f[s] = 0
    BY <1>3
  <2>4. \A s \in P : f[s] = g[s]
    BY <1>3
  <2>5. act[a] = SumOver(g, P)
    BY DEF Sum
  <2> HIDE DEF P, f, g
  <2>6. SumOver(f, S) = SumOver(f, P)
    BY <2>1, <2>2, <2>3, SumSkips
  <2>7. SumOver(f, P) = SumOver(g, P)
    BY <2>1, <2>4, SumAgrees
  <2>8. SumOver(f, S) \in Int
    BY <2>2, SumInt
  <2>9. act[a] = SumOver(f, S)
    BY <2>5, <2>6, <2>7
  <2> QED
    BY <2>8, <2>9 DEF f
<1>9. SumOver(act, A) = 0
  <2>0. Matrix(m, turned, S, A) /\ AddsRows(row, m, S, A)
    BY <1>4, <1>6 DEF Matrix, AddsRows
  <2> HIDE DEF A, row, turned
  <2>1. AddsRows(act, turned, A, S)
    BY <1>8 DEF AddsRows
  <2>2. SumOver(row, S) = SumOver(act, A)
    BY <1>1, <2>0, <2>1, SumSwaps
  <2>3. SumOver(row, S) = 0
    BY <1>7, SumZero
  <2> QED
    BY <2>2, <2>3
<1>10. A \subseteq DOMAIN Chart
  BY DEF Even
<1> QED
  BY <1>1, <1>8, <1>9, <1>10 DEF Even

\* The journals of a source.
LEMMA SourceFacts ==
    ASSUME PageInv, NEW s \in Booked
    PROVE  /\ IsFiniteSet(1 .. Length(s)) /\ \A i : Turn(i) \in Int
           /\ \A i \in 1 .. Length(s) : book[s].months[i] \in Months
           /\ \A months : IsFiniteSet(Dated(s, months)) /\ Dated(s, months) \subseteq 1 .. Length(s)
<1>1. s \in Sources /\ Chain(book[s])
  BY DEF PageInv, DocumentInv, BookInv, ChainsInv, Booked
<1>2. Length(s) \in Nat /\ \A i \in 1 .. Length(s) : book[s].months[i] \in Months
  <2>1. book[s].months \in Seq(Months)
    BY <1>1 DEF Chain
  <2>2. Len(book[s].months) \in Nat
    BY <2>1, LenProperties
  <2> QED
    BY <2>1, <2>2, ElementOfSeq DEF Length
<1>3. IsFiniteSet(1 .. Length(s))
  BY <1>2, FS_Interval
<1>4. \A months : Dated(s, months) \subseteq 1 .. Length(s)
  BY DEF Dated
<1>5. \A months : IsFiniteSet(Dated(s, months))
  BY <1>3, <1>4, FS_Subset
<1> QED
  BY <1>2, <1>3, <1>4, <1>5 DEF Turn

LEMMA ActivityIsEven ==
    ASSUME PageInv, NEW months
    PROVE  Even(Activity(months))
<1> DEFINE S == {x \in Booked : Dated(x, months) # {}}
           lines == [s \in S |-> Lines(s)]
           times == [s \in S |-> Sum([i \in Dated(s, months) |-> Turn(i)])]
           act == Activity(months)
<1>1. IsFiniteSet(S)
  BY LedgerAssumption, FS_Subset DEF Booked
<1>2. \A s \in S : Even(lines[s])
  BY LinesAreEven
<1>3. ASSUME NEW s \in S PROVE times[s] \in Int
  <2> DEFINE f == [i \in Dated(s, months) |-> Turn(i)]
  <2>1. IsFiniteSet(Dated(s, months)) /\ \A i \in Dated(s, months) : f[i] \in Int
    BY SourceFacts
  <2>2. times[s] = SumOver(f, Dated(s, months))
    BY DEF Sum
  <2> HIDE DEF f
  <2> QED
    BY <2>1, <2>2, SumInt
<1>4. DOMAIN act = UNION {DOMAIN lines[s] : s \in S}
  BY DEF Activity
<1>5. ASSUME NEW a \in DOMAIN act
      PROVE act[a] = Sum([s \in {x \in S : a \in DOMAIN lines[x]} |-> times[s] * lines[s][a]])
  BY DEF Activity
<1> HIDE DEF S, lines, times, act
<1>6. Even(act)
  BY <1>1, <1>2, <1>3, <1>4, <1>5, EvenColumns
<1> QED
  BY <1>6 DEF act

-----------------------------------------------------------------------------
(* What even accounts show *)

LEMMA TrialBalances ==
    ASSUME NEW act, Even(act)
    PROVE  TrialDebit(act) = TrialCredit(act)
<1> DEFINE A == DOMAIN act
           debits == [a \in A |-> Positive(act[a])]
           credits == [a \in A |-> Positive(-act[a])]
<1>1. \A a \in A : act[a] \in Int /\ credits[a] \in Int /\ debits[a] = act[a] + credits[a]
  BY DEF Even, Positive
<1>2. IsFiniteSet(A) /\ SumOver(act, A) = 0
  BY DEF Even
<1>3. TrialDebit(act) = SumOver(debits, A) /\ TrialCredit(act) = SumOver(credits, A)
  BY DEF TrialDebit, TrialCredit, Sum
<1> HIDE DEF A, debits, credits
<1>4. SumOver(debits, A) = SumOver(act, A) + SumOver(credits, A)
  BY <1>1, <1>2, SumAdds
<1>5. SumOver(credits, A) \in Int
  BY <1>1, <1>2, SumInt
<1> QED
  BY <1>2, <1>3, <1>4, <1>5

\* The natural balances of some accounts, as a column over all.
NaturalColumn(act) == [a \in DOMAIN act |-> Natural(act, a)]

LEMMA NaturalTotals ==
    ASSUME NEW act, Even(act), NEW X \in SUBSET DOMAIN act
    PROVE  /\ IsFiniteSet(X) /\ \A a \in X : NaturalColumn(act)[a] \in Int
           /\ TotalOf(act, X) = SumOver(NaturalColumn(act), X) /\ TotalOf(act, X) \in Int
<1> DEFINE f == NaturalColumn(act)
           g == [a \in X |-> Natural(act, a)]
<1>1. IsFiniteSet(X)
  BY FS_Subset DEF Even
<1>2. \A a \in X : f[a] \in Int /\ f[a] = g[a]
  BY DEF Even, Natural, NaturalColumn
<1>3. TotalOf(act, X) = SumOver(g, X)
  BY DEF TotalOf, Sum
<1> HIDE DEF f, g
<1>4. SumOver(f, X) = SumOver(g, X)
  BY <1>1, <1>2, SumAgrees
<1>5. SumOver(f, X) \in Int
  BY <1>1, <1>2, SumInt
<1> QED
  BY <1>1, <1>2, <1>3, <1>4, <1>5 DEF f

LEMMA TotalsApart ==
    ASSUME NEW act, Even(act), NEW P, NEW Q, P \cap Q = {}, P \cup Q \subseteq DOMAIN act
    PROVE  TotalOf(act, P \cup Q) = TotalOf(act, P) + TotalOf(act, Q)
<1> DEFINE S == P \cup Q
           f == NaturalColumn(act)
<1>1. P \in SUBSET DOMAIN act /\ Q \in SUBSET DOMAIN act /\ S \in SUBSET DOMAIN act
  OBVIOUS
<1>2. IsFiniteSet(S) /\ \A a \in S : f[a] \in Int
  BY <1>1, NaturalTotals
<1>3. TotalOf(act, S) = SumOver(f, S) /\ TotalOf(act, P) = SumOver(f, P) /\ TotalOf(act, Q) = SumOver(f, Q)
  BY <1>1, NaturalTotals
<1>4. P \cup Q = S
  OBVIOUS
<1> HIDE DEF S, f
<1>5. SumOver(f, S) = SumOver(f, P) + SumOver(f, Q)
  BY <1>2, <1>4, SumApart
<1> QED
  BY <1>3, <1>5 DEF S

LEMMA ExpensesSplit ==
    ASSUME NEW act, Even(act)
    PROVE  TotalOf(act, OfType(act, "expense"))
             = TotalOf(act, DOMAIN act \cap {"cogs"}) + TotalOf(act, OfType(act, "expense") \ {"cogs"})
<1> DEFINE P == DOMAIN act \cap {"cogs"}
           Q == OfType(act, "expense") \ {"cogs"}
<1>1. P \cap Q = {} /\ P \cup Q = OfType(act, "expense") /\ P \cup Q \subseteq DOMAIN act
  BY StatementsAssumption DEF OfType
<1> HIDE DEF P, Q
<1>2. TotalOf(act, P \cup Q) = TotalOf(act, P) + TotalOf(act, Q)
  BY <1>1, TotalsApart
<1> QED
  BY <1>1, <1>2 DEF P, Q

LEMMA ProfitsAgree ==
    ASSUME NEW act, Even(act)
    PROVE  OverviewProfit(act) = NetProfit(act)
<1>1. /\ TotalOf(act, OfType(act, "revenue") \cap Normal(act, "credit")) \in Int
      /\ TotalOf(act, OfType(act, "revenue") \cap Normal(act, "debit")) \in Int
      /\ TotalOf(act, DOMAIN act \cap {"cogs"}) \in Int
      /\ TotalOf(act, OfType(act, "expense") \ {"cogs"}) \in Int
  BY NaturalTotals DEF OfType
<1>2. NetRevenue(act) \in Int
  BY <1>1 DEF NetRevenue
<1> QED
  BY <1>1, <1>2, ExpensesSplit DEF OverviewProfit, NetProfit

LEMMA SheetDifference ==
    ASSUME NEW act, Even(act)
    PROVE  EquationDifference(act) = -2 * Sum([a \in Contra(act) |-> act[a]])
<1> DEFINE A == DOMAIN act
           T(t) == OfType(act, t)
           Given == T("revenue") \cap Normal(act, "credit")
           Taken == T("revenue") \cap Normal(act, "debit")
           Up == T("asset") \cup T("expense") \cup Taken
           Down == T("liability") \cup T("equity") \cup Given
           C == Contra(act)
           nat == NaturalColumn(act)
           signed == [a \in A |-> IF a \in Up THEN nat[a] ELSE -nat[a]]
           twice == [a \in A |-> IF a \in C THEN -2 * act[a] ELSE 0]
           contra == [a \in C |-> act[a]]
<1>0. IsFiniteSet(A) /\ A \subseteq DOMAIN Chart /\ SumOver(act, A) = 0 /\ \A a \in A : act[a] \in Int
  BY DEF Even
<1>1. /\ Up \in SUBSET A /\ Down \in SUBSET A /\ A \ Up = Down
      /\ C \in SUBSET A /\ IsFiniteSet(C) /\ IsFiniteSet(Down) /\ IsFiniteSet(Up)
  <2>1. Up \in SUBSET A /\ Down \in SUBSET A /\ C \in SUBSET A
    BY DEF OfType, Normal, Contra
  <2>2. A \ Up = Down
    <3>1. \A a \in A : /\ Chart[a].type \in {"asset", "liability", "equity", "revenue", "expense"}
                       /\ Chart[a].normal \in {"debit", "credit"}
      BY <1>0, StatementsAssumption
    <3>2. ASSUME NEW a \in A PROVE a \notin Up <=> a \in Down
      BY <3>1 DEF OfType, Normal
    <3> QED
      BY <2>1, <3>2
  <2> QED
    BY <1>0, <2>1, <2>2, FS_Subset
<1>2. TotalOf(act, Up) = TotalOf(act, T("asset")) + TotalOf(act, T("expense")) + TotalOf(act, Taken)
  <2>1. (T("asset") \cup T("expense")) \cap Taken = {} /\ Up \subseteq A /\ T("asset") \cap T("expense") = {}
    BY <1>1 DEF OfType
  <2> DEFINE both == T("asset") \cup T("expense")
  <2>2. TotalOf(act, Up) = TotalOf(act, both) + TotalOf(act, Taken)
    BY <2>1, TotalsApart
  <2>3. TotalOf(act, both) = TotalOf(act, T("asset")) + TotalOf(act, T("expense"))
    BY <2>1, TotalsApart
  <2> QED
    BY <2>2, <2>3
<1>3. TotalOf(act, Down) = TotalOf(act, T("liability")) + TotalOf(act, T("equity")) + TotalOf(act, Given)
  <2>1. (T("liability") \cup T("equity")) \cap Given = {} /\ Down \subseteq A /\ T("liability") \cap T("equity") = {}
    BY <1>1 DEF OfType
  <2> DEFINE both == T("liability") \cup T("equity")
  <2>2. TotalOf(act, Down) = TotalOf(act, both) + TotalOf(act, Given)
    BY <2>1, TotalsApart
  <2>3. TotalOf(act, both) = TotalOf(act, T("liability")) + TotalOf(act, T("equity"))
    BY <2>1, TotalsApart
  <2> QED
    BY <2>2, <2>3
<1>4. /\ TotalOf(act, T("asset")) \in Int /\ TotalOf(act, T("liability")) \in Int
      /\ TotalOf(act, T("equity")) \in Int /\ TotalOf(act, T("expense")) \in Int
      /\ TotalOf(act, Given) \in Int /\ TotalOf(act, Taken) \in Int
      /\ TotalOf(act, A \cap {"cogs"}) \in Int /\ TotalOf(act, T("expense") \ {"cogs"}) \in Int
  BY NaturalTotals DEF OfType
<1>5. EquationDifference(act) = TotalOf(act, Up) - TotalOf(act, Down)
  <2>1. TotalOf(act, T("expense")) = TotalOf(act, A \cap {"cogs"}) + TotalOf(act, T("expense") \ {"cogs"})
    BY ExpensesSplit
  <2>2. EquationDifference(act)
          = TotalOf(act, T("asset")) - TotalOf(act, T("liability"))
              - (TotalOf(act, T("equity"))
                    + (TotalOf(act, Given) - TotalOf(act, Taken) - TotalOf(act, A \cap {"cogs"})
                          - TotalOf(act, T("expense") \ {"cogs"})))
    BY DEF EquationDifference, NetProfit, NetRevenue
  <2> HIDE DEF Up, Down, Given, Taken, T, A
  <2> QED
    BY <1>2, <1>3, <1>4, <2>1, <2>2
<1>6. TotalOf(act, Up) = SumOver(nat, Up) /\ TotalOf(act, Down) = SumOver(nat, Down)
      /\ SumOver(nat, Up) \in Int /\ SumOver(nat, Down) \in Int
  BY <1>1, NaturalTotals
<1>7. \A a \in A : nat[a] \in Int /\ signed[a] \in Int /\ twice[a] \in Int
  BY <1>0 DEF NaturalColumn, Natural
<1>8. \A a \in A : signed[a] = act[a] + twice[a]
  <2> SUFFICES ASSUME NEW a \in A PROVE signed[a] = act[a] + twice[a]
    OBVIOUS
  <2>1. /\ Chart[a].type \in {"asset", "liability", "equity", "revenue", "expense"}
        /\ Chart[a].normal \in {"debit", "credit"} /\ act[a] \in Int
    BY <1>0, StatementsAssumption
  <2>2. nat[a] = IF Chart[a].normal = "debit" THEN act[a] ELSE -act[a]
    BY DEF NaturalColumn, Natural
  <2>3. a \in Up <=> \/ Chart[a].type \in {"asset", "expense"}
                     \/ Chart[a].type = "revenue" /\ Chart[a].normal = "debit"
    BY DEF OfType, Normal
  <2>4. a \in C <=> \/ Chart[a].type \in {"asset", "expense"} /\ Chart[a].normal = "credit"
                    \/ Chart[a].type \in {"liability", "equity"} /\ Chart[a].normal = "debit"
    BY DEF OfType, Normal, Contra
  <2>5. signed[a] = (IF a \in Up THEN nat[a] ELSE -nat[a]) /\ twice[a] = (IF a \in C THEN -2 * act[a] ELSE 0)
    OBVIOUS
  <2> HIDE DEF Up, C, nat, signed, twice
  <2> QED
    BY <2>1, <2>2, <2>3, <2>4, <2>5
<1>9. SumOver(nat, Up) - SumOver(nat, Down) = SumOver(signed, A)
  <2>1. \A a \in Up : nat[a] = signed[a]
    BY <1>1
  <2>0. PICK n \in Int : n = -1
    OBVIOUS
  <2>2. \A a \in Down : nat[a] \in Int /\ signed[a] = n * nat[a]
    <3>1. \A x \in Int : n * x = -x
      BY <2>0
    <3> QED
      BY <1>1, <1>7, <3>1
  <2> HIDE DEF Up, Down, nat, signed, A
  <2>3. SumOver(nat, Up) = SumOver(signed, Up)
    BY <1>1, <2>1, SumAgrees
  <2>4. SumOver(signed, Down) = n * SumOver(nat, Down)
    BY <1>1, <2>2, SumScales
  <2>5. SumOver(signed, A) = SumOver(signed, Up) + SumOver(signed, A \ Up)
    BY <1>0, <1>1, <1>7, SumJoins
  <2>6. SumOver(nat, Up) \in Int /\ SumOver(nat, Down) \in Int
    BY <1>6
  <2> QED
    BY <1>1, <2>0, <2>3, <2>4, <2>5, <2>6
<1>10. SumOver(twice, A) = -2 * SumOver(contra, C)
  <2>0. PICK n \in Int : n = -2
    OBVIOUS
  <2>1. \A a \in C : contra[a] \in Int /\ twice[a] = n * contra[a]
    BY <1>0, <1>1, <2>0
  <2>2. \A a \in A \ C : twice[a] = 0
    OBVIOUS
  <2> HIDE DEF twice, contra, C, A
  <2>4. SumOver(twice, A) = SumOver(twice, C)
    BY <1>0, <1>1, <1>7, <2>2, SumSkips
  <2>5. SumOver(twice, C) = n * SumOver(contra, C)
    BY <1>1, <2>1, SumScales
  <2>6. SumOver(contra, C) \in Int
    BY <1>1, <2>1, SumInt
  <2>7. n * SumOver(contra, C) = -2 * SumOver(contra, C)
    BY <2>0, <2>6
  <2> QED
    BY <2>4, <2>5, <2>7
<1>11. Sum([a \in Contra(act) |-> act[a]]) = SumOver(contra, C)
  BY DEF Sum
<1> HIDE DEF A, Up, Down, C, nat, signed, twice, contra
<1>12. SumOver(signed, A) = SumOver(act, A) + SumOver(twice, A)
  BY <1>0, <1>7, <1>8, SumAdds
<1>13. SumOver(twice, A) \in Int
  BY <1>0, <1>7, SumInt
<1> QED
  BY <1>0, <1>5, <1>6, <1>9, <1>10, <1>11, <1>12, <1>13

-----------------------------------------------------------------------------
(* Cash flow *)

Sections == {"Operating", "Investing", "Financing"}

\* The cash lines of the journals of a source, as a column.
CashColumn(s) == [i \in 1 .. Length(s) |-> CashNet(s, i)]

LEMMA CashFacts ==
    ASSUME PageInv, NEW s \in CashSources
    PROVE  /\ s \in Booked /\ \A i \in 1 .. Length(s) : CashColumn(s)[i] \in Int
           /\ \A R \in SUBSET (1 .. Length(s)) :
                  /\ IsFiniteSet(R) /\ SumOver(CashColumn(s), R) \in Int
                  /\ Sum([i \in R |-> CashNet(s, i)]) = SumOver(CashColumn(s), R)
<1>1. s \in Booked /\ IsFiniteSet(1 .. Length(s)) /\ \A i : Turn(i) \in Int
  BY SourceFacts DEF CashSources
<1>2. ASSUME NEW i \in 1 .. Length(s) PROVE CashColumn(s)[i] \in Int
  <2> DEFINE X == CashAccounts \cap DOMAIN Lines(s)
             f == [a \in X |-> Lines(s)[a]]
  <2>1. Even(Lines(s))
    BY <1>1, LinesAreEven
  <2>2. IsFiniteSet(X) /\ \A a \in X : f[a] \in Int
    BY <2>1, FS_Subset DEF Even
  <2>3. CashNet(s, i) = Turn(i) * SumOver(f, X)
    BY DEF CashNet, Sum
  <2> HIDE DEF X, f
  <2>4. SumOver(f, X) \in Int
    BY <2>2, SumInt
  <2>5. CashNet(s, i) \in Int
    BY <1>1, <2>3, <2>4
  <2> QED
    BY <2>5 DEF CashColumn
<1>3. ASSUME NEW R \in SUBSET (1 .. Length(s))
      PROVE  /\ IsFiniteSet(R) /\ SumOver(CashColumn(s), R) \in Int
             /\ Sum([i \in R |-> CashNet(s, i)]) = SumOver(CashColumn(s), R)
  <2> DEFINE f == [i \in R |-> CashNet(s, i)]
             g == CashColumn(s)
  <2>1. IsFiniteSet(R)
    BY <1>1, FS_Subset
  <2>2. \A i \in R : f[i] = g[i] /\ g[i] \in Int
    BY <1>2 DEF CashColumn
  <2>3. Sum(f) = SumOver(f, R)
    BY DEF Sum
  <2> HIDE DEF f, g
  <2>4. SumOver(f, R) = SumOver(g, R)
    BY <2>1, <2>2, SumAgrees
  <2>5. SumOver(g, R) \in Int
    BY <2>1, <2>2, SumInt
  <2> QED
    BY <2>1, <2>3, <2>4, <2>5 DEF f, g
<1> QED
  BY <1>1, <1>2, <1>3

\* What a source moves in the months lo to hi, by section, and up to then.
InSection(s, c, lo, hi) == {j \in Dated(s, lo .. hi) : CashFlowCategory(s, j) = c}

LEMMA SectionsOfOne ==
    ASSUME PageInv, NEW s \in CashSources, NEW lo \in Months, NEW hi \in Months, lo <= hi
    PROVE  SumOver(CashColumn(s), Dated(s, 1 .. hi))
             = SumOver(CashColumn(s), Dated(s, 1 .. lo - 1))
                 + (SumOver(CashColumn(s), InSection(s, "Operating", lo, hi))
                      + (SumOver(CashColumn(s), InSection(s, "Investing", lo, hi))
                           + SumOver(CashColumn(s), InSection(s, "Financing", lo, hi))))
<1> DEFINE f == CashColumn(s)
           all == Dated(s, 1 .. hi)
           before == Dated(s, 1 .. lo - 1)
           now == Dated(s, lo .. hi)
           O == InSection(s, "Operating", lo, hi)
           I == InSection(s, "Investing", lo, hi)
           F == InSection(s, "Financing", lo, hi)
<1>1. lo \in Nat \ {0} /\ hi \in Nat \ {0}
  BY StatementsAssumption
<1>2. all \subseteq 1 .. Length(s) /\ now \subseteq 1 .. Length(s) /\ before \subseteq 1 .. Length(s)
  BY DEF Dated
<1>3. before \cap now = {} /\ before \cup now = all
  <2>1. \A m : m \in 1 .. hi <=> m \in 1 .. lo - 1 \/ m \in lo .. hi
    BY <1>1
  <2>2. \A m : ~ (m \in 1 .. lo - 1 /\ m \in lo .. hi)
    BY <1>1
  <2> QED
    BY <2>1, <2>2 DEF Dated
<1>4. O \cap (I \cup F) = {} /\ I \cap F = {} /\ O \cup (I \cup F) = now
  <2>1. \A j : CashFlowCategory(s, j) \in Sections
    BY DEF CashFlowCategory, Sections
  <2> QED
    BY <2>1 DEF InSection, Sections
<1>5. \A R \in SUBSET (1 .. Length(s)) : IsFiniteSet(R) /\ \A i \in R : f[i] \in Int
  BY CashFacts
<1> HIDE DEF f, all, before, now, O, I, F
<1>6. I \cup F \subseteq 1 .. Length(s)
  BY <1>2, <1>4
<1>7. SumOver(f, all) = SumOver(f, before) + SumOver(f, now)
  <2>1. IsFiniteSet(all) /\ \A i \in all : f[i] \in Int
    BY <1>2, <1>5
  <2> QED
    BY <1>3, <2>1, SumApart
<1>8. SumOver(f, now) = SumOver(f, O) + SumOver(f, I \cup F)
  <2>1. IsFiniteSet(now) /\ \A i \in now : f[i] \in Int
    BY <1>2, <1>5
  <2> QED
    BY <1>4, <2>1, SumApart
<1>9. SumOver(f, I \cup F) = SumOver(f, I) + SumOver(f, F)
  <2>1. IsFiniteSet(I \cup F) /\ \A i \in I \cup F : f[i] \in Int
    BY <1>5, <1>6
  <2> QED
    BY <1>4, <2>1, SumApart
<1>10. SumOver(f, all) = SumOver(f, before) + (SumOver(f, O) + (SumOver(f, I) + SumOver(f, F)))
  BY <1>7, <1>8, <1>9
<1> QED
  BY <1>10 DEF f, all, before, O, I, F

LEMMA SumOfThree ==
    ASSUME NEW f, f["Operating"] \in Int, f["Investing"] \in Int, f["Financing"] \in Int
    PROVE  SumOver(f, Sections) = f["Operating"] + (f["Investing"] + f["Financing"])
<1> DEFINE two == {"Investing", "Financing"}
<1>1. Sections \ {"Operating"} = two /\ "Operating" \in Sections
  BY DEF Sections
<1>2. \A c \in Sections : f[c] \in Int
  BY DEF Sections
<1>3. IsFiniteSet(Sections)
  <2>1. Sections = {"Operating"} \cup two
    BY DEF Sections
  <2>2. IsFiniteSet({"Operating"}) /\ IsFiniteSet(two)
    BY TwoAreFinite
  <2> HIDE DEF two
  <2> QED
    BY <2>1, <2>2, FS_Union
<1>4. SumOver(f, two) = f["Investing"] + f["Financing"]
  BY SumOfTwo
<1> HIDE DEF two
<1>5. SumOver(f, Sections) = f["Operating"] + SumOver(f, Sections \ {"Operating"})
  BY <1>1, <1>2, <1>3, SumTakes
<1> QED
  BY <1>1, <1>4, <1>5

LEMMA CashReconciles ==
    ASSUME PageInv, NEW lo \in Months, NEW hi \in Months, lo <= hi
    PROVE  ReconciliationDifference(lo, hi) = 0
<1> DEFINE S == CashSources
           Col(s) == CashColumn(s)
           after == [s \in S |-> SumOver(CashColumn(s), Dated(s, 1 .. hi))]
           before == [s \in S |-> SumOver(CashColumn(s), Dated(s, 1 .. lo - 1))]
           part(c) == [s \in S |-> SumOver(CashColumn(s), InSection(s, c, lo, hi))]
           o == part("Operating")
           i == part("Investing")
           f == part("Financing")
           rest == [s \in S |-> i[s] + f[s]]
           moved == [s \in S |-> o[s] + rest[s]]
<1>1. IsFiniteSet(S)
  BY LedgerAssumption, FS_Subset DEF CashSources, Booked
<1>2. \A s \in S : \A c : InSection(s, c, lo, hi) \subseteq 1 .. Length(s)
  BY DEF InSection, Dated
<1>3. \A s \in S : \A months : Dated(s, months) \subseteq 1 .. Length(s)
  BY DEF Dated
<1>4. \A s \in S : /\ after[s] \in Int /\ before[s] \in Int /\ o[s] \in Int /\ i[s] \in Int /\ f[s] \in Int
  BY <1>2, <1>3, CashFacts
<1>5. ASSUME NEW months PROVE [s \in S |-> Sum([j \in Dated(s, months) |-> CashNet(s, j)])]
                                = [s \in S |-> SumOver(CashColumn(s), Dated(s, months))]
  <2>1. ASSUME NEW s \in S
        PROVE Sum([j \in Dated(s, months) |-> CashNet(s, j)]) = SumOver(CashColumn(s), Dated(s, months))
    BY <1>3, CashFacts
  <2> QED
    BY <2>1
<1>6. ASSUME NEW months
      PROVE  CashBalance(months) = SumOver([s \in S |-> SumOver(CashColumn(s), Dated(s, months))], S)
  BY <1>5 DEF CashBalance, Sum
<1>7. CashBalance(1 .. hi) = SumOver(after, S) /\ CashBalance(1 .. lo - 1) = SumOver(before, S)
  BY <1>6
<1>8. ASSUME NEW c PROVE CashFlow(c, lo .. hi) = SumOver(part(c), S)
  <2> DEFINE R(s) == {j \in Dated(s, lo .. hi) : CashFlowCategory(s, j) = c}
  <2>1. ASSUME NEW s \in S
        PROVE Sum([j \in R(s) |-> CashNet(s, j)]) = SumOver(CashColumn(s), R(s))
    <3>1. R(s) \subseteq 1 .. Length(s)
      BY DEF Dated
    <3> QED
      BY <3>1, CashFacts
  <2>2. [s \in S |-> Sum([j \in R(s) |-> CashNet(s, j)])] = part(c)
    BY <2>1 DEF InSection
  <2>3. CashFlow(c, lo .. hi) = Sum([s \in S |-> Sum([j \in R(s) |-> CashNet(s, j)])])
    BY DEF CashFlow
  <2> QED
    BY <2>2, <2>3 DEF Sum
<1>9. \A s \in S : rest[s] \in Int /\ rest[s] = i[s] + f[s] /\ moved[s] \in Int /\ moved[s] = o[s] + rest[s]
  BY <1>4
<1>10. \A s \in S : after[s] = before[s] + moved[s]
  <2> SUFFICES ASSUME NEW s \in S PROVE after[s] = before[s] + moved[s]
    OBVIOUS
  <2>1. after[s] = before[s] + (o[s] + (i[s] + f[s]))
    BY SectionsOfOne
  <2> QED
    BY <2>1
<1>11. CashFlow("Operating", lo .. hi) = SumOver(o, S) /\ CashFlow("Investing", lo .. hi) = SumOver(i, S)
       /\ CashFlow("Financing", lo .. hi) = SumOver(f, S)
  BY <1>8
<1> HIDE DEF S, after, before, o, i, f, rest, moved, part
<1>12. SumOver(after, S) = SumOver(before, S) + SumOver(moved, S)
  BY <1>1, <1>4, <1>9, <1>10, SumAdds
<1>13. SumOver(moved, S) = SumOver(o, S) + SumOver(rest, S)
  BY <1>1, <1>4, <1>9, SumAdds
<1>14. SumOver(rest, S) = SumOver(i, S) + SumOver(f, S)
  BY <1>1, <1>4, <1>9, SumAdds
<1>15. SumOver(o, S) \in Int /\ SumOver(i, S) \in Int /\ SumOver(f, S) \in Int /\ SumOver(before, S) \in Int
  BY <1>1, <1>4, SumInt
<1>16. Sum([c \in Sections |-> CashFlow(c, lo .. hi)]) = SumOver(o, S) + (SumOver(i, S) + SumOver(f, S))
  <2> DEFINE t == [c \in Sections |-> CashFlow(c, lo .. hi)]
  <2>1. t["Operating"] = SumOver(o, S) /\ t["Investing"] = SumOver(i, S) /\ t["Financing"] = SumOver(f, S)
    BY <1>11 DEF Sections
  <2>2. Sum(t) = SumOver(t, Sections)
    BY DEF Sum
  <2> HIDE DEF t
  <2>3. SumOver(t, Sections) = t["Operating"] + (t["Investing"] + t["Financing"])
    BY <1>15, <2>1, SumOfThree
  <2> QED
    BY <2>1, <2>2, <2>3 DEF t
<1>17. ReconciliationDifference(lo, hi)
         = CashBalance(1 .. lo - 1) + Sum([c \in Sections |-> CashFlow(c, lo .. hi)]) - CashBalance(1 .. hi)
  BY DEF ReconciliationDifference, Sections
<1> QED
  BY <1>7, <1>12, <1>13, <1>14, <1>15, <1>16, <1>17

\* The financial statements, of any journals posted, reversed and reversed again over
\* any months: the trial balance is even, the two profits are one, the balance sheet is
\* off by its contra accounts only, and the cash flow reconciles.
THEOREM StatementsAreTrue == BookSpec => []StatementsAgree
<1>1. PageInv => StatementsAgree
  <2> SUFFICES ASSUME PageInv PROVE StatementsAgree
    OBVIOUS
  <2>1. \A lo, hi \in Months : lo <= hi => ReconciliationDifference(lo, hi) = 0
    BY CashReconciles
  <2>2. ASSUME NEW m \in Months
        PROVE  /\ TrialDebit(Activity(1 .. m)) = TrialCredit(Activity(1 .. m))
               /\ OverviewProfit(Activity(1 .. m)) = NetProfit(Activity(1 .. m))
               /\ EquationDifference(Activity(1 .. m))
                    = -2 * Sum([a \in Contra(Activity(1 .. m)) |-> Activity(1 .. m)[a]])
    <3> DEFINE act == Activity(1 .. m)
    <3>1. Even(act)
      BY ActivityIsEven
    <3> HIDE DEF act
    <3>2. /\ TrialDebit(act) = TrialCredit(act)
          /\ OverviewProfit(act) = NetProfit(act)
          /\ EquationDifference(act) = -2 * Sum([a \in Contra(act) |-> act[a]])
      BY <3>1, TrialBalances, ProfitsAgree, SheetDifference
    <3> QED
      BY <3>2 DEF act
  <2> QED
    BY <2>1, <2>2 DEF StatementsAgree
<1> QED
  BY <1>1, PagesStart, PagesStep, PTL DEF BookSpec
=============================================================================
