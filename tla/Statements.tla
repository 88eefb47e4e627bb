----------------------------- MODULE Statements ------------------------------
(***************************************************************************)
(* The financial statements, reports/financial.py, and the figures of the  *)
(* accounts page, account_balance, trial_balance and accounting_summary of *)
(* accounting/services.py, computed from the journals of Books.            *)
(*                                                                         *)
(* An account added by hand takes any type with any normal balance.  The   *)
(* statements add the natural balances of a type, so an asset with a       *)
(* credit balance is added where it should be taken off; only revenue      *)
(* tells its contra accounts apart.                                        *)
(***************************************************************************)
EXTENDS Books

CONSTANTS
    Chart,          \* Chart[a]: type and normal balance of account a
    Incomes,        \* cashbook entries that are income, the others being expenses
    ManualLines     \* ManualLines[s]: the accounts journal s debits and credits

\* Accounts of the journals that the services post, SYSTEM_ACCOUNTS.
SystemAccounts ==
    {"cash", "receivable", "other_receivable", "inventory", "payable", "other_payable", "sales",
     "sales_returns", "shipping_revenue", "other_income", "cogs", "other_expense"}

ASSUME StatementsAssumption ==
    /\ Months \subseteq Nat \ {0}
    /\ \A a \in DOMAIN Chart :
          /\ Chart[a].type \in {"asset", "liability", "equity", "revenue", "expense"}
          /\ Chart[a].normal \in {"debit", "credit"}
    /\ SystemAccounts \subseteq DOMAIN Chart
    /\ Chart["cogs"].type = "expense"
    /\ \A s \in Manuals :
          s[1] = "manual" /\ {ManualLines[s].debit, ManualLines[s].credit} \subseteq DOMAIN Chart

\* CASH_EQUIVALENT_CODES
CashAccounts == {"cash", "bank"}

Pair(debit, credit, a) ==
    [x \in {debit, credit} |-> (IF x = debit THEN a ELSE 0) - (IF x = credit THEN a ELSE 0)]

CashbookLines(s) ==
    LET a == book[s].amount IN
    CASE s[2] \in Incomes /\ s[3] = 0 -> Pair("other_receivable", "other_income", a)
      [] s[2] \in Incomes /\ s[3] > 0 -> Pair("cash", "other_receivable", a)
      [] s[2] \notin Incomes /\ s[3] = 0 -> Pair("other_expense", "other_payable", a)
      [] OTHER -> Pair("other_payable", "cash", a)

\* The lines of the first journal of a source, debits positive.
Lines(s) ==
    LET a == book[s].amount IN
    CASE s[1] = "manual"   -> Pair(ManualLines[s].debit, ManualLines[s].credit, a)
      [] s[1] = "expense"  -> Pair("other_expense", "cash", a)
      [] s[1] = "entry"    -> CashbookLines(s)
      [] s[1] = "arrival"  -> Pair("inventory", "payable", a)
      [] s[1] = "sendback" -> Pair("payable", "inventory", a)
      [] s[1] = "revenue"  -> [receivable       |-> a,
                               sales            |-> -ProductRevenue(s[2]),
                               shipping_revenue |-> -Terms[s[2]].shipping]
      [] s[1] = "cost"     -> Pair("cogs", "inventory", a)
      [] s[1] = "payment"  -> IF s[3] = 0 THEN Pair("cash", "receivable", a)
                              ELSE Pair("receivable", "cash", a)
      [] s[1] = "credit"   -> Pair("sales_returns", "receivable", a)
      [] OTHER             -> Pair("inventory", "cogs", a)

\* Each reversal swaps the lines of the journal before it.
Turn(i) == IF i % 2 = 1 THEN 1 ELSE -1

Dated(s, months) == {i \in 1 .. Length(s) : book[s].months[i] \in months}

\* account_activity, debits less credits of POSTED and REVERSED journals, of the
\* accounts that have a line.
Activity(months) ==
    LET lines == [s \in {x \in Booked : Dated(x, months) # {}} |-> Lines(s)]
        times == [s \in DOMAIN lines |-> Sum([i \in Dated(s, months) |-> Turn(i)])]
    IN [a \in UNION {DOMAIN lines[s] : s \in DOMAIN lines} |->
           Sum([s \in {x \in DOMAIN lines : a \in DOMAIN lines[x]} |-> times[s] * lines[s][a]])]

\* natural of _account_activity_map, and account_balance.
Natural(act, a) == IF Chart[a].normal = "debit" THEN act[a] ELSE -act[a]

OfType(act, t) == {a \in DOMAIN act : Chart[a].type = t}
Normal(act, n) == {a \in DOMAIN act : Chart[a].normal = n}
TotalOf(act, accounts) == Sum([a \in accounts |-> Natural(act, a)])

\* Slip: sales returns are added to the revenue.
NetRevenueGross(act) == TotalOf(act, OfType(act, "revenue"))

\* _pnl_components
NetRevenue(act) ==
    TotalOf(act, OfType(act, "revenue") \cap Normal(act, "credit"))
        - TotalOf(act, OfType(act, "revenue") \cap Normal(act, "debit"))
NetProfit(act) ==
    NetRevenue(act) - TotalOf(act, DOMAIN act \cap {"cogs"})
        - TotalOf(act, OfType(act, "expense") \ {"cogs"})

\* equation_difference of _balance_sheet_report
EquationDifference(act) ==
    TotalOf(act, OfType(act, "asset")) - TotalOf(act, OfType(act, "liability"))
        - (TotalOf(act, OfType(act, "equity")) + NetProfit(act))

\* accounting_summary
OverviewProfit(act) == NetRevenue(act) - TotalOf(act, OfType(act, "expense"))

\* trial_balance
TrialDebit(act) == Sum([a \in DOMAIN act |-> Positive(act[a])])
TrialCredit(act) == Sum([a \in DOMAIN act |-> Positive(-act[a])])

-----------------------------------------------------------------------------
(* Cash flow *)

\* Sources with a cash line.
CashSources == {s \in Booked : DOMAIN Lines(s) \cap CashAccounts # {}}

\* The net of the cash lines of the i-th journal of a source.
CashNet(s, i) ==
    LET lines == Lines(s) IN Turn(i) * Sum([a \in CashAccounts \cap DOMAIN lines |-> lines[a]])

\* Slip: the balance reads POSTED journals only.
CashBalancePosted(months) ==
    Sum([s \in {x \in CashSources : Length(x) \in Dated(x, months)} |-> CashNet(s, Length(s))])

\* _cash_balance
CashBalance(months) ==
    Sum([s \in CashSources |-> Sum([i \in Dated(s, months) |-> CashNet(s, i)])])

\* _effective_source: the source of the journal a reversal reverses, which is
\* a reversal itself from the third journal on.
EffectiveSource(s, i) == IF i <= 2 THEN s[1] ELSE "reversal"

\* _cash_flow_category
CashFlowCategory(s, i) ==
    LET source  == EffectiveSource(s, i)
        noncash == DOMAIN Lines(s) \ CashAccounts
    IN IF source # "manual" THEN "Operating"
       ELSE IF \E a \in noncash : Chart[a].type \in {"equity", "liability"} THEN "Financing"
       ELSE IF \E a \in noncash : Chart[a].type = "asset" /\ a \notin {"receivable", "inventory"}
            THEN "Investing"
       ELSE "Operating"

\* totals of _cash_flow_report
CashFlow(category, months) ==
    Sum([s \in CashSources |->
            Sum([i \in {j \in Dated(s, months) : CashFlowCategory(s, j) = category} |->
                    CashNet(s, i)])])

\* reconciliation_difference, of the months lo to hi.
ReconciliationDifference(lo, hi) ==
    CashBalance(1 .. lo - 1)
        + Sum([c \in {"Operating", "Investing", "Financing"} |-> CashFlow(c, lo .. hi)])
        - CashBalance(1 .. hi)

-----------------------------------------------------------------------------
(* Properties *)

\* Accounts whose normal balance is against their type.
Contra(act) ==
    ((OfType(act, "asset") \cup OfType(act, "expense")) \cap Normal(act, "credit"))
        \cup ((OfType(act, "liability") \cup OfType(act, "equity")) \cap Normal(act, "debit"))

\* As of any month, whatever journals are posted, reversed and reversed again: debits
\* and credits of the trial balance agree, the profit of the accounts page is that of
\* the profit and loss statement, and the only thing that keeps the balance sheet
\* from balancing is a contra account, by twice its balance and no more.  Over any
\* range of months the three sections of the cash flow lead from the opening cash to
\* the closing cash: "the amount must remain zero when all cash-equivalent GL movements
\* are included" (REPORTS_PHASE.md:140).
StatementsAgree ==
    /\ \A lo, hi \in Months : lo <= hi => ReconciliationDifference(lo, hi) = 0
    /\ \A m \in Months :
          LET act == Activity(1 .. m) IN
          /\ TrialDebit(act) = TrialCredit(act)
          /\ OverviewProfit(act) = NetProfit(act)
          /\ EquationDifference(act) = -2 * Sum([a \in Contra(act) |-> act[a]])

\* "Assets - Liabilities - Equity - Cumulative Earnings = 0"
\* (REPORTS_PHASE.md:105).
EquationHolds == \A m \in Months : EquationDifference(Activity(1 .. m)) = 0
=============================================================================
