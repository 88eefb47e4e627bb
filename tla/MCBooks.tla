------------------------------- MODULE MCBooks -------------------------------
(* Two months; one document of every kind in use at a time: an expense, a
   cashbook entry, a journal typed in by hand, or an order of two units with its
   payments or with the lots it is costed from and its return.  The second
   order has a discount above its subtotal and can never be completed. *)
EXTENDS SalesReport

MCMonths == {1, 2}
MCManuals == {<<"manual", j, 0>> : j \in {"j1", "j2", "j3"}}
MCManualLines ==
    (<<"manual", "j1", 0>> :> [debit |-> "cash", credit |-> "capital"])
        @@ (<<"manual", "j2", 0>> :> [debit |-> "equipment", credit |-> "cash"])
        @@ (<<"manual", "j3", 0>> :> [debit |-> "other_expense", credit |-> "depreciation"])
MCChart ==
    LET Named(names, t, n) == [a \in names |-> [type |-> t, normal |-> n]] IN
    Named({"cash", "bank", "receivable", "other_receivable", "inventory", "equipment"},
          "asset", "debit")
        @@ Named({"depreciation"}, "asset", "credit")
        @@ Named({"payable", "other_payable"}, "liability", "credit")
        @@ Named({"capital"}, "equity", "credit")
        @@ Named({"sales", "shipping_revenue", "other_income"}, "revenue", "credit")
        @@ Named({"sales_returns"}, "revenue", "debit")
        @@ Named({"cogs", "other_expense"}, "expense", "debit")
MCIncomes == {"c1"}
MCExpenses == {"e1"}
MCEntries == {"c1"}
MCLots == {"d1", "d2"}
MCLotQuantity == ("d1" :> 1) @@ ("d2" :> 2)
MCLotCost == ("d1" :> 1) @@ ("d2" :> 2)
MCOrders == {"o1", "o2"}
MCDateOf == [o \in MCOrders |-> 1]
MCTerms ==
    ("o1" :> [units |-> 2, subtotal |-> 2, discount |-> 0, shipping |-> 0])
        @@ ("o2" :> [units |-> 1, subtotal |-> 1, discount |-> 2, shipping |-> 2])
MCReceipts == {"p1", "p2"}
MCOrderOf == [p \in MCReceipts |-> "o1"]
MCReturns == {"r1"}
MCReturnOf == [r \in MCReturns |-> "o1"]
MCSources ==
    MCManuals \cup ({"expense"} \X MCExpenses) \cup ({"entry"} \X MCEntries \X (0 .. 2))
        \cup ({"arrival", "sendback"} \X MCLots \X {0})
        \cup ({"revenue", "cost"} \X MCOrders \X {0})
        \cup ({"payment"} \X MCReceipts \X {0, 1})
        \cup ({"credit", "restock"} \X MCReturns \X {0})
=============================================================================
