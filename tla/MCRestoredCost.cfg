CONSTANTS
    Months <- MCMonths
    Sources <- MCSources
    Manuals <- MCManuals
    MaxReversals = 2
    MaxJournals = 6
    MaxDocuments = 1
    Expenses <- MCExpenses
    Entries <- MCEntries
    MaxAmount = 2
    MaxSettlements = 2
    Lots <- MCLots
    LotQuantity <- MCLotQuantity
    LotCost <- MCLotCost
    Orders <- MCOrders
    DateOf <- MCDateOf
    Terms <- MCTerms
    Receipts <- MCReceipts
    OrderOf <- MCOrderOf
    Returns <- MCReturns
    ReturnOf <- MCReturnOf
    Chart <- MCChart
    Incomes <- MCIncomes
    ManualLines <- MCManualLines
SPECIFICATION BookSpec
INVARIANT RecognizedCostRestored
