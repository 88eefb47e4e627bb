CONSTANTS
    Slots = {1, 2}
    MaxAmount = 3
SPECIFICATION FormSpec
INVARIANTS
    NetIsRefundable
    CacheMatchesLedger
    StatusSaysPaid
PROPERTY SingleSourceExact
CHECK_DEADLOCK FALSE
