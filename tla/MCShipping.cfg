CONSTANTS
    Slots <- MCSlots
    MaxAmount = 2
    Stamps = {t1}
    Reports = {"failed", "delivered"}
SPECIFICATION HookSpec
INVARIANTS
    HandedOverIsSold
    CODExplained
    CODStatusHonest
    AppliedOnce
CHECK_DEADLOCK FALSE
