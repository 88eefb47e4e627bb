CONSTANTS
    Slots = {1, 2}
    MaxAmount = 3
SPECIFICATION FormSpec
PROPERTY OnlyOverpaidRefunded
CHECK_DEADLOCK FALSE
