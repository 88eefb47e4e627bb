CONSTANTS
    Warehouses <- MCWarehouses
    Default <- MCDefault
    Variants = {v1, v2}
    MaxQty = 2
    v1 = v1
    v2 = v2
    Skus = {a, b, z}
    a = a
    b = b
    z = z
    Editors = {e1}
    black = black
    white = white
    metre = metre
    Black = Black
    White = White
    Metre = Metre
    Onyx = Onyx
    Rows <- MCRows
    Attributes <- MCAttributes
    Values = {black, white, metre}
    AttributeOf <- MCAttributeOf
    Labels = {Black, White, Metre, Onyx}
    FirstLabel <- MCFirstLabel
    PlainNames <- MCPlainNames
SPECIFICATION CatalogSpec
CHECK_DEADLOCK FALSE
INVARIANTS
    ReservedWithinOnHand
    LedgerExplainsBalance
    StockReportTrue
    CacheFresh
    CombinationsDistinct
PROPERTIES
    OneActiveDefault
    ImplementsPromise
    EditsSparePromises
    UsedKeepIdentity
