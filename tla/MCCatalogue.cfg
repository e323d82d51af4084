SPECIFICATION CatalogueSpec
CONSTANTS
    Calls = {r1, r2}
    Names = {"Tea", "TEA"}
    Fold <- MCFold
    Barcodes = {"b1", "b2"}
    NoCode = "none"
    KeepPrice = 0
    Prices = {5, 6}
    FirstPrice = 5
    Creates <- MCCreates
    Edits <- MCEdits
    Reprices <- MCReprices
    File <- MCFile
    MaxImports = 2
    MaxChanges = 2
INVARIANTS
    OpenedOnce
    PricesExplained
SYMMETRY MCSymmetry
