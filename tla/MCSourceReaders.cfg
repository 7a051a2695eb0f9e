\* Forms in every layout, and a search of up to two pages of two rows.
SPECIFICATION ReadersSpec
CONSTANTS
    None = None
    Ptr <- MCPtr
    Annual <- MCAnnual
    Lines <- MCLines
    Rows <- MCRows
    r1 = r1
    r2 = r2
    r3 = r3
    r4 = r4
    r5 = r5
    Report = {r1, r2, r3, r4, r5}
    Recognised = {r1, r3, r4, r5}
    Known = {r3}
    PageSize = 2
    MaxAttempts = 3
    Listings <- MCListings
\* The readers return.
CHECK_DEADLOCK FALSE
INVARIANTS
    TransactionsReadBack
    WrappedTextReadBack
    HoldingsReadBack
    SearchReadsAll
