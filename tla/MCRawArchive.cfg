SPECIFICATION LiveSpec
CONSTANTS
    ptr = ptr
    annual = annual
    v1 = v1
    v2 = v2
    empty = empty
    wrong = wrong
    scan = scan
    None = None
    Senate = {ptr}
    Annual = {annual}
    Archived <- MCArchived
    Content = {v1, v2, empty, wrong, scan}
    Outcome <- MCOutcome
    Served <- MCServed
    MaxFaults = 1
\* Everything may have been archived and read.
CHECK_DEADLOCK FALSE
INVARIANTS
    ChecksumIsTrue
    RowsAreArchived

PROPERTIES
    EventuallyRestored
    EventuallyRead
