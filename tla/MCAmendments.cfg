\* Rows of two amended transactions arrive while linkers run.
CONSTANTS
    fa = fa
    fb = fb
    fc = fc
    a1 = a1
    b1 = b1
    c1 = c1
    a2 = a2
    b2 = b2
    i1 = i1
    i2 = i2
    Filing = {fa, fb, fc}
    Tx = {a1, b1, c1, a2, b2}
    SourceId = {i1, i2}
    FilingOf <- MCFilingOf
    IdOf <- MCIdOf
    FiledRank <- Distinct
    None = none
SPECIFICATION LiveSpec
INVARIANTS
    GroupHasCurrent
    SupersedesPointsBack
PROPERTIES
    GroupsSettle
    ResolvedIsLeftAlone
