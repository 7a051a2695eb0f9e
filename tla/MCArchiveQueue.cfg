\* The scheduled collector and a catch-up over one queue.
CONSTANTS
    gone = gone
    ptr = ptr
    annual = annual
    other = other
    Filing = {gone, ptr, annual}
    TypeRank <- MCTypeRank
    Gone <- MCGone
    Collector = {c}
    CatchUp = {k}
    BatchSize = 1
SPECIFICATION LiveSpec
INVARIANTS
    TypeOK
    DuplicatesAreBounded
PROPERTIES
    EveryFilingIsTried
    DrainEnds
