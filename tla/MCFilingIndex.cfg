\* A live sync and a backfill race for the same filings.
CONSTANTS
    undated = undated
    leaving = leaving
    Filing = {undated, leaving}
    Live = {live}
    Backfill = {back}
    NoDate = nodate
    NotSeen = notseen
    Filed <- MCFiled
    LiveWindow <- MCWindow
    BackfillScope <- MCScope
    ChunkSize = 1
    MaxTime = 2
SPECIFICATION LiveSpec
INVARIANTS
    StampsAreTrue
    AnnouncedOnce
    AccountedOnce
PROPERTIES
    LedgerRefinement
    EventuallySeen
