\* The collector's parse step and a manual worker of any kind, over one filing
\* of each kind.
CONSTANTS
    f1 = f1
    f2 = f2
    f3 = f3
    old = old
    new = new
    Filing = {f1, f2, f3}
    Worker = {w1, w2}
    Collector = {w1}
    Parser = {old, new}
    Transcriber = transcriber
    NoReader = none
    Row = {0, 1}
    BatchSize = 2
    Reading <- MCReading
    CsvFiling <- MCCsvFiling
    Transcript <- MCTranscript
SPECIFICATION LiveSpec
INVARIANTS
    QueueIsUntouched
    QueueMatchesStatus
    OutcomeHasRaw
    FailureIsTicketed
    WholeReading
PROPERTIES
    RowsAreFinal
    NeverRequeued
    QueueDrains
