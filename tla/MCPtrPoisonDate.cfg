\* An impossible date on a form: every run that selects the filing dies on it,
\* so it never leaves the queue.
CONSTANTS
    f1 = f1
    f2 = f2
    f3 = f3
    old = old
    new = new
    Filing = {f1, f2, f3}
    Worker = {w1}
    Collector = {w1}
    Parser = {new}
    Transcriber = transcriber
    NoReader = none
    Row = {0, 1}
    BatchSize = 1
    Reading <- MCReading
    CsvFiling <- MCCsvFiling
    Transcript <- MCTranscript
SPECIFICATION LiveSpec
PROPERTIES
    EventuallyClassified
CHECK_DEADLOCK FALSE
