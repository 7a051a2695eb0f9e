\* A worker with a stale list marks a filing failed that another one parsed.
CONSTANTS
    f1 = f1
    f2 = f2
    f3 = f3
    old = old
    new = new
    Filing = {f1, f2, f3}
    Worker = {w1, w2}
    Collector = {}
    Parser = {old, new}
    Transcriber = transcriber
    NoReader = none
    Row = {0, 1}
    BatchSize = 2
    Reading <- MCReading
    CsvFiling <- MCCsvFiling
    Transcript <- MCTranscript
SPECIFICATION Spec
SYMMETRY Symmetry
INVARIANTS
    FailedHasNoRows
