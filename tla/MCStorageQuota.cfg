\* Two budgeted uploads, a migration and the daily reconcile of one bucket.
CONSTANTS
    raw = raw
    pdf = pdf
    page = page
    Bucket = {raw}
    Key = {pdf, page}
    BucketOf <- MCBucketOf
    Uploader = {u1, u2}
    Migrator = {m}
    Auditor = {r}
    Bytes = {1, 2}
    Ceiling = 1
    None = none
    MaxLost = 2
SPECIFICATION LiveSpec
INVARIANTS
    TypeOK
    CounterCoversBucket
    OvershootIsBounded
PROPERTIES
    DriftHeals
