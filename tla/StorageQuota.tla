---------------------------- MODULE StorageQuota ----------------------------
(***************************************************************************)
(* storage/quota.py: a running total of each R2 bucket, kept in Postgres,  *)
(* that has to keep uploads under a ceiling.                               *)
(*                                                                         *)
(* Two systems hold the truth: R2 has the objects, `storage_usage` has the *)
(* counter.  A guarded upload (house_pdfs, senate_ptrs, db_backup,         *)
(* rearchive_from_source_to_r2) is three calls without a transaction:      *)
(* ensure_budget, put_object, record_bytes.  A migration                   *)
(* (migrate_raw_archive_to_r2) only calls put_object.  reconcile walks the *)
(* bucket and overwrites the counter.  All of them may overlap.            *)
(***************************************************************************)
EXTENDS Integers, FiniteSets, Functions

CONSTANTS
    Bucket,
    Key,          \* object keys
    BucketOf,     \* BucketOf[k]: the bucket k belongs to
    Uploader,     \* processes that upload under the budget
    Migrator,     \* processes that upload without it
    Auditor,      \* processes that reconcile
    Bytes,        \* sizes of an object
    Ceiling,      \* R2_STORAGE_CEILING_BYTES
    None,         \* "no upload", "no walk"
    MaxLost       \* bound: no upload starts once more bytes were lost

Worker == Uploader \cup Migrator

UploadStage == [step : {"checked", "stored", "copying"}, key : Key, bytes : Bytes]

\* `total` is what the pages listed so far add up to, `unlisted` the keys they
\* have not covered.  Ghost: `since`, bytes recorded while the walk was going on.
WalkStage == [bucket : Bucket, unlisted : SUBSET Key, total : Nat, since : Nat]

ASSUME QuotaAssumption ==
    /\ BucketOf \in [Key -> Bucket]
    /\ Bytes \subseteq Nat \ {0}
    /\ Ceiling \in Nat
    /\ MaxLost \in Nat
    /\ Uploader \cap Migrator = {}
    /\ IsFiniteSet(Key) /\ IsFiniteSet(Worker)
    /\ None \notin UploadStage \cup WalkStage

VARIABLES
    object,    \* object[k]: bytes stored under k, 0 when there is none
    counter,   \* storage_usage.total_bytes
    upload,    \* the upload each worker is at, and how far it got
    walk,      \* the bucket walk each reconcile is at
    lost       \* ghost: bytes stored that no record_bytes will still count

vars == <<object, counter, upload, walk, lost>>

TypeOK ==
    /\ object \in [Key -> Bytes \cup {0}]
    /\ counter \in [Bucket -> Nat]
    /\ upload \in [Worker -> UploadStage \cup {None}]
    /\ walk \in [Auditor -> WalkStage \cup {None}]
    /\ lost \in [Bucket -> Nat]

\* current_usage_bytes reads a missing row as 0.
Init ==
    /\ object = [k \in Key |-> 0]
    /\ counter = [b \in Bucket |-> 0]
    /\ upload = [w \in Worker |-> None]
    /\ walk = [r \in Auditor |-> None]
    /\ lost = [b \in Bucket |-> 0]

KeysOf(b) == {k \in Key : BucketOf[k] = b}
Stored(b) == SumFunctionOnSet(object, KeysOf(b))

-----------------------------------------------------------------------------
(***************************************************************************)
(* Uploads.                                                                *)
(***************************************************************************)
At(w, step) == upload[w] # None /\ upload[w].step = step
TargetBucket(w) == BucketOf[upload[w].key]

Begin(w, step, k, n) ==
    /\ upload[w] = None
    /\ lost[BucketOf[k]] <= MaxLost
    /\ upload' = [upload EXCEPT ![w] = [step |-> step, key |-> k, bytes |-> n]]
    /\ UNCHANGED <<object, counter, walk, lost>>

\* Seeded fault: the new bytes are left out of the comparison.
AlreadyExceeds(b, n) == counter[b] > Ceiling

WouldExceed(b, n) == counter[b] + n > Ceiling

\* ensure_budget; over the ceiling it raises and the caller skips the upload.
EnsureBudget(w, k, n) ==
    /\ w \in Uploader
    /\ ~WouldExceed(BucketOf[k], n)
    /\ Begin(w, "checked", k, n)

\* migrate_raw_archive: existing_sha256 says the object is absent or differs.
BeginCopy(w, k, n) ==
    /\ w \in Migrator
    /\ Begin(w, "copying", k, n)

\* put_object replaces what is there.
PutObject(w) == object' = [object EXCEPT ![upload[w].key] = upload[w].bytes]

Upload(w) ==
    /\ At(w, "checked")
    /\ PutObject(w)
    /\ upload' = [upload EXCEPT ![w].step = "stored"]
    /\ UNCHANGED <<counter, walk, lost>>

Lose(w) == lost' = [lost EXCEPT ![TargetBucket(w)] = @ + upload[w].bytes]

Copy(w) ==
    /\ At(w, "copying")
    /\ PutObject(w)
    /\ Lose(w)
    /\ upload' = [upload EXCEPT ![w] = None]
    /\ UNCHANGED <<counter, walk>>

\* The walks that are going on in the bucket will not have seen these bytes
\* in the counter they overwrite.
NoteSince(w) ==
    walk' = [r \in Auditor |->
                IF walk[r] # None /\ walk[r].bucket = TargetBucket(w)
                THEN [walk[r] EXCEPT !.since = @ + upload[w].bytes]
                ELSE walk[r]]

\* Seeded faults: the increment is left out, or has the wrong sign.
CountNothing(w) == UNCHANGED counter
CountRemoval(w) == counter' = [counter EXCEPT ![TargetBucket(w)] = @ - upload[w].bytes]

\* One upsert that adds to the stored total.
CountUpload(w) == counter' = [counter EXCEPT ![TargetBucket(w)] = @ + upload[w].bytes]

RecordBytes(w) ==
    /\ At(w, "stored")
    /\ CountUpload(w)
    /\ NoteSince(w)
    /\ upload' = [upload EXCEPT ![w] = None]
    /\ UNCHANGED <<object, lost>>

\* An exception, or the process dies: before the object is there or, also
\* when only the answer to put_object was lost, after it.
Abort(w) ==
    /\ upload[w] # None
    /\ IF At(w, "stored") THEN Lose(w) ELSE UNCHANGED lost
    /\ upload' = [upload EXCEPT ![w] = None]
    /\ UNCHANGED <<object, counter, walk>>

-----------------------------------------------------------------------------
(***************************************************************************)
(* reconcile.                                                              *)
(***************************************************************************)
BeginWalk(r, b) ==
    /\ walk[r] = None
    /\ walk' = [walk EXCEPT ![r] = [bucket |-> b, unlisted |-> KeysOf(b),
                                    total |-> 0, since |-> 0]]
    /\ UNCHANGED <<object, counter, upload, lost>>

\* bucket_totals: the next page, each listed at its own moment.
ListPage(r) ==
    /\ walk[r] # None
    /\ \E page \in SUBSET walk[r].unlisted :
        /\ page # {}
        /\ walk' = [walk EXCEPT ![r].unlisted = @ \ page,
                                ![r].total = @ + SumFunctionOnSet(object, page)]
    /\ UNCHANGED <<object, counter, upload, lost>>

\* Seeded fault: the total is corrected upwards only.
RaiseTotal(r) ==
    counter' = [counter EXCEPT ![walk[r].bucket] = IF walk[r].total > @ THEN walk[r].total ELSE @]

\* The upsert that overwrites the stored total.
SetTotal(r) == counter' = [counter EXCEPT ![walk[r].bucket] = walk[r].total]

Reconcile(r) ==
    /\ walk[r] # None /\ walk[r].unlisted = {}
    /\ SetTotal(r)
    /\ lost' = [lost EXCEPT ![walk[r].bucket] = @ + walk[r].since]
    /\ walk' = [walk EXCEPT ![r] = None]
    /\ UNCHANGED <<object, upload>>

WalkFails(r) ==
    /\ walk[r] # None
    /\ walk' = [walk EXCEPT ![r] = None]
    /\ UNCHANGED <<object, counter, upload, lost>>

-----------------------------------------------------------------------------
UploadStep(w) ==
    \/ \E k \in Key, n \in Bytes : EnsureBudget(w, k, n) \/ BeginCopy(w, k, n)
    \/ Upload(w) \/ Copy(w) \/ RecordBytes(w) \/ Abort(w)

AuditStep(r) ==
    \/ \E b \in Bucket : BeginWalk(r, b)
    \/ ListPage(r) \/ Reconcile(r) \/ WalkFails(r)

Next == (\E w \in Worker : UploadStep(w)) \/ (\E r \in Auditor : AuditStep(r))

Spec == Init /\ [][Next]_vars

\* check_storage_quota runs every day, over every bucket, and does not fail
\* every time before the last page or before its upsert.
LastPage(r) == ListPage(r) /\ walk'[r].unlisted = {}
Walks(r, b) == walk[r] # None /\ walk[r].bucket = b
Fairness ==
    \A r \in Auditor, b \in Bucket :
        /\ SF_vars(BeginWalk(r, b))
        /\ SF_vars(Walks(r, b) /\ LastPage(r))
        /\ SF_vars(Walks(r, b) /\ Reconcile(r))

LiveSpec == Spec /\ Fairness

-----------------------------------------------------------------------------
(***************************************************************************)
(* Properties.                                                             *)
(***************************************************************************)
Unrecorded(b) ==
    LET stored == {w \in Worker : At(w, "stored") /\ TargetBucket(w) = b}
    IN  SumFunction([w \in stored |-> upload[w].bytes])

Fitting == {0} \cup {n \in Bytes : n <= Ceiling}
LargestFitting == CHOOSE n \in Fitting : \A m \in Fitting : m <= n

\* The counter never falls behind R2 by more than the uploads that still have
\* to be recorded and the bytes that were lost to it, however reconciles and
\* uploads interleave.
CounterCoversBucket ==
    \A b \in Bucket : Stored(b) <= counter[b] + Unrecorded(b) + lost[b]

\* A bucket grows past the ceiling only by what the uploads that were checked
\* at the same moment add, and by the lost bytes: the check-then-upload race
\* costs at most one object, of a size that fits, per further uploader.
OvershootIsBounded ==
    \A b \in Bucket :
        Stored(b) <= Ceiling + LargestFitting * (Cardinality(Uploader) - 1) + lost[b]

\* Whatever was lost or counted twice, once the uploads pause the counter
\* becomes exact and stays so.
Quiet == \A w \in Worker : upload[w] = None
Exact == \A b \in Bucket : counter[b] = Stored(b)
DriftHeals == <>[]Quiet => <>[]Exact

=============================================================================
