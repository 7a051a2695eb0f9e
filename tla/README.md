# A verification of congress_collector

`congress_collector` watches the disclosure sites of the House and the Senate,
stamps every new filing with the time it was first seen, archives the House
PDFs, turns Periodic Transaction Reports (PTRs) into rows of `transactions`,
and links those rows to politicians, companies and earlier versions of
themselves. It is a set of batch programs that share one Postgres schema and
two R2 buckets. Nothing locks a filing: a scheduled pipeline and a dozen
manual workflows may run at the same time, each may be killed between any two
statements, and what one of them read a minute ago another may have changed.
That is what the modules here are about.

Paths below are relative to the repository; `ingest/`, `storage/`, `ops/`,
`parsers/` are under `src/congress_collector/`.

## The system

| part | state it keeps | operations |
|---|---|---|
| index sync, `ingest/house.py`, `ingest/senate.py` | `filings` rows, `first_seen_at` and its precision; `scrape_runs` | live sync, backfill, new-filing message |
| archive, `ingest/house_pdfs.py` | `filings.raw_object_key`; `house_pdf_fetch_failed` issues; R2 objects | fetch a batch, upload, record, flag |
| PTR parse, `ingest/house_ptrs.py` | `filings.format`, `parse_status`; `transactions`; `ptr_parse_failed` issues | classify and parse a batch |
| re-parse, `ingest/reparse_failed_house_ptrs.py` | the same | read failed and deferred filings again |
| transcription import, `ingest/transcribed_ptrs.py` | the same | insert hand-read rows |
| column backfill, `ingest/backfill_house_reparse.py` | `transactions.source_transaction_id`, `asset_type`, `option_type`, `strike`, `expiry` | fill in columns an older parser missed |
| catch-up, `ingest/catchup_house_backlog.py` | none | drain archive, parse, politician and ticker queues |
| Senate PTRs, `ingest/senate_ptrs.py`; annual reports, `ingest/house_fds.py` | the same columns of other filings; `holdings` | parse a batch |
| amendments, `ingest/amendments.py` | `transactions.is_current`, `filings.supersedes_filing_id` | resolve groups |
| politicians, `ingest/politician_links.py`, `ingest/legislators.py`, `ingest/committees.py` | `filings.bioguide_id`; `politicians`, `politician_terms`, `committees`, `committee_memberships` | link a batch; replace reference tables |
| instruments, `ingest/tickers.py`, `ingest/sic_codes.py` | `transactions.instrument_id`; `instruments`, `ticker_map` | link a batch; fetch SIC codes |
| quota, `storage/quota.py`, `storage/r2_storage.py` | `storage_usage`; the R2 buckets | check, put, count, reconcile |
| archive maintenance, `ops/migrate_raw_archive_to_r2.py`, `ops/rearchive_from_source_to_r2.py`, `ops/db_backup.py` | R2 objects, `filings.raw_sha256` | copy, fetch again, dump |
| community archive, `ingest/community_archive.py` | `community_transactions` | import, survivorship |
| reports, `ops/dq_report.py`, `ops/silence_check.py`, `ops/check_storage_quota.py` | none (the last reconciles) | read and send |

The parts do not call each other. They meet in the tables: the sync inserts a
filing with `format = 'unknown'` and no `raw_object_key`; the archive step
selects what has no `raw_object_key`; the parse step what has one and is
`unknown`; the linkers what has no `bioguide_id` or `instrument_id`; the
re-parse and the import select by `parse_status`. Every program reads its list
in one transaction and handles each element in another (the linkers: all in
one), so lists go stale. `collect.yml` runs the steps one after the other in
one concurrency group; the manual workflows are in none.

What is hard, and where: races on `(filing_id, row_index)` and on `filing_id`;
stale lists; poison elements that end a batch; a kill between an upload and its
record; a counter that is read before and written after the bytes it counts; a
walk over a bucket that others write to; queues ordered so that failures do not
starve the rest; loops that must stop. `PROJECT.json` lists them under
`hazards`, each at its line.

## Modules

| module | models | extends / used by |
|---|---|---|
| `PtrLifecycle` | parse, re-parse, import and backfill over one set of filings | `MCPtrLifecycle`, `PtrAndReadersProofs` |
| `FirstSeenLedger` | abstract: a filing is stamped at most once, for good | instantiated by `FilingIndex` |
| `FilingIndex` | live sync and backfill of either chamber | `MCFilingIndex`, `FilingIndexProofs` |
| `StorageQuota` | uploads, copies and reconciles of R2 buckets with their counter | `MCStorageQuota`, `StorageQuotaProofs` |
| `Amendments` | the linker of amended transactions, under writers | `MCAmendments`, `AmendmentsProofs` |
| `PoliticianLinks` | the politician linker, and the sync that replaces the terms it reads | `MCPoliticianLinks`, `PoliticianLinksProofs` |
| `TickerLinks` | the linker of transactions to SEC companies, and the `instruments` and `ticker_map` it creates | `MCTickerLinks`, `TickerLinksProofs` |
| `ArchiveQueue` | the PDF queue, its priorities, and the catch-up's drain loop | `MCArchiveQueue`, `ArchiveQueueProofs` |
| `RawArchive` | the archived bytes, their checksums and what is read from them: the House archiver, the annual-report parse, the Senate parse, the re-archive and the migration | `MCRawArchive`, `RawArchiveProofs` |
| `HouseForms` | the House's two form parsers, line by line | `SourceReaders` |
| `FormConventions` | which lines of a printed form belong to which row: what the parsers have to agree with | `MCSourceReaders`, `PtrAndReadersProofs` |
| `SenateSearch` | the Senate's session and paged search | `SourceReaders` |
| `SourceReaders` | either of them at work | `MCSourceReaders`, `PtrAndReadersProofs` |

### PtrLifecycle

A `Worker` is a process; `task` says which program it runs and `parser` which
version of the PDF parser it was deployed with. `Reading[p][f]` is what version
`p` makes of the PDF of `f`: electronic or a scan, the row indexes with and
without a transaction type, whether all dates are calendar dates. A row of
`transactions` is the reading it came from (`reader[f][r]`), and for each column
that only later parser versions fill (`LateColumn`: the id, the asset type, and
the option with its strike and expiry as one) the reading that column came from
(`late[f][r][c]`). `StartParse` and `StartReparse` take the list
(`_fetch_pending`, `_failed_filings`); every outcome for one filing is an
action, in the order of the code's early returns: download error, nothing
parsed, a scan, rows saved, `IntegrityError`, a date that does not convert.
`import_csv` checks and inserts in one transaction, but at READ COMMITTED
another commit fits in between, so `CheckImport` and `CommitImport` are two
steps. `Kill` ends a worker anywhere: what was in a transaction is rolled back.

`backfill_missing_fields` reads a PDF again and fills late columns of saved rows,
also of transcribed ones, by row index. It loads the rows of a filing before it
reads, and writes after: two steps, with the columns that it found NULL in
`blank`. `Fills` is the code's conditions on each column. What another backfill
has committed meanwhile it overwrites, because the rows were loaded before.

The insert of a filing's rows and its status is one action: `session_scope`
commits them together or not at all, and the unique constraint decides a race.

### FilingIndex

A run fetches the part of the site's listing its query covers (`LiveWindow`:
the current year's index or the last 14 days; `BackfillScope`), selects what is
unknown, inserts with ON CONFLICT DO NOTHING, announces (live only), records a
`scrape_runs` row. The Senate backfill does select and insert per chunk. Select
and insert are separate steps: the other run may insert in between. The clock
ticks in units of `DEFAULT_PRECISION_S`. `orphaned` is a ghost: what a run had
inserted when it died before recording itself.

`Ledger` is `FirstSeenLedger` with the rows' stamps substituted for its own, and
`LedgerRefinement` its specification: every step of every run is an observation
or a stutter.

### StorageQuota

`object` is R2, `counter` is `storage_usage`. A budgeted upload is three steps
(`EnsureBudget`, `Upload`, `RecordBytes`), a migration's is one put that is
never counted (`Copy`), a reconcile is a walk in pages of any size, each listed at
its own moment, and an overwrite. `Abort` after the put leaves bytes nobody
counts. `lost` is a ghost that adds those up; a reconcile that overwrites
increments made since it began adds them too.

### Amendments

One transaction over all groups, in which each group is read when it is
resolved. `cleared`, `set` and `pointed` are its uncommitted writes, so that
`Commit` publishes all of them and `RollBack` none. Rows and ids arrive at any
time. `FiledRank` is the sort key `(filed_date or date.min, first_seen_at)`;
equal ranks come in any order, because the SELECT has none.

### ArchiveQueue

`Batches` is the LIMIT after ORDER BY failed-before, type: any choice among
equals. A failing filing is flagged by `FindIssue` or by `FindNoIssue` and
`AddIssue`, between which another process may act. The catch-up's loop is
`CountBefore`, `FetchPending`, the batch, `CountAfter`.

### PoliticianLinks

A linker is one database transaction, but its SELECTs see the database of their
own moment: overrides and flags (`BeginLink`), the batch (`SelectPending`), and
the candidates of each filing when it is looked at (`LinkByOverride`,
`LinkByName`, `Flag`). `newLinks` and `newFlags` are its uncommitted writes.
`Matches` is `best_match`; name scores are the constant `Score`. The sync's
DELETE and every chunk are commits of their own, so `terms` is in parts in
between and stays so when the sync dies. The property's `ClearMatch` is written
from the README, not from `Matches`. `torn` and `guessed` are ghosts: matches made
on a table in parts, and the links that came of them.

### TickerLinks

As before, but this linker also creates what it links to. Its four SELECTs are
`BeginLink`, `ReadInstruments`, `ReadKeys` and `SelectPending`; after them it
decides from its caches `byCik` and `keys` alone. `release` is the commit its
job has checked out, with its SEC companies (`Sec`) and overrides: two linkers
may run different ones. `Resolve` is `_resolve`, a set because share classes of
one company have equal titles, so that equal scores are common. The new
instrument, its `ticker_map` row and the link are one `Link`, into the
uncommitted `newInstr`, `newKeys`, `newLinks` and `newTickers`; `Commit` writes
them over what is there. `Justified` is written from the README's three rules
and nothing else, an override for the ticker or the description before any
lookup (`OverrideFor`). `_resolve` does not keep to that: it looks the form's
ticker up in SEC's list before the override for the description (`tickers.py:176-180`,
against lines 4-7 of the same file). `PassesOver` is that case and no other, an
exception which `LinkIsResolved` names; without it the property fails in this
instance.
A constant `Instr` stands for the UUIDs; no run ever uses all of them.

### RawArchive

Six programs meet in R2 and in `filings.raw_sha256`. Three are steps of one
collector run and never overlap each other: `archive` (`house_pdfs.py`), `annual`
(`house_fds.py`) and `senate` (`senate_ptrs.py`). `catchup` is the House archiver
again, as `catchup_house_backlog.py` runs it outside the collector's concurrency
group; it, `rearchive` and `migrate` are manual and may run beside anything. `todo[w]` is the rest of a program's list,
with the checksum that the migration read with it; `at`, `got` and `putDone`
say which filing's bytes it holds and how far it is with them. HEAD and GET are
`Fetch`, the upload `PutObject`, the commit `Record`, so that another program or
a kill fits in between. The migration's HEAD, download and put are one step,
because its expectation is as old as its list anyway. `site[f]` is what the
source serves: the House and the Senate may serve another edition later, or
nothing; Supabase may answer 402 from some moment on. A Senate page is read
before it is uploaded, so its outcome comes first in `Wanted`, `FailSenate` and
`DieOnDate`; an annual report is read out of R2 (`ReadAnnual`), whose four
disjuncts are the code's early returns. An upload that the budget or R2 rejects
is flagged and the run goes on (`UploadFails`), except that a Senate PTR is then
failed for good.

`doubt` is a ghost. A filing enters it when a second writing program begins
while the first still has it on its list, or when a re-archive is cut between
`upload` and `_update_sha256`. These are the only ways to a wrong checksum that
`ChecksumIsTrue` leaves, and they are real: with either exception removed,
`ChecksumIsTrue` fails in this instance. `RowsAreArchived` has the same exceptions
and one more. A Senate PTR parsed before the move has the rows of the old
archive's document; the re-archive puts what the Senate serves now, and nobody
parses it again. Of such a PTR the property says that its rows stay the old ones. The docstring of `rearchive_from_source_to_r2.py`
(lines 25-26) says that it skips a key "with a matching SHA-256"; the code (line
110) skips any key that is there, which is why the cut is never repaired.

### HouseForms

One action for one pass of the parsers' loop over the lines, in the order of its
`continue`s; the variables are the loop's locals. A word is its x0, the class
that the regular expressions put it in, and its text; a line is its words and
its page. The header row sets the columns (`PtrBounds`, `ReportColumns`), and
everything after it depends on where words stand. Left out are letter case,
`_group_lines`' tolerance (lines are given) and calendar dates (`PtrLifecycle` has
the one that does not convert). A form without a header row yields nothing,
whether the caller asks `is_electronic` first (`house_ptrs.py`) or not
(`backfill_house_reparse.py:43`). A NUL-padded word
(class "nul") is what the 2022+ rendering makes of a heading and of a label alike,
and `IsHeading` tells them apart no better than `_schedule_letter` does: a word
with an S, then one with a colon. The three properties compare what is returned with
`Rows`, what the form reports: the instance writes each row twice, as a record
and as the lines it is printed in.

### FormConventions

What it means that a form is printed as the House prints it, without any of the
parsers' flags: of the lines as they stand, which are the table's, which begin a
row, which begin an annotation, and what each line adds to which row
(`PrintedTransaction`, `PrintedHolding`). A PTR's row begins with the line of its
type code, goes on in its columns up to its first label, and its description
from a "Description:" to the next label; the table is interrupted from a footer
to the next page. A holding begins with a value, where no band is waiting for its
second half, or with an owner outside annotations (`BeginsNext`); the columns of
a line are those of the last header row above it, within the first schedule A,
which a heading ends and no label does (`IsSchedule`).
What a word or a row says (`Between`, `StartsTransaction`, `TickerOf`, `Amount`,
`Holding`) is taken from `HouseForms`.

`FormsArePrinted` assumes of every form that what it reports is what it prints
in this sense. It is a condition on the input, not on the parser: a holding that
wraps so that its second line begins with a value of its own, or a transaction
without a type code, is not printed so. TLC evaluates it on all 1583 forms of
the instance, whose rows and lines are written down independently of it.
`SubholdingsAreLabels` says that the word after "Subholding" is not "A".
`NoneIsNothing` says that no record is the model value for "no row yet" or "no
columns".

`HoldingsReadBack` stands here, because what is lost depends on it. `_schedule_letter`
takes a NUL-padded "Subholding Of:" for another schedule's heading, and
`parse_schedule_a` returns: every holding below is gone, though lines 22-23 and
202-204 of `house_fd.py` say that such a label is skipped as part of the row above.
`Mistaken` is those lines, and the property says that the holdings that begin
above the first of them come back, each as reported, and none below. Without such a
label that is all of them. The instance has it under the first of two holdings.

### SenateSearch

`new_session` with its retries, `fetch_ptr_index` page by page, and
`new_entries`. `Publish` puts a report anywhere into the listing between two
pages. Rows whose link is not a PTR's are in the listing and in no entry. `Collect` is
the loop that `_parse_rows` and `new_entries` share: keep, in order, what is
wanted, the second one each report once.
Withdrawal of a report is not modelled: a page would then skip a row, which a
later poll of the same 14 days makes good.

## What the runs show

| run | instance | shows |
|---|---|---|
| `ptr_lifecycle` | the collector and a manual worker of any kind, 3 filings, 2 parser versions, 2 rows with 3 late columns, batch of 2 | a filing in the queue is untouched; queue and status agree; only archived filings have an outcome; a failed filing has an open issue; the rows of a filing are inserted as one whole reading and stay, and a late column that has a value keeps it; nothing returns to the queue; every archived filing is classified, as long as those with an impossible date are (`QueueDrains`) |
| `filing_index` | live and backfill, a dated and an undated filing, chunks of 1, 3 instants | stamps are true, given once, never touched; a filing is announced at most once and counted by exactly one run unless that one died; what stays in the live window is seen |
| `storage_quota` | 2 uploaders, a migration, the audit, one bucket, 2 keys, objects of size 1 or 2, ceiling 1, new uploads until more than 2 bytes are lost | the counter trails the bucket only by uploads not recorded yet and by lost bytes; the ceiling is passed only by one object (of a size that fits) for each further uploader, and lost bytes; once uploads pause, the audit makes the counter exact |
| `amendments` | 3 filings, a group of 3 and a group of 2 rows | a group always has a current row; pointers lead back; every amended group comes down to its newest row and is then left alone |
| `archive_queue` | collector and catch-up, 3 filings, one gone, batch of 1 | every filing is tried; open issues do not pile up; the catch-up ends |
| `politician_links` | collector and manual linker, 2 filings (an ambiguous name, a clear one), 2 politicians, 2 versions of the terms, batch and chunk of 1 | a link is an override's or a clear match of a whole version, unless made on a table in parts; flags do not pile up; a finished sync leaves one version; every filing is linked or flagged |
| `ticker_links` | collector and manual linker on either of 2 commits, 2 transactions of one company with 3 tickers (a share class that is ambiguous in one commit and that an override for its description names in the other; a ticker that SEC lists in one commit, over an override for the description, and that an override for it excludes in the other), batch of 1 | link, filled-in ticker and `ticker_map` row are those of one company, which the README's rules give, or which passes over an override for the description; at most one instrument of a company, and one row of it and a ticker, per linker; every transaction is linked or flagged |
| `source_readers` | 1261 PTRs (layouts of 2026, 2019 and 2015; data at the header's x or 1 point left of it; asset wrapped after 1, 2 or 3 words, amount split or not; 5 sets of annotations; a page break after every line; a scan) and 322 annual reports (2 label encodings, band split or not, two kinds of value, 5 sets of notes, every page break; none disclosed); a search of up to 2 pages of 2 rows, while reports come in | every form yields exactly the rows that it reports, with their wrapped text, but for the holdings below a NUL-padded "Subholding Of:"; a search misses nothing it could have read when it began and names what is new once |
| `raw_archive` | the six programs, a Senate PTR and an annual report, either archived before the move, one fault of any kind | checksums are true and rows were read from the archived bytes, outside the named exceptions; a Senate PTR has a key exactly if it was read; every recorded document whose source answers is in R2 in the end; every archived report and every Senate PTR without an impossible date is classified |

Three further runs show a disagreement between the code and what the
repository says of it (`findings` in `PROJECT.json` has the quotations):

* `ptr_poison_date`: a date such as 02/30 passes the parser's pattern but not
  `date.fromisoformat`; the `ValueError` ends the run, and every later run that
  selects the filing. `count_pending`'s comment says there is no "stuck forever"
  risk.
* `ptr_stale_failure`: `_mark_failed` writes without looking. A worker with a
  stale list turns a parsed filing into a failed one that has rows; the
  re-parse then always loses against those rows.
* `override_starves`: flagged filings come last and in no order; when there are
  more of them than a batch holds, a new override may never be read for its
  filing. The comment says they are resolved eventually.

Smaller ones, visible in the modules, have no run: with a check before and an
increment after the put, the ceiling is not a hard stop (`OvershootIsBounded`
says by how much), and it is checked for each of two buckets while the free
tier is the account's; the README and the comment of `tickers.py` put both kinds of override
before the SEC lookup, `_resolve` puts the description's after it (`PassesOver`), and
pads a blank CIK to ten zeros that all such overrides share; a NUL-padded
"Subholding Of:" ends Schedule A (`Mistaken`); two overlapping backfills of
different commits overwrite each other's columns, where the README says that a
filled column is left untouched (`FoundBlank`); two amendments filed on one day and seen at once have no
order, so a later run may turn their group over (`ResolvedIsLeftAlone` is
checked with distinct ranks); the live stamp claims 300 s also when the hourly
fallback made it; a backup repeated on one day is counted twice until the next
reconcile.

### Bounds

Each instance has one element of every kind the code tells apart. Two workers
suffice for a race, as every conflict is between a stale reader and one writer.
A batch smaller than the queue is what makes order and starvation matter. Two
rows make a partial insert visible. Only one of the two workers of `ptr_lifecycle`
is manual, so that two overlapping backfills are in the proof of `RowsAreFinal`
and in no run. Three instants let a filing be published
before, during and after a fetch and drop out of the live window. `MaxTime`
bounds the clock, `MaxFaults` the faults of `RawArchive` (one: each exception of its
properties needs one fault or one overlap), `MaxLost` stops new uploads in a bucket once more bytes
than that are lost; the other counters are bounded by the properties. No run
uses symmetry where it checks a liveness property. `storage_quota` has one bucket:
`BucketOf` keeps buckets apart in every action, so that a second one only
multiplies the states.

The mutants in `PROJECT.json` are the operators marked "Seeded fault": each
replaces one definition the way a plausible bug would, and the property must
then fail.

### Fairness

* The external cron and the hourly fallback start `collect.yml` over and over,
  so the collector's start actions are weakly fair, and strongly where what
  they need may come and go.
* A step that a kill, an outage or a rival may prevent is strongly fair: the
  worker is not struck every single time at the same filing. Without this
  nothing would be promised of any program on a hosted runner.
* Manual workflows have no fairness, except that a catch-up that runs keeps
  running unless killed; `DrainEnds` accepts a killed loop as an ended one.
* The collector ends with the amendments step: again and again one such
  transaction commits (`Amendments!Fairness`), between any number that do not.
* The collector's linker commits again and again (`PoliticianLinks!Fairness`,
  `TickerLinks!Fairness`);
  nothing is assumed of a manual one or of the sync.
* `RawArchive!Fairness`: the collector goes on with what it has begun and comes to
  each of its steps again and again (`collect.yml` runs each `if: success() ||
  failure()`), and the operator repeats the re-archive until it has nothing left to
  do, as the README's "re-trigger" asks; of the migration and the catch-up nothing
  is assumed, not even that they end.
* `check-storage-quota.yml` runs daily: for each bucket the start of a walk, its
  last page and its upsert are strongly fair. `DriftHeals` assumes that uploads
  pause, because a walk beside uploads never has a moment to be exact about.

## What is proved

Eight modules hold the proofs, checked by TLAPS, for every value of the constants
that satisfies the `ASSUME` of the module they are about: `PtrAndReadersProofs`
(`PtrLifecycle` and `SourceReaders`, which share no state), `FilingIndexProofs`,
`AmendmentsProofs`, `PoliticianLinksProofs`, `TickerLinksProofs`,
`StorageQuotaProofs`, `ArchiveQueueProofs` and `RawArchiveProofs`. Each component
has an inductive invariant, in general with one lemma per action, and the
properties from it. What is counted or summed is finite: workers, uploaders,
linkers and the keys of a bucket are assumed to be finite sets, of any size.

* **PtrLifecycle.** Typing, `QueueIsUntouched`, `QueueMatchesStatus`,
  `OutcomeHasRaw` and `FailureIsTicketed` are inductive together only with what
  the workers hold: a filing on a parse or re-parse list is archived, one on a
  re-parse list or checked by an import was seen after it had left the queue.
  Those two facts are the strengthening; without them a stale worker could
  write an outcome for a filing that has no PDF, or resolve an issue of one
  that is still pending. `RowsAreFinal` and `NeverRequeued` are action
  properties from the same invariant; for the first it matters that only columns
  in `blank` are written and that a reading puts no NULL, for any number of
  backfills at once. `WholeReading` needs `ReadingsOverlap`:
  two readings of one filing that save anything share a row index. The code
  relies on this (both insert row 0) and it fails when one reading has no type
  for exactly the rows the other has; the theorem says so in its assumption.
* **FilingIndex.** `AccountedOnce` needs that no two runs hold the same filing
  in `inserted` and that neither a counted nor an orphaned filing is in one;
  `AnnouncedOnce` that only live runs reach the message; `StampsAreTrue` that a
  run's fetched entries were published no later than its `seenAt`, and those of a
  live run in the live window then. `ImplementsLedger`
  is the refinement of `FirstSeenLedger`.
* **Amendments.** `GroupHasCurrent` needs that the linker's uncommitted view
  leaves a current row in every group it resolved, also after more rows joined;
  `SupersedesPointsBack` that its uncommitted pointers lead back.
  `ResolvedIsLeftAlone` is an action property, from `ResolvedIsSeen`: where a group
  is resolved, the linker sees it as the table has it. A linker that retired
  another row while the group was smaller is no exception, because a row that
  joins is current: the table's group is then not resolved. `SettledGroupsStay`
  assumes `NoTies`: of two newest rows a later run may take the other.
* **PoliticianLinks.** `Commit` writes what the linker buffered without looking,
  so `LinkIsNoGuess` needs that every buffered link is supported, and stays so
  while overrides come in and terms go; `MatchIsClear` is the lemma that
  `best_match` accepts only what the README calls clear. `TermsAreOneVersion`
  needs that a half-filled table and what is still to come make up one version.
  `FlagsAreBounded` counts: open issues of a filing, and the linkers that may
  still add one because they read `_already_flagged_filing_ids` when it had none,
  are together no more than there are linkers (`FlagInv`). A linker moves from
  the one to the other, and can come back only by reading again, when it finds
  the issue.
* **TickerLinks.** `LinkIsResolved` is said of tables and buffer together
  (`Backed`), and carried past the commits of other linkers because an
  instrument keeps its CIK and rows of `ticker_map` stay; `IdsAreFresh` is what
  keeps a commit from giving somebody's new instrument another CIK.
  `ResolvedIsJustified` is the lemma that `_resolve`, with its early returns and
  its zero-padded CIKs, stays within the README's rules, except where it passes
  over an override for the description.

  `InstrumentsAreBounded` counts likewise, instruments of one CIK and rows of one
  ticker, each with the linkers whose caches lack it (`RowInv`).
* **StorageQuota.** The properties compare sums over the objects of a bucket. No
  sum can be taken for granted, since what `SumFunctionOnSet` yields is a
  recursive function: the first part of the module shows by induction over
  finite sets (a least subset that fails, `LeastSubset`) that it exists, unfolds,
  splits over disjoint sets and changes with one element. `CounterCoversBucket`
  then needs the same of a reconciliation half-way through the bucket
  (`WalksCover`): what it has added up, what it has yet to list, what was
  recorded since it began and what is being recorded cover the bucket. Otherwise
  its upsert could set the counter too low. `OvershootIsBounded` needs that of
  the uploads between check and put (`BudgetHolds`): what is stored and what
  they will store fit in the ceiling and one object for each further uploader.
* **ArchiveQueue.** `DuplicatesAreBounded` counts as above (`FlagsCounted`).
  `QueueServesWork` says that `ORDER BY ... LIMIT` always has a batch to give,
  not empty while anything waits, which needs that what is pending is finite.
* **RawArchive.** A filing not in `doubt` has one writer at a time, from the
  SELECT that lists it until its bytes are released (`OneWriter`), and no list
  goes stale (`ListsStayTrue`): so what the writer saw is still so when it
  writes (`WritersSeeTruth`), nothing recorded for the collector, no object for
  the re-archive, the listed checksum for the migration. Without it a migration
  could put an old object under a new checksum. `ChecksumIsTrue` and
  `RowsAreArchived` are exactly that, with the exceptions they name: filings in
  doubt, and for the rows Senate PTRs parsed before the move.
* **SenateSearch.** `SearchReadsAll` needs that whatever was listed when the search
  began was read or is at or behind the row that is next (`NothingIsPassedOver`):
  a report that comes in pushes others back, never forward, and the last page
  is judged by its raw rows. That `Collect` yields just what it should, once, is
  an induction over the length of its input (a least length that fails).
* **HouseForms.** For forms of any length, layout and number of rows, as long as they
  are printed as `FormConventions` says (`FormsArePrinted`). The invariant
  (`FormsInv`) relates the loop's locals to the lines above `at`: of the rows that begin
  in these lines all but the last are in `results` as they were reported, `open`
  is what the last one has printed so far (`PrintedTransaction(t, s, at - 1)`,
  `PrintedHolding(t, s, at - 1)`), `annotating` says whether a label came since it
  began, `describing` whether the last of them is a description, `footer` names
  the last page whose footer was passed, `columns` are those of the last header,
  and `inA` says whether a heading of schedule A came. None of these holds
  without the others: a row that had taken one line of an annotation, or the
  columns of another page, would be wrong at its end only. What a row has printed
  is a recursive function of the lines (`Joined`), so that it grows by exactly one
  line is an induction again (`JoinedIs`, `PrintedByLine`, `HoldingByLine`). A report's
  lines are read as far as the first label that passes for a heading (`Mistaken`).
  The crux of schedule A is `OpensWhereItBegins`: the three clauses by which the loop
  opens a row, read from its flags, are true exactly where the form begins one.
  `TransactionsReadBack` and `WrappedTextReadBack` follow, and `HoldingsReadBack` for
  the holdings above such a label.

The theorems of the last two are about the behaviours of `SourceReaders`.

Only model-checked: liveness. Fairness and ENABLED are outside the prover. Every
invariant and action property that a passing run checks is a theorem; the
properties of the three violation runs are false of the code, and TLC exhibits
how.

## Not modelled

* Community archive: a manual import into a table of its own, in chunks that a
  re-run finds again by a hash of their content; one program writes it.
* SIC sync: a loop over companies, each on its own commit. Its hazard, that one
  company whose answer is an error ends every run, is listed.
* Committees: the same replace-in-chunks as the legislators' terms, on a table
  that is read for the text of a message only.
* Scan classification and verification: arithmetic on rendered pages and the
  comparison of two transcriptions; no state.
* Reports, messages, `unknown_tx_type` issues, `transaction_provenance`: output
  only. Name and description scores are parameters.
* The copy of the backups in the migration, which repeats that of the raw archive
  for keys nobody else writes.
* The ceiling is checked for each bucket while the free tier is the account's:
  `OvershootIsBounded` is per bucket too.

## Plan

1. `PtrLifecycle`, with proofs — done
2. `FirstSeenLedger`, `FilingIndex`, with proofs — done
3. `StorageQuota` — done
4. `Amendments`, with proofs — done
5. `ArchiveQueue` with the drain loop — done
6. `PoliticianLinks` with the legislators sync and `best_match`, with proofs — done
7. `TickerLinks`, with proofs — done
8. `RawArchive`: archive, migration and re-archive over key, object and
   `raw_sha256`, with Senate PTRs and annual reports — done
9. `HouseForms` and `SenateSearch`: the source readers — done
10. Proofs of `StorageQuota`, `ArchiveQueue`, `RawArchive` and `SenateSearch`, of
    the bounds on flags and instruments, and of `ResolvedIsLeftAlone` — done
11. `FormConventions`, and proofs that the form parsers read back any form that
    is printed so — done
