---------------------------- MODULE PtrLifecycle ----------------------------
(***************************************************************************)
(* The life of a House Periodic Transaction Report after it was indexed:   *)
(* archived, classified, read into `transactions` rows by a version of the *)
(* PDF parser, read again after a parser fix, or transcribed by hand, and  *)
(* its rows completed from the reading of a later parser version.          *)
(*                                                                         *)
(* Four programs write these rows and take no lock or claim on a filing:   *)
(*   parse    ingest/house_ptrs.py               (cron, and the catch-up)  *)
(*   reparse  ingest/reparse_failed_house_ptrs.py (manual workflow)        *)
(*   import   ingest/transcribed_ptrs.py          (manual workflow)        *)
(*   backfill ingest/backfill_house_reparse.py    (manual workflow)        *)
(* A Worker is one process running one of them.  It reads its list of      *)
(* filings once and then handles them one by one, each in a transaction of *)
(* its own, while the other workers do the same.  The only thing that      *)
(* orders two of them is the unique constraint on (filing_id, row_index).  *)
(***************************************************************************)
EXTENDS Integers, FiniteSets

CONSTANTS
    Filing,      \* House filings of type P in the `filings` table
    Worker,      \* processes that may run at the same time
    Collector,   \* those that are the scheduled pipeline: they only parse
    Parser,      \* deployed versions of the PDF parser
    Transcriber, \* stands for the hand transcription of a scan
    NoReader,    \* "this row_index has no row", "this column is NULL"
    Row,         \* row_index values
    BatchSize,   \* house_ptrs.BATCH_SIZE
    Reading,     \* Reading[p][f]: what parser version p gets out of f's PDF
    CsvFiling,   \* filings the transcription CSV lists
    Transcript   \* Transcript[f]: its rows for f

(***************************************************************************)
(* The columns only later parser versions fill: source_transaction_id,     *)
(* asset_type, and option_type with its strike and expiry.  A saved row    *)
(* has them from the reading it was inserted from, if that had them, or    *)
(* from the backfill.                                                      *)
(***************************************************************************)
LateColumn == {"id", "type", "option"}

(***************************************************************************)
(* What reading a PDF yields.  `electronic` is is_electronic(); a row is   *)
(* `untyped` when its transaction type could not be mapped; `validDates`   *)
(* says every date on the typed rows is a calendar date.  `late` names the *)
(* rows for which the reading has each late column, and `options` those    *)
(* whose asset type it says is OP; only these can have an option.          *)
(***************************************************************************)
Result == [electronic : BOOLEAN, typed : SUBSET Row, untyped : SUBSET Row,
           validDates : BOOLEAN, late : [LateColumn -> SUBSET Row],
           options : SUBSET Row]

ASSUME PtrAssumption ==
    /\ BatchSize \in Nat \ {0}
    /\ Reading \in [Parser -> [Filing -> Result]]
    /\ Collector \subseteq Worker
    /\ CsvFiling \subseteq Filing
    /\ Transcript \in [CsvFiling -> SUBSET Row]
    /\ Transcriber \notin Parser
    /\ NoReader \notin Parser \cup {Transcriber}

VARIABLES
    format,     \* filings.format
    status,     \* filings.parse_status
    archived,   \* filings.raw_object_key IS NOT NULL
    reader,     \* reader[f][r]: which reading row r of f came from
    late,       \* late[f][r][c]: which its late column c came from
    issues,     \* open `ptr_parse_failed` rows of dq_issues, per filing
    task,       \* what each worker is running
    parser,     \* the parser version it reads with, if it reads
    todo,       \* filings it selected and has not handled yet
    deferred,   \* those it saw as paper_deferred when it selected them
    checked,    \* the filing an import or a backfill has looked at and is writing
    blank       \* the late columns the backfill found NULL in its rows

filingVars == <<format, status, archived, reader, late, issues>>
workerVars == <<task, parser, todo, deferred, checked, blank>>
vars == <<format, status, archived, reader, late, issues,
          task, parser, todo, deferred, checked, blank>>

Reader == Parser \cup {Transcriber}
Format == {"unknown", "electronic", "scanned"}
Status == {"pending", "parsed", "paper_deferred", "failed"}
Task == {"idle", "parse", "reparse", "import", "backfill"}

TypeOK ==
    /\ format \in [Filing -> Format]
    /\ status \in [Filing -> Status]
    /\ archived \in [Filing -> BOOLEAN]
    /\ reader \in [Filing -> [Row -> Reader \cup {NoReader}]]
    /\ late \in [Filing -> [Row -> [LateColumn -> Parser \cup {NoReader}]]]
    /\ issues \in [Filing -> Nat]
    /\ task \in [Worker -> Task]
    /\ parser \in [Worker -> Parser \cup {NoReader}]
    /\ todo \in [Worker -> SUBSET Filing]
    /\ deferred \in [Worker -> SUBSET Filing]
    /\ checked \in [Worker -> SUBSET Filing]
    /\ blank \in [Worker -> SUBSET (Row \X LateColumn)]

NoLate == [c \in LateColumn |-> NoReader]

Init ==
    /\ format = [f \in Filing |-> "unknown"]
    /\ status = [f \in Filing |-> "pending"]
    /\ archived = [f \in Filing |-> FALSE]
    /\ reader = [f \in Filing |-> [r \in Row |-> NoReader]]
    /\ late = [f \in Filing |-> [r \in Row |-> NoLate]]
    /\ issues = [f \in Filing |-> 0]
    /\ task = [w \in Worker |-> "idle"]
    /\ parser = [w \in Worker |-> NoReader]
    /\ todo = [w \in Worker |-> {}]
    /\ deferred = [w \in Worker |-> {}]
    /\ checked = [w \in Worker |-> {}]
    /\ blank = [w \in Worker |-> {}]

-----------------------------------------------------------------------------
(***************************************************************************)
(* The rows of a filing.                                                   *)
(***************************************************************************)

\* The row indexes that hold a transaction.
Saved(f) == {r \in Row : reader[f][r] # NoReader}

\* What worker w's parser version makes of f.
Outcome(w, f) == Reading[parser[w]][f]

HasTransactions(res) == res.typed \cup res.untyped # {}

\* The late columns of row r of f as reader `who` has them; the import of a
\* transcription sets none.
LateOf(who, f, r) ==
    [c \in LateColumn |-> IF who \in Parser /\ r \in Reading[who][f].late[c]
                          THEN who ELSE NoReader]

\* Rows rs of f are now those of reader `who`.
WriteRows(f, rs, who) ==
    /\ reader' = [reader EXCEPT ![f] = [r \in Row |-> IF r \in rs THEN who ELSE @[r]]]
    /\ late' = [late EXCEPT
                  ![f] = [r \in Row |-> IF r \in rs THEN LateOf(who, f, r) ELSE @[r]]]

\* Seeded fault: ON CONFLICT DO NOTHING, keeping the rows that fit.
InsertMissing(f, typed, who) == WriteRows(f, typed \ Saved(f), who)

\* Insert the given row indexes; the unique constraint must let them in.
InsertRows(f, typed, who) ==
    /\ typed \cap Saved(f) = {}
    /\ WriteRows(f, typed, who)

\* One of them is taken: the insert raises IntegrityError and rolls back.
RowsClash(f, typed) == typed \cap Saved(f) # {}

SetFiling(f, fmt, st) ==
    /\ format' = [format EXCEPT ![f] = fmt]
    /\ status' = [status EXCEPT ![f] = st]

\* Worker w moves on to its next filing.
Advance(w, f) ==
    /\ todo' = [todo EXCEPT ![w] = @ \ {f}]
    /\ UNCHANGED <<task, parser, deferred, checked, blank>>

\* Worker w ends, or dies, and forgets what it had selected.
EndTask(w) ==
    /\ task' = [task EXCEPT ![w] = "idle"]
    /\ parser' = [parser EXCEPT ![w] = NoReader]
    /\ todo' = [todo EXCEPT ![w] = {}]
    /\ deferred' = [deferred EXCEPT ![w] = {}]
    /\ checked' = [checked EXCEPT ![w] = {}]
    /\ blank' = [blank EXCEPT ![w] = {}]

\* Worker w starts with a fresh checkout, parser version p.
StartTask(w, kind, p, selection, paper) ==
    /\ task[w] = "idle"
    /\ task' = [task EXCEPT ![w] = kind]
    /\ parser' = [parser EXCEPT ![w] = p]
    /\ todo' = [todo EXCEPT ![w] = selection]
    /\ deferred' = [deferred EXCEPT ![w] = paper]
    /\ UNCHANGED <<checked, blank, filingVars>>

-----------------------------------------------------------------------------
(***************************************************************************)
(* house_pdfs.py puts the PDF in the raw archive.                          *)
(***************************************************************************)
Archive(f) ==
    /\ ~archived[f]
    /\ archived' = [archived EXCEPT ![f] = TRUE]
    /\ UNCHANGED <<format, status, reader, late, issues, workerVars>>

(***************************************************************************)
(* parse: house_ptrs.parse_pending_house_ptrs                              *)
(***************************************************************************)
\* Seeded fault: the raw_object_key condition is missing.
PendingUnarchived == {f \in Filing : format[f] = "unknown"}

Pending == {f \in Filing : format[f] = "unknown" /\ archived[f]}

\* LIMIT without ORDER BY: any BatchSize of the pending filings, or all.
Batches == {B \in SUBSET Pending : \/ Cardinality(B) = BatchSize
                                   \/ B = Pending /\ Cardinality(B) < BatchSize}

StartParse(w, p) ==
    /\ Pending # {}
    /\ \E batch \in Batches : StartTask(w, "parse", p, batch, {})

\* Seeded fault: the outcome is recorded, the format is not.
MarkFailedKeepsFormat(w, f) ==
    /\ SetFiling(f, format[f], "failed")
    /\ issues' = [issues EXCEPT ![f] = @ + 1]
    /\ Advance(w, f)
    /\ UNCHANGED <<archived, reader, late>>

\* Seeded fault: a failed download puts the filing back for a later run.
MarkForRetry(w, f) ==
    /\ SetFiling(f, "unknown", "pending")
    /\ Advance(w, f)
    /\ UNCHANGED <<archived, reader, late, issues>>

MarkFailed(w, f) ==
    /\ SetFiling(f, "electronic", "failed")
    /\ issues' = [issues EXCEPT ![f] = @ + 1]
    /\ Advance(w, f)
    /\ UNCHANGED <<archived, reader, late>>

\* download() or extract_pages_words() raises: any filing, any time.
DownloadFails(w, f) ==
    /\ task[w] = "parse" /\ f \in todo[w]
    /\ MarkFailed(w, f)

NothingParsed(w, f) ==
    /\ task[w] = "parse" /\ f \in todo[w]
    /\ Outcome(w, f).electronic
    /\ ~HasTransactions(Outcome(w, f))
    /\ MarkFailed(w, f)

\* Seeded faults: one of the two columns is set wrongly.
DeferKeepsStatus(w, f) ==
    /\ task[w] = "parse" /\ f \in todo[w]
    /\ ~Outcome(w, f).electronic
    /\ SetFiling(f, "scanned", status[f])
    /\ Advance(w, f)
    /\ UNCHANGED <<archived, reader, late, issues>>

DeferPaper(w, f) ==
    /\ task[w] = "parse" /\ f \in todo[w]
    /\ ~Outcome(w, f).electronic
    /\ SetFiling(f, "scanned", "paper_deferred")
    /\ Advance(w, f)
    /\ UNCHANGED <<archived, reader, late, issues>>

\* Reaches _save_transactions with something to save.
Parsed(w, f) ==
    /\ task[w] = "parse" /\ f \in todo[w]
    /\ Outcome(w, f).electronic
    /\ HasTransactions(Outcome(w, f))

SaveParsed(w, f) ==
    /\ Parsed(w, f)
    /\ Outcome(w, f).validDates
    /\ InsertRows(f, Outcome(w, f).typed, parser[w])
    /\ SetFiling(f, "electronic", "parsed")
    /\ Advance(w, f)
    /\ UNCHANGED <<archived, issues>>

\* except IntegrityError: continue
LoseParseRace(w, f) ==
    /\ Parsed(w, f)
    /\ Outcome(w, f).validDates
    /\ RowsClash(f, Outcome(w, f).typed)
    /\ Advance(w, f)
    /\ UNCHANGED filingVars

\* date.fromisoformat raises ValueError, which nothing catches.
CrashOnDate(w, f) ==
    /\ Parsed(w, f)
    /\ ~Outcome(w, f).validDates
    /\ EndTask(w)
    /\ UNCHANGED filingVars

ParseStep(w, f) ==
    \/ DownloadFails(w, f)
    \/ NothingParsed(w, f)
    \/ DeferPaper(w, f)
    \/ SaveParsed(w, f)
    \/ LoseParseRace(w, f)
    \/ CrashOnDate(w, f)

-----------------------------------------------------------------------------
(***************************************************************************)
(* reparse: reparse_failed_house_ptrs.reparse_failed_filings               *)
(***************************************************************************)
Unread == {f \in Filing : status[f] \in {"failed", "paper_deferred"}}

StartReparse(w, p) ==
    LET selection == {f \in Unread : archived[f]}
    IN  /\ w \notin Collector
        /\ selection # {}
        /\ StartTask(w, "reparse", p, selection,
                     {f \in selection : status[f] = "paper_deferred"})

\* Seeded fault: the issue is resolved whether or not the parse succeeded.
ResolveAnyway(w, f) ==
    /\ task[w] = "reparse" /\ f \in todo[w]
    /\ issues' = [issues EXCEPT ![f] = 0]
    /\ Advance(w, f)
    /\ UNCHANGED <<format, status, archived, reader, late>>

\* Download failed, still a scan, or still nothing parsed: left as it was.
StillFailing(w, f) ==
    /\ task[w] = "reparse" /\ f \in todo[w]
    /\ Advance(w, f)
    /\ UNCHANGED filingVars

Reparsed(w, f) ==
    /\ task[w] = "reparse" /\ f \in todo[w]
    /\ f \in deferred[w] => Outcome(w, f).electronic
    /\ HasTransactions(Outcome(w, f))

SaveAndResolve(w, f) ==
    /\ Reparsed(w, f)
    /\ Outcome(w, f).validDates
    /\ InsertRows(f, Outcome(w, f).typed, parser[w])
    /\ SetFiling(f, "electronic", "parsed")
    /\ issues' = [issues EXCEPT ![f] = 0]
    /\ Advance(w, f)
    /\ UNCHANGED archived

LoseReparseRace(w, f) ==
    /\ Reparsed(w, f)
    /\ Outcome(w, f).validDates
    /\ RowsClash(f, Outcome(w, f).typed)
    /\ Advance(w, f)
    /\ UNCHANGED filingVars

CrashReparse(w, f) ==
    /\ Reparsed(w, f)
    /\ ~Outcome(w, f).validDates
    /\ EndTask(w)
    /\ UNCHANGED filingVars

ReparseStep(w, f) ==
    \/ StillFailing(w, f)
    \/ SaveAndResolve(w, f)
    \/ LoseReparseRace(w, f)
    \/ CrashReparse(w, f)

-----------------------------------------------------------------------------
(***************************************************************************)
(* import: transcribed_ptrs.import_csv.  Its check and its inserts are in  *)
(* one transaction, but under READ COMMITTED another worker may commit     *)
(* between them, so they are two steps here.                               *)
(***************************************************************************)
StartImport(w) ==
    /\ w \notin Collector
    /\ CsvFiling # {}
    /\ StartTask(w, "import", NoReader, CsvFiling, {})

Importable(f) == f \in Unread /\ Saved(f) = {}

SkipImport(w, f) ==
    /\ task[w] = "import" /\ f \in todo[w] /\ checked[w] = {}
    /\ ~Importable(f)
    /\ Advance(w, f)
    /\ UNCHANGED filingVars

CheckImport(w, f) ==
    /\ task[w] = "import" /\ f \in todo[w] /\ checked[w] = {}
    /\ Importable(f)
    /\ checked' = [checked EXCEPT ![w] = {f}]
    /\ UNCHANGED <<task, parser, todo, deferred, blank, filingVars>>

\* The format stays what it is: (scanned, parsed) marks a transcription.
CommitImport(w, f) ==
    /\ task[w] = "import" /\ f \in checked[w]
    /\ InsertRows(f, Transcript[f], Transcriber)
    /\ SetFiling(f, format[f], "parsed")
    /\ todo' = [todo EXCEPT ![w] = @ \ {f}]
    /\ checked' = [checked EXCEPT ![w] = {}]
    /\ UNCHANGED <<archived, issues, task, parser, deferred, blank>>

\* import_csv does not catch the IntegrityError.
CrashImport(w, f) ==
    /\ task[w] = "import" /\ f \in checked[w]
    /\ RowsClash(f, Transcript[f])
    /\ EndTask(w)
    /\ UNCHANGED filingVars

ImportStep(w, f) ==
    \/ SkipImport(w, f)
    \/ CheckImport(w, f)
    \/ CommitImport(w, f)
    \/ CrashImport(w, f)

-----------------------------------------------------------------------------
(***************************************************************************)
(* backfill: backfill_house_reparse.backfill_missing_fields.  It loads the *)
(* rows of a filing that miss a late column, fills them from its reading   *)
(* by row_index and writes the columns it set; nothing keeps another       *)
(* worker from writing them between the two.  A download that fails or an  *)
(* expiry that is no date ends the program, which Kill allows at any time. *)
(***************************************************************************)
\* Row r of f is an option, as the reading that gave its asset type says.
IsOption(f, r) ==
    \E p \in Parser : late[f][r]["type"] = p /\ r \in Reading[p][f].options

\* _NEEDS_BACKFILL
NeedsBackfill(f, r) ==
    /\ r \in Saved(f)
    /\ \/ late[f][r]["id"] = NoReader
       \/ late[f][r]["type"] = NoReader
       \/ IsOption(f, r) /\ late[f][r]["option"] = NoReader

StartBackfill(w, p) ==
    LET selection == {f \in Filing : archived[f] /\ \E r \in Row : NeedsBackfill(f, r)}
    IN  /\ w \notin Collector
        /\ selection # {}
        /\ StartTask(w, "backfill", p, selection, {})

\* The columns of f's rows that a backfill may set: those it finds NULL, the
\* option only of a row that is one or may still turn out to be.
Unfilled(f) ==
    {rc \in Row \X LateColumn :
        /\ NeedsBackfill(f, rc[1])
        /\ late[f][rc[1]][rc[2]] = NoReader
        /\ rc[2] = "option" => \/ late[f][rc[1]]["type"] = NoReader
                              \/ IsOption(f, rc[1])}

LoadRows(w, f) ==
    /\ task[w] = "backfill" /\ f \in todo[w] /\ checked[w] = {}
    /\ checked' = [checked EXCEPT ![w] = {f}]
    /\ blank' = [blank EXCEPT ![w] = Unfilled(f)]
    /\ UNCHANGED <<task, parser, todo, deferred, filingVars>>

\* Seeded fault: what the reading has is written, found NULL or not.
FillsAll(w, f, r, c) == r \in Outcome(w, f).late[c]

\* The reading has the column, and it was NULL; the option of a row whose
\* asset type was NULL too follows the type the same reading gives it.
Fills(w, f, r, c) ==
    /\ <<r, c>> \in blank[w]
    /\ r \in Outcome(w, f).late[c]
    /\ c = "option" /\ <<r, "type">> \in blank[w] => r \in Outcome(w, f).options

CommitFill(w, f) ==
    /\ task[w] = "backfill" /\ f \in checked[w]
    /\ late' = [late EXCEPT ![f] = [r \in Row |-> [c \in LateColumn |->
                    IF Fills(w, f, r, c) THEN parser[w] ELSE @[r][c]]]]
    /\ todo' = [todo EXCEPT ![w] = @ \ {f}]
    /\ checked' = [checked EXCEPT ![w] = {}]
    /\ blank' = [blank EXCEPT ![w] = {}]
    /\ UNCHANGED <<format, status, archived, reader, issues, task, parser, deferred>>

BackfillStep(w, f) == LoadRows(w, f) \/ CommitFill(w, f)

-----------------------------------------------------------------------------
\* The list is worked through: the process exits.
Finish(w) ==
    /\ task[w] # "idle" /\ todo[w] = {}
    /\ EndTask(w)
    /\ UNCHANGED filingVars

\* Workflow timeout, cancelled run, lost runner: whatever was in a
\* transaction is rolled back, whatever was committed stays.
Kill(w) ==
    /\ task[w] # "idle" /\ todo[w] # {}
    /\ EndTask(w)
    /\ UNCHANGED filingVars

Step(w, f) ==
    \/ ParseStep(w, f)
    \/ ReparseStep(w, f)
    \/ ImportStep(w, f)
    \/ BackfillStep(w, f)

Start(w) ==
    \/ StartImport(w)
    \/ \E p \in Parser : StartParse(w, p) \/ StartReparse(w, p) \/ StartBackfill(w, p)

Next ==
    \/ \E f \in Filing : Archive(f)
    \/ \E w \in Worker : Start(w) \/ Finish(w) \/ Kill(w)
    \/ \E w \in Worker, f \in Filing : Step(w, f)

Spec == Init /\ [][Next]_vars

\* The cron keeps starting the parse step, a run whose list is done exits,
\* and a filing that is selected again and again is not every time killed
\* before its turn.  Nothing is assumed of the manual workflows.
Fairness ==
    \A w \in Collector :
        /\ WF_vars(\E p \in Parser : StartParse(w, p))
        /\ WF_vars(Finish(w))
        /\ \A f \in Filing : SF_vars(ParseStep(w, f))

LiveSpec == Spec /\ Fairness

-----------------------------------------------------------------------------
(***************************************************************************)
(* Properties.                                                             *)
(***************************************************************************)

\* A filing still waiting in the parse queue has produced nothing: no row
\* and no failure issue.  Were one to exist, the next run would collide
\* with it and leave the filing in the queue for good.
QueueIsUntouched ==
    \A f \in Filing : format[f] = "unknown" => Saved(f) = {} /\ issues[f] = 0

\* The queue is selected by `format`, the failure sweep and the import by
\* `parse_status`: a filing is in the one exactly when it is not yet in the
\* reach of the others, whoever wrote it last.
QueueMatchesStatus ==
    \A f \in Filing : format[f] = "unknown" <=> status[f] = "pending"

\* Whatever was read, machine or hand, can be re-derived from the archive:
\* only an archived filing has rows or an outcome.
OutcomeHasRaw ==
    \A f \in Filing : format[f] # "unknown" \/ Saved(f) # {} => archived[f]

\* A filing is never left failed without an open issue that says so.
FailureIsTicketed ==
    \A f \in Filing : status[f] = "failed" => issues[f] > 0

\* The rows of a filing are all the typed rows of one reading, never a part
\* of it and never some of two readings, whichever workers raced for it.  This
\* is about the rows and what they were inserted with; a late column they
\* lacked may come from another reading, which is the subject of RowsAreFinal.
RowsOf(f, who, typed) ==
    \A r \in Row : reader[f][r] = IF r \in typed THEN who ELSE NoReader

WholeReading ==
    \A f \in Filing :
        \/ Saved(f) = {}
        \/ \E p \in Parser : RowsOf(f, p, Reading[p][f].typed)
        \/ f \in CsvFiling /\ RowsOf(f, Transcriber, Transcript[f])

\* A row, once saved, stays the row of its reading: no later worker replaces
\* or removes it, and none touches a late column that has a value.  (README:
\* "a transaction that already has both fields is left untouched".)  The
\* exception is a backfill that loaded the row while the column was NULL: it
\* overwrites what another backfill has put there since, never with NULL.
FoundBlank(f, r, c) ==
    \E w \in Worker : task[w] = "backfill" /\ f \in checked[w] /\ <<r, c>> \in blank[w]

Final(f, r) ==
    reader[f][r] # NoReader =>
        /\ reader'[f][r] = reader[f][r]
        /\ \A c \in LateColumn :
              late[f][r][c] # NoReader =>
                  /\ late'[f][r][c] # NoReader
                  /\ late'[f][r][c] = late[f][r][c] \/ FoundBlank(f, r, c)

RowsAreFinal == [][\A f \in Filing : \A r \in Row : Final(f, r)]_vars

\* No worker, however stale its list, puts a filing back in the queue.
NeverRequeued ==
    [][\A f \in Filing : format[f] # "unknown" => format'[f] # "unknown"]_vars

\* Every archived filing is eventually classified
\* (house_ptrs.count_pending: "no stuck forever risk here").
EventuallyClassified ==
    \A f \in Filing : archived[f] ~> format[f] # "unknown"

\* What makes it fail is a date that does not convert, and nothing else: if the
\* filings with such a date get out of the queue, so do all the others.
Convertible(f) == \A p \in Parser : Reading[p][f].validDates
QueueDrains ==
    (\A g \in Filing : ~Convertible(g) => (archived[g] ~> format[g] # "unknown"))
        => EventuallyClassified

\* reparse_failed_house_ptrs: parse_status 'failed' means "zero
\* transactions extracted".
FailedHasNoRows ==
    \A f \in Filing : status[f] = "failed" => Saved(f) = {}

=============================================================================
