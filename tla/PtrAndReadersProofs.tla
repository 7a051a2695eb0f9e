------------------------- MODULE PtrAndReadersProofs -------------------------
(***************************************************************************)
(* Proofs about two modules: what is done with a PTR, and how it and the   *)
(* other published documents are read.                                     *)
(*                                                                         *)
(* PtrLifecycle, for any number of filings, workers, parser versions and   *)
(* row indexes.                                                            *)
(*                                                                         *)
(* HouseForms, as SourceReaders runs it, for forms of any length and layout*)
(* on which what they report is printed as FormConventions says: after     *)
(* each line the loops hold what FormConventions makes of the lines so     *)
(* far, and no more.                                                       *)
(*                                                                         *)
(* SenateSearch, as SourceReaders runs it, for listings and pages of any   *)
(* length: no report falls behind the row that is next.                    *)
(*                                                                         *)
(* What Joined and Collect return is computed item by item, so what the    *)
(* last two parts say of them is an induction over numbers.                *)
(***************************************************************************)
EXTENDS PtrLifecycle, SourceReaders, FormConventions,
        SequenceTheorems, WellFoundedInduction, TLAPS

-----------------------------------------------------------------------------
(***************************************************************************)
(* The invariant of PtrLifecycle.                                          *)
(***************************************************************************)
\* A list read earlier still tells something when it is used: filings are
\* never un-archived and never return to the queue.
ListsAreGrounded ==
    \A w \in Worker :
        /\ task[w] \in {"parse", "reparse", "backfill"} => parser[w] \in Parser
        /\ task[w] = "parse" => \A f \in todo[w] : archived[f]
        /\ task[w] = "reparse" =>
              \A f \in todo[w] : archived[f] /\ format[f] # "unknown"
        /\ task[w] = "import" => todo[w] \subseteq CsvFiling
        /\ task[w] # "backfill" =>
              \A f \in checked[w] : f \in CsvFiling /\ format[f] # "unknown"

IInv ==
    /\ TypeOK
    /\ QueueIsUntouched
    /\ QueueMatchesStatus
    /\ OutcomeHasRaw
    /\ FailureIsTicketed
    /\ ListsAreGrounded

-----------------------------------------------------------------------------
\* What a parser version reads is a Result.
LEMMA OutcomeType ==
    ASSUME NEW w \in Worker, NEW f \in Filing, parser[w] \in Parser
    PROVE  Outcome(w, f) \in Result
  BY PtrAssumption DEF Outcome

\* The rows a parser version types are row indexes.
LEMMA TypedRows ==
    ASSUME NEW w \in Worker, NEW f \in Filing, parser[w] \in Parser
    PROVE  Outcome(w, f).typed \subseteq Row
  BY OutcomeType DEF Result

\* The two columns an insert writes keep their types, and only f's rows change.
LEMMA InsertType ==
    ASSUME TypeOK, NEW f \in Filing, NEW typed, NEW who \in Reader, InsertRows(f, typed, who)
    PROVE  /\ reader' \in [Filing -> [Row -> Reader \cup {NoReader}]]
           /\ late' \in [Filing -> [Row -> [LateColumn -> Parser \cup {NoReader}]]]
           /\ \A g \in Filing : g # f => Saved(g)' = Saved(g)
<1>1. \A r \in Row : LateOf(who, f, r) \in [LateColumn -> Parser \cup {NoReader}]
  BY DEF LateOf
<1>2. QED
  BY <1>1 DEF InsertRows, WriteRows, TypeOK, Saved

\* The initial state satisfies the inductive invariant.
LEMMA InitIInv == Init => IInv
  BY PtrAssumption
  DEF Init, IInv, TypeOK, QueueIsUntouched, QueueMatchesStatus, OutcomeHasRaw,
      FailureIsTicketed, ListsAreGrounded, Saved, Format, Status, Task, Reader, NoLate

\* Starting a worker only writes down what it selected.
LEMMA StartKeepsIInv ==
    ASSUME IInv, NEW w \in Worker, Start(w)
    PROVE  IInv'
<1>1. CASE StartImport(w)
  BY <1>1, PtrAssumption
  DEF IInv, StartImport, StartTask, filingVars, TypeOK, Task, QueueIsUntouched,
      QueueMatchesStatus, OutcomeHasRaw, FailureIsTicketed, ListsAreGrounded, Saved
<1>2. ASSUME NEW p \in Parser, StartParse(w, p)
      PROVE  IInv'
  <2>1. PICK batch \in Batches : StartTask(w, "parse", p, batch, {})
    BY <1>2 DEF StartParse
  <2>2. batch \subseteq Pending
    BY <2>1 DEF Batches
  <2>3. QED
    BY <2>1, <2>2
    DEF IInv, StartTask, Pending, filingVars, TypeOK, Task, QueueIsUntouched,
        QueueMatchesStatus, OutcomeHasRaw, FailureIsTicketed, ListsAreGrounded, Saved
<1>3. ASSUME NEW p \in Parser, StartReparse(w, p)
      PROVE  IInv'
  BY <1>3
  DEF IInv, StartReparse, StartTask, Unread, filingVars, TypeOK, Task, QueueIsUntouched,
      QueueMatchesStatus, OutcomeHasRaw, FailureIsTicketed, ListsAreGrounded, Saved
<1>4. ASSUME NEW p \in Parser, StartBackfill(w, p)
      PROVE  IInv'
  BY <1>4
  DEF IInv, StartBackfill, StartTask, filingVars, TypeOK, Task, QueueIsUntouched,
      QueueMatchesStatus, OutcomeHasRaw, FailureIsTicketed, ListsAreGrounded, Saved
<1>5. QED
  BY <1>1, <1>2, <1>3, <1>4 DEF Start

\* A worker that ends, in whatever way, changes no filing.
LEMMA EndKeepsIInv ==
    ASSUME IInv, NEW w \in Worker, EndTask(w), UNCHANGED filingVars
    PROVE  IInv'
  BY DEF IInv, EndTask, filingVars, TypeOK, Task, QueueIsUntouched,
         QueueMatchesStatus, OutcomeHasRaw, FailureIsTicketed, ListsAreGrounded, Saved

\* So does one that passes over a filing.
LEMMA AdvanceKeepsIInv ==
    ASSUME IInv, NEW w \in Worker, NEW f \in Filing, Advance(w, f), UNCHANGED filingVars
    PROVE  IInv'
  BY DEF IInv, Advance, filingVars, TypeOK, QueueIsUntouched,
         QueueMatchesStatus, OutcomeHasRaw, FailureIsTicketed, ListsAreGrounded, Saved

\* Archiving a PDF only widens what may be parsed.
LEMMA ArchiveKeepsIInv ==
    ASSUME IInv, NEW f \in Filing, Archive(f)
    PROVE  IInv'
  BY DEF IInv, Archive, workerVars, TypeOK, QueueIsUntouched,
         QueueMatchesStatus, OutcomeHasRaw, FailureIsTicketed, ListsAreGrounded, Saved

-----------------------------------------------------------------------------
\* The parse step: whatever the stale list, a filing it touches was archived,
\* leaves the queue, and is failed only together with an issue.
LEMMA ParseStepKeepsIInv ==
    ASSUME IInv, NEW w \in Worker, NEW f \in Filing, ParseStep(w, f)
    PROVE  IInv'
<1>1. ASSUME MarkFailed(w, f), task[w] = "parse", f \in todo[w]
      PROVE  IInv'
  BY <1>1
  DEF IInv, MarkFailed, SetFiling, Advance, TypeOK, Format, Status, QueueIsUntouched,
      QueueMatchesStatus, OutcomeHasRaw, FailureIsTicketed, ListsAreGrounded, Saved
<1>2. CASE DownloadFails(w, f) \/ NothingParsed(w, f)
  BY <1>1, <1>2 DEF DownloadFails, NothingParsed
<1>3. CASE DeferPaper(w, f)
  BY <1>3
  DEF IInv, DeferPaper, SetFiling, Advance, TypeOK, Format, Status, QueueIsUntouched,
      QueueMatchesStatus, OutcomeHasRaw, FailureIsTicketed, ListsAreGrounded, Saved
<1>4. CASE SaveParsed(w, f)
  <2>1. parser[w] \in Parser /\ archived[f]
    BY <1>4 DEF SaveParsed, Parsed, IInv, ListsAreGrounded
  <2>2. parser[w] \in Reader /\ InsertRows(f, Outcome(w, f).typed, parser[w])
    BY <1>4, <2>1 DEF SaveParsed, Reader
  <2>3. TypeOK' /\ \A g \in Filing : g # f => Saved(g)' = Saved(g)
    BY <1>4, <2>2, InsertType
    DEF IInv, SaveParsed, SetFiling, Advance, TypeOK, Format, Status
  <2>4. QED
    BY <1>4, <2>1, <2>3
    DEF IInv, SaveParsed, SetFiling, Advance, TypeOK, QueueIsUntouched,
        QueueMatchesStatus, OutcomeHasRaw, FailureIsTicketed, ListsAreGrounded
<1>5. CASE LoseParseRace(w, f)
  BY <1>5, AdvanceKeepsIInv DEF LoseParseRace
<1>6. CASE CrashOnDate(w, f)
  BY <1>6, EndKeepsIInv DEF CrashOnDate
<1>7. QED
  BY <1>2, <1>3, <1>4, <1>5, <1>6 DEF ParseStep

\* The failure sweep: it resolves issues only of a filing it makes parsed.
LEMMA ReparseStepKeepsIInv ==
    ASSUME IInv, NEW w \in Worker, NEW f \in Filing, ReparseStep(w, f)
    PROVE  IInv'
<1>1. CASE StillFailing(w, f)
  BY <1>1, AdvanceKeepsIInv DEF StillFailing
<1>2. CASE SaveAndResolve(w, f)
  <2>1. parser[w] \in Parser /\ archived[f] /\ format[f] # "unknown"
    BY <1>2 DEF SaveAndResolve, Reparsed, IInv, ListsAreGrounded
  <2>2. parser[w] \in Reader /\ InsertRows(f, Outcome(w, f).typed, parser[w])
    BY <1>2, <2>1 DEF SaveAndResolve, Reader
  <2>3. TypeOK' /\ \A g \in Filing : g # f => Saved(g)' = Saved(g)
    BY <1>2, <2>2, InsertType
    DEF IInv, SaveAndResolve, SetFiling, Advance, TypeOK, Format, Status
  <2>4. QED
    BY <1>2, <2>1, <2>3
    DEF IInv, SaveAndResolve, SetFiling, Advance, TypeOK, QueueIsUntouched,
        QueueMatchesStatus, OutcomeHasRaw, FailureIsTicketed, ListsAreGrounded
<1>3. CASE LoseReparseRace(w, f)
  BY <1>3, AdvanceKeepsIInv DEF LoseReparseRace
<1>4. CASE CrashReparse(w, f)
  BY <1>4, EndKeepsIInv DEF CrashReparse
<1>5. QED
  BY <1>1, <1>2, <1>3, <1>4 DEF ReparseStep

\* The import: what it checked may be stale when it commits, but a filing
\* that was failed or deferred then cannot be back in the queue now.
LEMMA ImportStepKeepsIInv ==
    ASSUME IInv, NEW w \in Worker, NEW f \in Filing, ImportStep(w, f)
    PROVE  IInv'
<1>1. CASE SkipImport(w, f)
  BY <1>1, AdvanceKeepsIInv DEF SkipImport
<1>2. CASE CheckImport(w, f)
  BY <1>2
  DEF IInv, CheckImport, Importable, Unread, filingVars, TypeOK, QueueIsUntouched,
      QueueMatchesStatus, OutcomeHasRaw, FailureIsTicketed, ListsAreGrounded, Saved
<1>3. CASE CommitImport(w, f)
  <2>1. f \in CsvFiling /\ format[f] # "unknown"
    BY <1>3 DEF CommitImport, IInv, ListsAreGrounded
  <2>2. Transcriber \in Reader /\ InsertRows(f, Transcript[f], Transcriber)
    BY <1>3 DEF CommitImport, Reader
  <2>3. TypeOK' /\ \A g \in Filing : g # f => Saved(g)' = Saved(g)
    BY <1>3, <2>2, InsertType
    DEF IInv, CommitImport, SetFiling, TypeOK, Format, Status
  <2>4. QED
    BY <1>3, <2>1, <2>3
    DEF IInv, CommitImport, SetFiling, TypeOK, QueueIsUntouched,
        QueueMatchesStatus, OutcomeHasRaw, FailureIsTicketed, ListsAreGrounded
<1>4. CASE CrashImport(w, f)
  BY <1>4, EndKeepsIInv DEF CrashImport
<1>5. QED
  BY <1>1, <1>2, <1>3, <1>4 DEF ImportStep

\* The backfill writes late columns only, from the version it reads with.
LEMMA BackfillStepKeepsIInv ==
    ASSUME IInv, NEW w \in Worker, NEW f \in Filing, BackfillStep(w, f)
    PROVE  IInv'
<1>1. CASE LoadRows(w, f)
  <2>1. Unfilled(f) \subseteq Row \X LateColumn
    BY DEF Unfilled
  <2>2. QED
    BY <1>1, <2>1
    DEF IInv, LoadRows, filingVars, TypeOK, QueueIsUntouched,
        QueueMatchesStatus, OutcomeHasRaw, FailureIsTicketed, ListsAreGrounded, Saved
<1>2. CASE CommitFill(w, f)
  <2>1. parser[w] \in Parser
    BY <1>2 DEF CommitFill, IInv, ListsAreGrounded
  <2>2. late' \in [Filing -> [Row -> [LateColumn -> Parser \cup {NoReader}]]]
    BY <1>2, <2>1 DEF CommitFill, IInv, TypeOK
  <2>3. QED
    BY <1>2, <2>2
    DEF IInv, CommitFill, TypeOK, QueueIsUntouched,
        QueueMatchesStatus, OutcomeHasRaw, FailureIsTicketed, ListsAreGrounded, Saved
<1>3. QED
  BY <1>1, <1>2 DEF BackfillStep

\* The invariant is inductive: no step of any worker breaks it.
LEMMA NextIInv == IInv /\ [Next]_vars => IInv'
<1>1. ASSUME IInv, Next
      PROVE  IInv'
  <2>1. ASSUME NEW f \in Filing, Archive(f)
        PROVE  IInv'
    BY <1>1, <2>1, ArchiveKeepsIInv
  <2>2. ASSUME NEW w \in Worker, Start(w)
        PROVE  IInv'
    BY <1>1, <2>2, StartKeepsIInv
  <2>3. ASSUME NEW w \in Worker, Finish(w) \/ Kill(w)
        PROVE  IInv'
    BY <1>1, <2>3, EndKeepsIInv DEF Finish, Kill
  <2>4. ASSUME NEW w \in Worker, NEW f \in Filing, Step(w, f)
        PROVE  IInv'
    BY <1>1, <2>4, ParseStepKeepsIInv, ReparseStepKeepsIInv, ImportStepKeepsIInv,
       BackfillStepKeepsIInv DEF Step
  <2>5. QED
    BY <1>1, <2>1, <2>2, <2>3, <2>4 DEF Next
<1>2. ASSUME IInv, UNCHANGED vars
      PROVE  IInv'
  BY <1>2
  DEF IInv, vars, TypeOK, QueueIsUntouched, QueueMatchesStatus, OutcomeHasRaw,
      FailureIsTicketed, ListsAreGrounded, Saved
<1>3. QED
  BY <1>1, <1>2

\* The inductive invariant holds in every reachable state.
THEOREM Invariance == Spec => []IInv
  BY InitIInv, NextIInv, PTL DEF Spec

\* The columns hold only values of their enumerations.
THEOREM TypeCorrect == Spec => []TypeOK
<1>1. IInv => TypeOK
  BY DEF IInv
<1>2. QED
  BY <1>1, Invariance, PTL

\* A filing still in the parse queue has no rows and no failure issue, so a
\* run that selects it never collides with its own past.
THEOREM QueueSafety == Spec => []QueueIsUntouched
<1>1. IInv => QueueIsUntouched
  BY DEF IInv
<1>2. QED
  BY <1>1, Invariance, PTL

\* The parse queue's column and the one the sweep and the import select by
\* agree, whoever wrote them last.
THEOREM QueueAgreement == Spec => []QueueMatchesStatus
<1>1. IInv => QueueMatchesStatus
  BY DEF IInv
<1>2. QED
  BY <1>1, Invariance, PTL

\* Rows and outcomes only ever come from filings in the raw archive.
THEOREM Provenance == Spec => []OutcomeHasRaw
<1>1. IInv => OutcomeHasRaw
  BY DEF IInv
<1>2. QED
  BY <1>1, Invariance, PTL

\* Whoever races with whom, a failed filing keeps an open issue.
THEOREM Ticketing == Spec => []FailureIsTicketed
<1>1. IInv => FailureIsTicketed
  BY DEF IInv
<1>2. QED
  BY <1>1, Invariance, PTL

-----------------------------------------------------------------------------
(***************************************************************************)
(* One reading per filing.  The unique constraint keeps two readings apart *)
(* only when they claim a common row_index.  Every reader numbers its rows *)
(* from 0, so they do unless the type of row 0 is one that one of them     *)
(* could not map; that they overlap is an assumption of the theorem.       *)
(***************************************************************************)
Readings(f) ==
    {Reading[p][f].typed : p \in Parser} \cup (IF f \in CsvFiling THEN {Transcript[f]} ELSE {})

ReadingsOverlap ==
    \A f \in Filing : \A a, b \in Readings(f) : a # {} /\ b # {} => a \cap b # {}

\* The rows saved for f are those of the reading `typed` by `who`, or none.
LEMMA InsertWholeReading ==
    ASSUME IInv, WholeReading, ReadingsOverlap, NEW f \in Filing,
           NEW typed \in Readings(f), NEW who \in Reader,
           InsertRows(f, typed, who),
           \/ who \in Parser /\ typed = Reading[who][f].typed
           \/ who = Transcriber /\ f \in CsvFiling /\ typed = Transcript[f]
    PROVE  WholeReading'
<1>1. typed \subseteq Row /\ who # NoReader
  BY PtrAssumption DEF Readings, Reader, Result
<1>2. \A g \in Filing : g # f => reader'[g] = reader[g]
  BY DEF InsertRows, WriteRows, IInv, TypeOK
<1>3. reader'[f] = [r \in Row |-> IF r \in typed THEN who ELSE reader[f][r]]
  BY DEF InsertRows, WriteRows, IInv, TypeOK
<1>4. ASSUME NEW g \in Filing, g # f
      PROVE  \/ Saved(g)' = {}
             \/ \E p \in Parser : RowsOf(g, p, Reading[p][g].typed)'
             \/ g \in CsvFiling /\ RowsOf(g, Transcriber, Transcript[g])'
  BY <1>2, <1>4 DEF WholeReading, Saved, RowsOf
<1>5. CASE Saved(f) = {}
  <2>1. RowsOf(f, who, typed)'
    BY <1>3, <1>5 DEF RowsOf, Saved
  <2>2. QED
    BY <1>4, <2>1 DEF WholeReading
<1>6. CASE Saved(f) # {}
  <2>1. \E a \in Readings(f) : a # {} /\ Saved(f) = a
    <3>1. ASSUME NEW p \in Parser, RowsOf(f, p, Reading[p][f].typed)
          PROVE  Saved(f) = Reading[p][f].typed
      BY <3>1, PtrAssumption DEF RowsOf, Saved, Result
    <3>2. ASSUME f \in CsvFiling, RowsOf(f, Transcriber, Transcript[f])
          PROVE  Saved(f) = Transcript[f]
      BY <3>2, PtrAssumption DEF RowsOf, Saved
    <3>3. QED
      BY <1>6, <3>1, <3>2 DEF WholeReading, Readings
  <2>2. typed = {}
    BY <2>1 DEF ReadingsOverlap, InsertRows
  <2>3. reader'[f] = reader[f]
    BY <1>3, <2>2 DEF IInv, TypeOK
  <2>4. QED
    BY <1>4, <2>3 DEF WholeReading, Saved, RowsOf
<1>7. QED
  BY <1>5, <1>6

\* The steps that write rows or their late columns are these four.
LEMMA WhoWritesRows ==
    ASSUME Next
    PROVE  \/ UNCHANGED <<reader, late>>
           \/ \E w \in Worker, f \in Filing :
                \/ SaveParsed(w, f)
                \/ SaveAndResolve(w, f)
                \/ CommitImport(w, f)
                \/ CommitFill(w, f)
  BY DEF Next, Archive, Start, StartImport, StartParse, StartReparse, StartBackfill,
         StartTask, Finish, Kill, Step, ParseStep, ReparseStep, ImportStep,
         BackfillStep, DownloadFails, NothingParsed, MarkFailed, DeferPaper,
         LoseParseRace, CrashOnDate, StillFailing, LoseReparseRace, CrashReparse,
         SkipImport, CheckImport, CrashImport, LoadRows, filingVars

\* No step mixes the rows of two readings, provided any two overlap.
LEMMA NextWholeReading ==
    ASSUME IInv, WholeReading, ReadingsOverlap, [Next]_vars
    PROVE  WholeReading'
<1>1. CASE UNCHANGED reader
  BY <1>1 DEF WholeReading, Saved, RowsOf
<1>2. ASSUME NEW w \in Worker, NEW f \in Filing,
             SaveParsed(w, f) \/ SaveAndResolve(w, f)
      PROVE  WholeReading'
  <2>1. parser[w] \in Parser /\ parser[w] \in Reader
    BY <1>2 DEF SaveParsed, SaveAndResolve, Parsed, Reparsed, IInv, ListsAreGrounded, Reader
  <2>2. InsertRows(f, Reading[parser[w]][f].typed, parser[w])
    BY <1>2 DEF SaveParsed, SaveAndResolve, Outcome
  <2>3. Reading[parser[w]][f].typed \in Readings(f)
    BY <2>1 DEF Readings
  <2>4. QED
    BY <2>1, <2>2, <2>3, InsertWholeReading
<1>3. ASSUME NEW w \in Worker, NEW f \in Filing, CommitImport(w, f)
      PROVE  WholeReading'
  <2>1. f \in CsvFiling
    BY <1>3 DEF CommitImport, IInv, ListsAreGrounded
  <2>2. Transcript[f] \in Readings(f) /\ Transcriber \in Reader
    BY <2>1 DEF Readings, Reader
  <2>3. QED
    BY <1>3, <2>1, <2>2, InsertWholeReading DEF CommitImport
<1>4. CASE \E w \in Worker, f \in Filing : CommitFill(w, f)
  BY <1>1, <1>4 DEF CommitFill
<1>5. QED
  BY <1>1, <1>2, <1>3, <1>4, WhoWritesRows DEF vars

\* If any two readings of a filing claim a common row, the transactions of a
\* filing are always exactly one whole reading, whatever workers race for it
\* and wherever they are killed.
THEOREM OneReading == ASSUME ReadingsOverlap PROVE Spec => []WholeReading
<1>1. Init => WholeReading
  BY DEF Init, WholeReading, Saved
<1>2. IInv /\ WholeReading /\ [Next]_vars => WholeReading'
  BY NextWholeReading
<1>3. QED
  BY <1>1, <1>2, Invariance, PTL DEF Spec

\* A saved row is never replaced, removed or attributed to another reading; a
\* late column that has a value keeps it, but for a backfill that loaded the
\* row before the column was filled, which leaves a value of its own.
THEOREM RowsFinal == Spec => RowsAreFinal
<1>1. IInv /\ [Next]_vars => \A f \in Filing : \A r \in Row : Final(f, r)
  <2> SUFFICES ASSUME IInv, [Next]_vars, NEW g \in Filing, NEW r \in Row
               PROVE  Final(g, r)
    OBVIOUS
  <2>1. CASE UNCHANGED <<reader, late>>
    BY <2>1 DEF Final
  <2>2. ASSUME NEW f \in Filing, NEW typed, NEW who, InsertRows(f, typed, who)
        PROVE  Final(g, r)
    BY <2>2 DEF Final, InsertRows, WriteRows, Saved, IInv, TypeOK
  <2>3. ASSUME NEW w \in Worker, NEW f \in Filing, CommitFill(w, f)
        PROVE  Final(g, r)
    <3>1. parser[w] # NoReader
      BY <2>3, PtrAssumption DEF CommitFill, IInv, ListsAreGrounded
    <3>2. \A c \in LateColumn :
              late'[g][r][c] = IF g = f /\ Fills(w, f, r, c) THEN parser[w] ELSE late[g][r][c]
      BY <2>3 DEF CommitFill, IInv, TypeOK
    <3>3. ASSUME NEW c \in LateColumn, Fills(w, f, r, c)
          PROVE  FoundBlank(f, r, c)
      BY <2>3, <3>3 DEF CommitFill, Fills, FoundBlank
    <3>4. QED
      BY <2>3, <3>1, <3>2, <3>3 DEF Final, CommitFill
  <2>4. QED
    BY <2>1, <2>2, <2>3, WhoWritesRows DEF SaveParsed, SaveAndResolve, CommitImport, vars
<1>2. QED
  BY <1>1, Invariance, PTL DEF Spec, RowsAreFinal

\* Once a filing has left the parse queue nothing returns it there.
THEOREM NoRequeue == Spec => NeverRequeued
<1>1. IInv /\ [Next]_vars =>
          \A f \in Filing : format[f] # "unknown" => format'[f] # "unknown"
  <2> SUFFICES ASSUME IInv, [Next]_vars
               PROVE  \A f \in Filing : format[f] # "unknown" => format'[f] # "unknown"
    OBVIOUS
  <2>1. ASSUME NEW f \in Filing, NEW fmt \in {"electronic", "scanned", format[f]}, NEW st,
               SetFiling(f, fmt, st)
        PROVE  \A g \in Filing : format[g] # "unknown" => format'[g] # "unknown"
    BY <2>1 DEF SetFiling, IInv, TypeOK
  <2>2. CASE UNCHANGED format
    BY <2>2
  <2>3. CASE \E w \in Worker, f \in Filing :
                \/ MarkFailed(w, f) \/ DeferPaper(w, f) \/ SaveParsed(w, f)
                \/ SaveAndResolve(w, f) \/ CommitImport(w, f)
    BY <2>1, <2>3 DEF MarkFailed, DeferPaper, SaveParsed, SaveAndResolve, CommitImport
  <2>4. QED
    BY <2>2, <2>3
    DEF Next, Archive, Start, StartImport, StartParse, StartReparse, StartBackfill,
        StartTask, Finish, Kill, Step, ParseStep, ReparseStep, ImportStep,
        BackfillStep, DownloadFails, NothingParsed, LoseParseRace, CrashOnDate,
        StillFailing, LoseReparseRace, CrashReparse, SkipImport, CheckImport,
        CrashImport, LoadRows, CommitFill, filingVars, vars
<1>2. QED
  BY <1>1, Invariance, PTL DEF Spec, NeverRequeued

-----------------------------------------------------------------------------
\* Of any numbers, one is least.
LEMMA LeastNumber ==
  ASSUME NEW C \in SUBSET Nat, C # {}
  PROVE  \E m \in C : \A k \in C : ~(k < m)
  <1>1. IsWellFoundedOn(OpToRel(<, Nat), Nat)
    BY NatLessThanWellFounded
  <1>2. PICK m \in C : \A k \in C : ~(<<k, m>> \in OpToRel(<, Nat))
    BY <1>1, WFMin
  <1>3. \A k \in C : k < m => <<k, m>> \in OpToRel(<, Nat)
    BY DEF OpToRel
  <1> QED
    BY <1>2, <1>3

-----------------------------------------------------------------------------
(***************************************************************************)
(* What Joined returns.                                                    *)
(***************************************************************************)

\* The text after one more line.
WithLine(acc, text, further, i) == IF i \in further THEN acc \o text[i] ELSE acc

\* G gives the text after each of the lines s to n.
IsJoined(G, text, s, further, n) ==
    G = [i \in s..n |-> IF i = s THEN text[i] ELSE WithLine(G[i - 1], text, further, i)]

LEMMA JoinedChosen ==
  ASSUME NEW text, NEW s, NEW further, NEW n
  PROVE  Joined(text, s, further, n) = CHOOSE G : IsJoined(G, text, s, further, n)
  BY DEF Joined, IsJoined, WithLine

\* Each line adds what WithLine says to the text before it.
StepsUp(G, text, s, further, n) ==
    /\ s <= n => G[s] = text[s]
    /\ \A i \in (s + 1)..n : G[i] = WithLine(G[i - 1], text, further, i)

LEMMA JoinedStep ==
  ASSUME NEW text, NEW s \in Nat, NEW further, NEW n \in Nat, NEW G,
         IsJoined(G, text, s, further, n)
  PROVE  StepsUp(G, text, s, further, n)
  <1> DEFINE E(i) == IF i = s THEN text[i] ELSE WithLine(G[i - 1], text, further, i)
  <1>1. G = [i \in s..n |-> E(i)]
    BY DEF IsJoined
  <1>2. \A i \in s..n : G[i] = E(i)
    <2> HIDE DEF E
    <2> QED
      BY <1>1
  <1>3. (s <= n => s \in s..n) /\ \A i \in (s + 1)..n : i \in s..n /\ i # s
    OBVIOUS
  <1> QED
    BY <1>2, <1>3 DEF StepsUp

LEMMA JoinedStart ==
  ASSUME NEW text, NEW s \in Nat, NEW further, NEW n \in Nat, n <= s
  PROVE  \E G : IsJoined(G, text, s, further, n)
  <1> DEFINE H == [i \in s..n |-> text[s]]
             J == [i \in s..n |-> IF i = s THEN text[i] ELSE WithLine(H[i - 1], text, further, i)]
  <1>1. \A i \in s..n : i = s
    OBVIOUS
  <1>2. H = J
    BY <1>1
  <1>3. IsJoined(H, text, s, further, n)
    <2> HIDE DEF H
    <2> QED
      BY <1>2 DEF IsJoined
  <1> HIDE DEF H
  <1> QED
    BY <1>3

LEMMA JoinedExtends ==
  ASSUME NEW text, NEW s \in Nat, NEW further, NEW m \in Nat, s <= m,
         NEW G, IsJoined(G, text, s, further, m)
  PROVE  \E H : IsJoined(H, text, s, further, m + 1)
  <1>1. G[s] = text[s] /\ \A i \in (s + 1)..m : G[i] = WithLine(G[i - 1], text, further, i)
    <2>1. StepsUp(G, text, s, further, m)
      BY JoinedStep, Zenon
    <2> QED
      BY <2>1 DEF StepsUp
  <1> DEFINE n == m + 1
             H == [i \in s..n |-> IF i = n THEN WithLine(G[m], text, further, n) ELSE G[i]]
             J == [i \in s..n |-> IF i = s THEN text[i] ELSE WithLine(H[i - 1], text, further, i)]
  <1>2. \A i \in s..m : H[i] = G[i]
    OBVIOUS
  <1>3. H[n] = WithLine(G[m], text, further, n)
    OBVIOUS
  <1>4. \A i \in (s + 1)..n : H[i - 1] = G[i - 1]
    <2>1. \A i \in (s + 1)..n : i - 1 \in s..m
      OBVIOUS
    <2> HIDE DEF H
    <2> QED
      BY <1>2, <2>1
  <1>5. \A i \in s..n : H[i] = J[i]
    <2> SUFFICES ASSUME NEW i \in s..n
                 PROVE  H[i] = IF i = s THEN text[i] ELSE WithLine(H[i - 1], text, further, i)
      OBVIOUS
    <2> HIDE DEF H
    <2>1. i = s \/ i \in (s + 1)..m \/ i = n
      OBVIOUS
    <2>2. CASE i = s
      BY <1>1, <1>2, <2>2
    <2>3. CASE i \in (s + 1)..m
      <3>1. i \in s..m /\ i \in (s + 1)..n /\ i # s
        BY <2>3
      <3> QED
        BY <1>1, <1>2, <1>4, <2>3, <3>1
    <2>4. CASE i = n
      BY <1>3, <1>4, <2>4
    <2> QED
      BY <2>1, <2>2, <2>3, <2>4
  <1>6. H = J
    <2>1. DOMAIN H = s..n /\ H = [i \in DOMAIN H |-> H[i]]
      OBVIOUS
    <2>2. DOMAIN J = s..n /\ J = [i \in DOMAIN J |-> J[i]]
      OBVIOUS
    <2> HIDE DEF H, J
    <2> QED
      BY <1>5, <2>1, <2>2
  <1>7. IsJoined(H, text, s, further, n)
    <2> HIDE DEF H
    <2> QED
      BY <1>6 DEF IsJoined
  <1> HIDE DEF H
  <1> QED
    BY <1>7

LEMMA JoinedExists ==
  ASSUME NEW text, NEW s \in Nat, NEW further
  PROVE  \A n \in Nat : \E G : IsJoined(G, text, s, further, n)
  <1> DEFINE C == {n \in Nat : ~ \E G : IsJoined(G, text, s, further, n)}
  <1> SUFFICES ASSUME C # {} PROVE FALSE
    OBVIOUS
  <1>1. PICK n \in C : \A k \in C : ~(k < n)
    <2>1. C \in SUBSET Nat
      OBVIOUS
    <2> HIDE DEF C
    <2> QED
      BY <2>1, LeastNumber
  <1>2. n \in Nat /\ ~ \E G : IsJoined(G, text, s, further, n)
    OBVIOUS
  <1>3. s < n
    <2>1. ~(n <= s)
      BY <1>2, JoinedStart, Zenon
    <2> QED
      BY <1>2, <2>1
  <1>4. PICK m \in Nat : n = m + 1 /\ s <= m /\ m < n
    <2>1. n - 1 \in Nat /\ n = (n - 1) + 1 /\ s <= n - 1 /\ n - 1 < n
      BY <1>2, <1>3
    <2> QED
      BY <2>1
  <1>5. \E G : IsJoined(G, text, s, further, m)
    BY <1>1, <1>4, Zenon
  <1>6. \E H : IsJoined(H, text, s, further, m + 1)
    BY <1>4, <1>5, JoinedExtends, Zenon
  <1> QED
    BY <1>2, <1>4, <1>6

\* Joined takes one line at a time, and only lines of `further`.
LEMMA JoinedIs ==
  ASSUME NEW text, NEW s \in Nat, NEW further, NEW n \in Nat, s <= n
  PROVE  /\ Joined(text, s, further, n)[s] = text[s]
         /\ \A i \in (s + 1)..n :
              Joined(text, s, further, n)[i]
                = IF i \in further THEN Joined(text, s, further, n)[i - 1] \o text[i]
                  ELSE Joined(text, s, further, n)[i - 1]
  <1> DEFINE G == Joined(text, s, further, n)
  <1>1. IsJoined(G, text, s, further, n)
    BY JoinedExists, JoinedChosen
  <1> HIDE DEF G
  <1>2. G[s] = text[s] /\ \A i \in (s + 1)..n : G[i] = WithLine(G[i - 1], text, further, i)
    <2>1. StepsUp(G, text, s, further, n)
      BY <1>1, JoinedStep, Zenon
    <2> QED
      BY <2>1 DEF StepsUp
  <1> QED
    BY <1>2 DEF WithLine, G


-----------------------------------------------------------------------------
(***************************************************************************)
(* The rows of a transaction report, line by line.                         *)
(***************************************************************************)
TextLines(lines) == {i \in DOMAIN lines : ~RepeatsHeader(lines[i].words)}
TableEnds(lines) == {i \in TextLines(lines) : "footer" \in Classes(lines[i].words)}

LEMMA PtrTableIs ==
  ASSUME NEW f \in Ptr, NEW t, t = PtrTable(Lines[f])
  PROVE  /\ t.lines = Lines[f]
         /\ t.columns = FindBounds(Lines[f], Margin)
         /\ t.body = {i \in TextLines(Lines[f]) : \A j \in TableEnds(Lines[f]) :
                        j <= i => Lines[f][j].page # Lines[f][i].page}
         /\ t.codes = {i \in t.body : t.columns # None
                                      /\ StartsTransaction(t.columns, Lines[f][i].words)}
         /\ t.labels = {i \in t.body \ t.codes : PtrLabel(Lines[f][i].words[1])}
  <1>1. Margin = PrintMargin
    BY DEF Margin, PrintMargin
  <1> QED
    BY <1>1 DEF PtrTable, TextLines, TableEnds

LEMMA HeaderLine ==
  ASSUME NEW ws
  PROVE  IsHeaderLine(ws) <=> RepeatsHeader(ws)
  BY DEF IsHeaderLine, RepeatsHeader

\* What a further line adds, if it wraps or describes, and if it does neither.
Longer(r, t, i) ==
    [r EXCEPT !.asset = @ \o Between(t.lines[i].words, t.columns.owner, t.columns.asset),
              !.amount = @ \o Between(t.lines[i].words, t.columns.notified, t.columns.amount)]
MoreDescribed(r, t, i) == [r EXCEPT !.described = @ \o Content(t.lines[i].words)]

LEMMA PrintedByLine ==
  ASSUME NEW t, NEW s \in Nat \ {0}, Len(t.lines) \in Nat, s <= Len(t.lines)
  PROVE  /\ PrintedTransaction(t, s, s) = FromLine(t.columns, t.lines[s].words)
         /\ \A i \in (s + 1)..Len(t.lines) :
              /\ i \notin Wraps(t, s) /\ i \notin Describes(t, s) =>
                    PrintedTransaction(t, s, i) = PrintedTransaction(t, s, i - 1)
              /\ i \in Wraps(t, s) /\ i \notin Describes(t, s) =>
                    PrintedTransaction(t, s, i) = Longer(PrintedTransaction(t, s, i - 1), t, i)
              /\ i \notin Wraps(t, s) /\ i \in Describes(t, s) =>
                    PrintedTransaction(t, s, i)
                      = MoreDescribed(PrintedTransaction(t, s, i - 1), t, i)
  <1> DEFINE n == Len(t.lines)
             b == t.columns
             column(left, right) == [i \in 1..n |-> Between(t.lines[i].words, left, right)]
             content == [i \in 1..n |-> IF i = s THEN <<>> ELSE Content(t.lines[i].words)]
             A == Joined(column(b.owner, b.asset), s, Wraps(t, s), n)
             M == Joined(column(b.notified, b.amount), s, Wraps(t, s), n)
             D == Joined(content, s, Describes(t, s), n)
             Set(r, x, y, z) == [r EXCEPT !.asset = x, !.amount = y, !.described = z]
  <1>1. \A e : PrintedTransaction(t, s, e)
                 = Set(FromLine(b, t.lines[s].words), A[e], M[e], D[e])
    BY DEF PrintedTransaction
  <1>2. /\ A[s] = Between(t.lines[s].words, b.owner, b.asset)
        /\ \A i \in (s + 1)..n :
              A[i] = IF i \in Wraps(t, s)
                     THEN A[i - 1] \o Between(t.lines[i].words, b.owner, b.asset) ELSE A[i - 1]
    <2> DEFINE text == column(b.owner, b.asset)
    <2>1. \A i \in s..n : text[i] = Between(t.lines[i].words, b.owner, b.asset)
      OBVIOUS
    <2> HIDE DEF text
    <2>2. /\ A[s] = text[s]
          /\ \A i \in (s + 1)..n :
               A[i] = IF i \in Wraps(t, s) THEN A[i - 1] \o text[i] ELSE A[i - 1]
      BY JoinedIs DEF text
    <2> HIDE DEF A
    <2> QED
      BY <2>1, <2>2
  <1>3. /\ M[s] = Between(t.lines[s].words, b.notified, b.amount)
        /\ \A i \in (s + 1)..n :
              M[i] = IF i \in Wraps(t, s)
                     THEN M[i - 1] \o Between(t.lines[i].words, b.notified, b.amount) ELSE M[i - 1]
    <2> DEFINE text == column(b.notified, b.amount)
    <2>1. \A i \in s..n : text[i] = Between(t.lines[i].words, b.notified, b.amount)
      OBVIOUS
    <2> HIDE DEF text
    <2>2. /\ M[s] = text[s]
          /\ \A i \in (s + 1)..n :
               M[i] = IF i \in Wraps(t, s) THEN M[i - 1] \o text[i] ELSE M[i - 1]
      BY JoinedIs DEF text
    <2> HIDE DEF M
    <2> QED
      BY <2>1, <2>2
  <1>4. /\ D[s] = <<>>
        /\ \A i \in (s + 1)..n :
              D[i] = IF i \in Describes(t, s)
                     THEN D[i - 1] \o Content(t.lines[i].words) ELSE D[i - 1]
    <2>1. content[s] = <<>> /\ \A i \in (s + 1)..n : content[i] = Content(t.lines[i].words)
      OBVIOUS
    <2> HIDE DEF content
    <2>2. /\ D[s] = content[s]
          /\ \A i \in (s + 1)..n :
               D[i] = IF i \in Describes(t, s) THEN D[i - 1] \o content[i] ELSE D[i - 1]
      BY JoinedIs
    <2> HIDE DEF D
    <2> QED
      BY <2>1, <2>2
  <1> HIDE DEF A, M, D, Set
  <1>5. PICK id, own, code, part, traded, notified :
          FromLine(b, t.lines[s].words)
            = [id |-> id, owner |-> own,
               asset |-> Between(t.lines[s].words, b.owner, b.asset),
               code |-> code, partial |-> part, traded |-> traded, notified |-> notified,
               amount |-> Between(t.lines[s].words, b.notified, b.amount), described |-> <<>>]
    BY Zenon DEF FromLine
  <1> DEFINE With(a, m, d) ==
               [id |-> id, owner |-> own, asset |-> a,
                code |-> code, partial |-> part, traded |-> traded, notified |-> notified,
                amount |-> m, described |-> d]
  <1>6. ASSUME NEW a, NEW m, NEW d, NEW x, NEW y, NEW z
        PROVE  Set(With(a, m, d), x, y, z) = With(x, y, z)
    <2>1. [With(a, m, d) EXCEPT !.asset = x] = With(x, m, d)
      OBVIOUS
    <2>2. [With(x, m, d) EXCEPT !.amount = y] = With(x, y, d)
      OBVIOUS
    <2>3. [With(x, y, d) EXCEPT !.described = z] = With(x, y, z)
      OBVIOUS
    <2> HIDE DEF With
    <2> QED
      BY <2>1, <2>2, <2>3, Zenon DEF Set
  <1>7. FromLine(b, t.lines[s].words) = With(A[s], M[s], D[s])
    BY <1>2, <1>3, <1>4, <1>5
  <1> HIDE DEF With
  <1>8. \A e : PrintedTransaction(t, s, e) = With(A[e], M[e], D[e])
    BY <1>1, <1>6, <1>7
  <1>9. PrintedTransaction(t, s, s) = FromLine(b, t.lines[s].words)
    BY <1>7, <1>8
  <1>10. ASSUME NEW i \in (s + 1)..n
         PROVE  LET q == PrintedTransaction(t, s, i - 1)
                IN  /\ i \notin Wraps(t, s) /\ i \notin Describes(t, s) =>
                         PrintedTransaction(t, s, i) = q
                    /\ i \in Wraps(t, s) /\ i \notin Describes(t, s) =>
                         PrintedTransaction(t, s, i) = Longer(q, t, i)
                    /\ i \notin Wraps(t, s) /\ i \in Describes(t, s) =>
                         PrintedTransaction(t, s, i) = MoreDescribed(q, t, i)
    <2> DEFINE q == PrintedTransaction(t, s, i - 1)
               a == A[i - 1]
               m == M[i - 1]
               d == D[i - 1]
    <2>1. q = With(a, m, d)
      BY <1>8
    <2>2. q.asset = a /\ q.amount = m /\ q.described = d
      BY <2>1 DEF With
    <2> HIDE DEF q
    <2>3. CASE i \notin Wraps(t, s) /\ i \notin Describes(t, s)
      BY <1>2, <1>3, <1>4, <1>8, <2>1, <2>3 DEF q
    <2>4. CASE i \in Wraps(t, s) /\ i \notin Describes(t, s)
      <3> DEFINE x == q.asset \o Between(t.lines[i].words, b.owner, b.asset)
                 y == q.amount \o Between(t.lines[i].words, b.notified, b.amount)
      <3>1. PrintedTransaction(t, s, i) = With(x, y, d)
        BY <1>2, <1>3, <1>4, <1>8, <2>2, <2>4
      <3>2. Longer(q, t, i) = [q EXCEPT !.asset = x, !.amount = y]
        BY DEF Longer
      <3> HIDE DEF x, y, a, m, d
      <3>3. [With(a, m, d) EXCEPT !.asset = x, !.amount = y] = With(x, y, d)
        <4>1. [With(a, m, d) EXCEPT !.asset = x] = With(x, m, d)
          BY DEF With
        <4>2. [With(x, m, d) EXCEPT !.amount = y] = With(x, y, d)
          BY DEF With
        <4> QED
          BY <4>1, <4>2, Zenon
      <3>4. Longer(q, t, i) = With(x, y, d)
        BY <2>1, <3>2, <3>3, Zenon
      <3> QED
        BY <2>4, <3>1, <3>4 DEF q
    <2>5. CASE i \notin Wraps(t, s) /\ i \in Describes(t, s)
      <3> DEFINE z == q.described \o Content(t.lines[i].words)
      <3>1. PrintedTransaction(t, s, i) = With(a, m, z)
        BY <1>2, <1>3, <1>4, <1>8, <2>2, <2>5
      <3>2. MoreDescribed(q, t, i) = [q EXCEPT !.described = z]
        BY DEF MoreDescribed
      <3> HIDE DEF z, a, m, d
      <3>3. [With(a, m, d) EXCEPT !.described = z] = With(a, m, z)
        BY DEF With
      <3>4. MoreDescribed(q, t, i) = With(a, m, z)
        BY <2>1, <3>2, <3>3, Zenon
      <3> QED
        BY <2>5, <3>1, <3>4 DEF q
    <2> QED
      BY <2>3, <2>4, <2>5 DEF q
  <1> QED
    BY <1>9, <1>10

\* The first rows begin before line i, m of them.
Begun(begin, m, i) ==
    m \in 0..Len(begin) /\ \A k \in DOMAIN begin : begin[k] < i <=> k <= m

\* The rows begin in these lines of the table, of which there are n.
Begins(begin, these, n) ==
    /\ Len(begin) \in Nat /\ DOMAIN begin = 1..Len(begin)
    /\ \A k \in DOMAIN begin : begin[k] \in these /\ begin[k] \in 1..n
    /\ InOrder(begin)

LEMMA BegunSame ==
  ASSUME NEW begin, NEW these, NEW n \in Nat, Begins(begin, these, n),
         NEW m, NEW i \in Nat, Begun(begin, m, i),
         \A k \in DOMAIN begin : begin[k] # i
  PROVE  Begun(begin, m, i + 1)
  BY DEF Begun, Begins

LEMMA BegunNext ==
  ASSUME NEW begin, NEW these, NEW n \in Nat, Begins(begin, these, n),
         NEW m, NEW i \in Nat, Begun(begin, m, i),
         NEW k \in DOMAIN begin, begin[k] = i
  PROVE  k = m + 1 /\ Begun(begin, m + 1, i + 1)
  <1>1. k > m /\ m \in Nat /\ k \in Nat
    BY DEF Begun, Begins
  <1>2. k = m + 1
    <2> SUFFICES ASSUME k > m + 1 PROVE FALSE
      BY <1>1
    <2>1. m + 1 \in 1..(k - 1) /\ m + 1 \in DOMAIN begin
      BY <1>1 DEF Begins
    <2>2. begin[m + 1] < i
      BY <2>1 DEF Begins, InOrder
    <2> QED
      BY <1>1, <2>1, <2>2 DEF Begun
  <1>3. ASSUME NEW j \in DOMAIN begin
        PROVE  begin[j] < i + 1 <=> j <= m + 1
    <2>1. CASE j <= m
      <3>1. begin[j] < i
        BY <2>1 DEF Begun
      <3> QED
        BY <1>1, <2>1, <3>1 DEF Begins
    <2>2. CASE j = m + 1
      BY <1>1, <1>2, <2>2
    <2>3. CASE j > m + 1
      <3>1. k \in 1..(j - 1)
        BY <1>1, <1>2, <2>3 DEF Begins
      <3>2. begin[k] < begin[j]
        BY <3>1 DEF Begins, InOrder
      <3> QED
        BY <1>1, <2>3, <3>2 DEF Begins
    <2> QED
      BY <1>1, <2>1, <2>2, <2>3 DEF Begins
  <1> QED
    BY <1>1, <1>2, <1>3 DEF Begun, Begins

\* All rows have begun when the form is at its end.
LEMMA AllBegun ==
  ASSUME NEW begin, NEW these, NEW n \in Nat, Begins(begin, these, n),
         NEW m, Begun(begin, m, n + 1)
  PROVE  m = Len(begin)
  <1> SUFFICES ASSUME m # Len(begin) PROVE FALSE
    OBVIOUS
  <1>1. m + 1 \in DOMAIN begin /\ m \in Nat
    <2> DEFINE last == Len(begin)
    <2>1. m \in 0..last /\ last \in Nat /\ DOMAIN begin = 1..last /\ m # last
      BY DEF Begun, Begins
    <2> HIDE DEF last
    <2>2. m \in Nat /\ m + 1 \in 1..last
      BY <2>1
    <2> QED
      BY <2>1, <2>2
  <1>2. begin[m + 1] \in 1..n
    BY <1>1 DEF Begins
  <1> QED
    BY <1>1, <1>2 DEF Begun

\* Where line i stands with respect to a row that began before it.
LEMMA Parts ==
  ASSUME NEW f \in Ptr, NEW t, t = PtrTable(Lines[f]),
         NEW s \in Nat, NEW i \in DOMAIN Lines[f], s < i
  PROVE  /\ i \in t.labels => i \in t.body /\ i \notin t.codes
         /\ i \in t.codes => i \in t.body
         /\ i \in Wraps(t, s) <=>
              i \in t.body /\ i \notin t.labels /\ ~ \E j \in t.labels : s < j /\ j < i
         /\ i \in Describes(t, s) <=>
              /\ i \in t.body
              /\ IF i \in t.labels THEN Lines[f][i].words[1].text = "description"
                                   ELSE Describing(t, s, i - 1)
         /\ Describing(t, s, i) <=>
              IF i \in t.labels THEN Lines[f][i].words[1].text = "description"
                                ELSE Describing(t, s, i - 1)
         /\ Describing(t, s, i - 1) => \E j \in t.labels : s < j /\ j < i
         /\ ~Describing(t, i, i)
  <1>1. /\ t.lines = Lines[f] /\ i \in Nat
        /\ t.labels \subseteq t.body \ t.codes /\ t.codes \subseteq t.body
        /\ t.labels \subseteq Nat
    <2>1. DOMAIN Lines[f] \subseteq Nat
      BY FormAssumption
    <2>2. t.lines = Lines[f] /\ t.labels \subseteq t.body \ t.codes /\ t.codes \subseteq t.body
      BY PtrTableIs
    <2>3. t.body \subseteq DOMAIN Lines[f]
      BY PtrTableIs DEF TextLines
    <2> QED
      BY <2>1, <2>2, <2>3
  <1>2. i \in Wraps(t, s) <=>
              i \in t.body /\ i \notin t.labels /\ ~ \E j \in t.labels : s < j /\ j < i
    BY <1>1 DEF Wraps, Reaches
  <1>3. CASE i \in t.labels
    <2>1. Describing(t, s, i) <=> Lines[f][i].words[1].text = "description"
      BY <1>1, <1>3 DEF Describing
    <2> QED
      BY <1>1, <1>2, <1>3, <2>1 DEF Describing, Describes
  <1>4. CASE i \notin t.labels
    <2>1. Describing(t, s, i) <=> Describing(t, s, i - 1)
      BY <1>1, <1>4 DEF Describing
    <2> QED
      BY <1>1, <1>2, <1>4, <2>1 DEF Describing, Describes
  <1> QED
    BY <1>3, <1>4

-----------------------------------------------------------------------------
(***************************************************************************)
(* The invariant of parse_ptr_transactions.                                *)
(***************************************************************************)
Transactions(t) ==
    {Transaction(PrintedTransaction(t, s, e)) : s \in 1..Len(t.lines), e \in 1..Len(t.lines)}

PtrBegins(t, rows, begin) ==
    /\ Begins(begin, t.codes, Len(t.lines))
    /\ Len(begin) = Len(rows)
    /\ \A i \in t.codes : \E k \in DOMAIN begin : i = begin[k]
    /\ \A k \in DOMAIN begin :
          rows[k] = Transaction(PrintedTransaction(t, begin[k], RowEnd(Len(t.lines), begin, k)))

\* What has been read above line i, where m rows have begun: all but the last
\* of them, and the last as far as it goes.
PtrRead(t, begin, m, i) ==
    IF m = 0 THEN open = None /\ results = <<>>
    ELSE /\ open = PrintedTransaction(t, begin[m], i - 1)
         /\ Len(results) = m - 1
         /\ \A k \in 1..(m - 1) :
               results[k] = Transaction(PrintedTransaction(t, begin[k], begin[k + 1] - 1))
         /\ annotating <=> \E j \in t.labels : begin[m] < j /\ j < i
         /\ describing <=> Describing(t, begin[m], i - 1)

\* The last footer above line i is that of this page.
FooterAbove(lines, i) ==
    /\ footer \in Nat
    /\ footer # 0 => \E j \in TableEnds(lines) : j < i /\ lines[j].page = footer
    /\ \A j \in TableEnds(lines) : j < i => lines[j].page <= footer

AllReadBack(rows) ==
    Len(results) = Len(rows) /\ \A k \in DOMAIN results : results[k] = rows[k]

PtrInvOf(f, t) ==
    /\ columns = t.columns
    /\ at \in 0..(Len(Lines[f]) + 1)
    /\ at # 0 => FooterAbove(Lines[f], at)
    /\ at # 0 /\ columns = None => open = None /\ results = <<>>
    /\ at # 0 /\ columns # None =>
          /\ results \in Seq(Transactions(t))
          /\ \E begin, m :
                PtrBegins(t, Rows[f], begin) /\ Begun(begin, m, at) /\ PtrRead(t, begin, m, at)
    /\ at = 0 => AllReadBack(Rows[f])

LEMMA PtrBeginsExist ==
  ASSUME NEW f \in Ptr, NEW t, t = PtrTable(Lines[f]), t.columns # None
  PROVE  \E begin : PtrBegins(t, Rows[f], begin)
  <1> DEFINE n == Len(Rows[f])
  <1>1. PICK begin \in [1..n -> t.codes] :
            /\ InOrder(begin)
            /\ \A i \in t.codes : \E k \in DOMAIN begin : i = begin[k]
            /\ \A k \in DOMAIN begin :
                  Rows[f][k]
                    = Transaction(PrintedTransaction(t, begin[k], RowEnd(Len(t.lines), begin, k)))
    BY FormsArePrinted DEF PtrIsPrinted
  <1>2. n \in Nat
    BY FormAssumption
  <1>3. begin \in Seq(t.codes)
    <2> HIDE DEF n
    <2> QED
      BY <1>1, <1>2, SeqDef
  <1>4. Len(begin) \in Nat /\ DOMAIN begin = 1..Len(begin)
    BY <1>3, LenProperties
  <1>5. Len(begin) = n
    <2> DEFINE l == Len(begin)
    <2>1. l \in Nat /\ 1..l = 1..n
      BY <1>1, <1>4
    <2> HIDE DEF l, n
    <2> QED
      BY <1>2, <2>1 DEF l
  <1>6. \A i \in t.codes : i \in 1..Len(t.lines)
    BY PtrTableIs, FormAssumption DEF TextLines
  <1> QED
    BY <1>1, <1>4, <1>5, <1>6 DEF PtrBegins, Begins

\* Where the line that is next belongs.
LEMMA PtrAtLine ==
  ASSUME NEW f \in Ptr, NEW t, t = PtrTable(Lines[f]),
         form = f, PtrInvOf(f, t), PtrLine
  PROVE  /\ at \in 1..Len(Lines[f]) /\ at \in DOMAIN Lines[f] /\ Len(Lines[f]) \in Nat
         /\ t.lines = Lines[f] /\ Words = t.lines[at].words
         /\ IsHeaderLine(Words) <=> at \notin TextLines(Lines[f])
         /\ ~IsHeaderLine(Words) => ("footer" \in Classes(Words) <=> at \in TableEnds(Lines[f]))
         /\ TableLine <=> at \in t.body
         /\ at \in t.body => (StartsTransaction(columns, Words) <=> at \in t.codes)
         /\ at \in t.body /\ at \notin t.codes => (PtrLabel(Words[1]) <=> at \in t.labels)
  <1>1. /\ at \in 1..Len(Lines[f]) /\ at \in DOMAIN Lines[f] /\ Len(Lines[f]) \in Nat
        /\ DOMAIN Lines[f] = 1..Len(Lines[f])
    BY FormAssumption DEF PtrLine, LineLeft
  <1>2. /\ t.lines = Lines[f] /\ Words = Lines[f][at].words
        /\ columns = t.columns /\ columns # None
    BY PtrTableIs DEF Words, PtrInvOf, PtrLine
  <1>3. IsHeaderLine(Words) <=> at \notin TextLines(Lines[f])
    BY <1>1, <1>2, HeaderLine DEF TextLines
  <1>4. ~IsHeaderLine(Words) => ("footer" \in Classes(Words) <=> at \in TableEnds(Lines[f]))
    BY <1>1, <1>2, <1>3 DEF TableEnds
  <1>5. TableLine <=> at \in t.body
    <2>1. t.body = {i \in TextLines(Lines[f]) : \A j \in TableEnds(Lines[f]) :
                        j <= i => Lines[f][j].page # Lines[f][i].page}
      BY PtrTableIs
    <2>2. TableLine <=> /\ at \in TextLines(Lines[f]) /\ at \notin TableEnds(Lines[f])
                        /\ Lines[f][at].page # footer
      BY <1>3, <1>4 DEF TableLine
    <2>3. ASSUME at \in TextLines(Lines[f])
          PROVE  (at \notin TableEnds(Lines[f]) /\ Lines[f][at].page # footer)
                   <=> \A j \in TableEnds(Lines[f]) : j <= at => Lines[f][j].page # Lines[f][at].page
      <3>1. /\ Lines[f][at].page \in Nat \ {0} /\ TableEnds(Lines[f]) \subseteq 1..Len(Lines[f])
            /\ \A j \in 1..at : Lines[f][j].page <= Lines[f][at].page
            /\ \A j \in 1..Len(Lines[f]) : Lines[f][j].page \in Nat
        BY <1>1, FormAssumption DEF TableEnds, TextLines
      <3>2. FooterAbove(Lines[f], at)
        BY <1>1 DEF PtrInvOf
      <3>3. CASE at \in TableEnds(Lines[f])
        BY <1>1, <3>3
      <3>4. CASE at \notin TableEnds(Lines[f]) /\ Lines[f][at].page = footer
        BY <1>1, <3>1, <3>2, <3>4 DEF FooterAbove
      <3>5. CASE at \notin TableEnds(Lines[f]) /\ Lines[f][at].page # footer
        <4> SUFFICES ASSUME NEW j \in TableEnds(Lines[f]), j <= at,
                            Lines[f][j].page = Lines[f][at].page
                     PROVE  FALSE
          BY <3>5
        <4>1. j < at /\ Lines[f][j].page <= footer /\ footer # 0
          BY <1>1, <3>1, <3>2, <3>5 DEF FooterAbove
        <4>2. footer <= Lines[f][at].page
          BY <1>1, <3>1, <3>2, <4>1 DEF FooterAbove
        <4> QED
          BY <3>1, <3>2, <3>5, <4>1, <4>2 DEF FooterAbove
      <3> QED
        BY <3>3, <3>4, <3>5
    <2> QED
      BY <2>1, <2>2, <2>3
  <1>6. at \in t.body => (StartsTransaction(columns, Words) <=> at \in t.codes)
    BY <1>2, PtrTableIs
  <1>7. at \in t.body /\ at \notin t.codes => (PtrLabel(Words[1]) <=> at \in t.labels)
    BY <1>2, PtrTableIs
  <1> QED
    BY <1>1, <1>2, <1>3, <1>4, <1>5, <1>6, <1>7

\* What a line leaves to be shown: the footer, and how far the rows were read.
LEMMA PtrAdvance ==
  ASSUME NEW f \in Ptr, NEW t, t = PtrTable(Lines[f]),
         form = f, PtrInvOf(f, t), PtrLine, at' = at + 1, columns' = columns,
         FooterAbove(Lines[f], at)', (results \in Seq(Transactions(t)))',
         NEW begin, NEW m, PtrBegins(t, Rows[f], begin), Begun(begin, m, at + 1),
         PtrRead(t, begin, m, at)'
  PROVE  PtrInvOf(f, t)'
  <1>1. /\ at \in 1..Len(Lines[f]) /\ Len(Lines[f]) \in Nat
        /\ columns = t.columns /\ columns # None
    BY PtrAtLine DEF PtrLine, PtrInvOf
  <1>2. at' \in 0..(Len(Lines[f]) + 1) /\ at' # 0
    BY <1>1
  <1> QED
    BY <1>1, <1>2 DEF PtrInvOf

LEMMA FooterStays ==
  ASSUME NEW f \in Ptr, NEW t, t = PtrTable(Lines[f]), form = f, PtrInvOf(f, t), PtrLine,
         at' = at + 1, footer' = footer, at \notin TableEnds(Lines[f])
  PROVE  FooterAbove(Lines[f], at)'
  <1>1. /\ at \in 1..Len(Lines[f]) /\ TableEnds(Lines[f]) \subseteq Nat
        /\ FooterAbove(Lines[f], at)
    BY PtrAtLine, FormAssumption DEF PtrInvOf, TableEnds, TextLines
  <1> QED
    BY <1>1 DEF FooterAbove

\* A line outside the table.
LEMMA NotInTable ==
  ASSUME NEW f \in Ptr, NEW t, t = PtrTable(Lines[f]), form = f, PtrInvOf(f, t), PtrLine,
         at \notin t.body, at' = at + 1, columns' = columns, FooterAbove(Lines[f], at)',
         UNCHANGED <<results, open, annotating, describing>>
  PROVE  PtrInvOf(f, t)'
  <1>1. /\ at \in 1..Len(Lines[f]) /\ at \in DOMAIN Lines[f] /\ t.lines = Lines[f]
        /\ Len(Lines[f]) \in Nat /\ columns = t.columns /\ columns # None
        /\ results \in Seq(Transactions(t))
    BY PtrAtLine DEF PtrInvOf, PtrLine
  <1>2. PICK begin, m :
          PtrBegins(t, Rows[f], begin) /\ Begun(begin, m, at) /\ PtrRead(t, begin, m, at)
    BY <1>1 DEF PtrInvOf
  <1>3. at \notin t.codes /\ at \notin t.labels
    BY PtrTableIs
  <1>4. Begins(begin, t.codes, Len(Lines[f])) /\ \A k \in DOMAIN begin : begin[k] # at
    BY <1>1, <1>2, <1>3 DEF PtrBegins, Begins
  <1>5. Begun(begin, m, at + 1)
    BY <1>1, <1>2, <1>4, BegunSame
  <1>6. PtrRead(t, begin, m, at)'
    <2>1. CASE m = 0
      BY <1>2, <2>1 DEF PtrRead
    <2>2. CASE m # 0
      <3>1. m \in DOMAIN begin /\ begin[m] \in 1..Len(Lines[f]) /\ begin[m] < at
        BY <1>2, <1>4, <2>2 DEF Begun, Begins
      <3>2. at \notin Wraps(t, begin[m]) /\ at \notin Describes(t, begin[m])
        BY <1>1, <1>3, <3>1, Parts
      <3>3. PrintedTransaction(t, begin[m], at) = PrintedTransaction(t, begin[m], at - 1)
        BY <1>1, <3>1, <3>2, PrintedByLine
      <3>4. Describing(t, begin[m], at) <=> Describing(t, begin[m], at - 1)
        BY <1>1, <1>3, <3>1, Parts
      <3>5. \A j \in t.labels : j < at + 1 <=> j < at
        BY <1>1, <1>3, PtrTableIs, FormAssumption DEF TextLines
      <3>6. at' - 1 = at
        BY <1>1
      <3> QED
        BY <1>2, <2>2, <3>3, <3>4, <3>5, <3>6 DEF PtrRead
    <2> QED
      BY <2>1, <2>2
  <1> QED
    BY <1>1, <1>2, <1>5, <1>6, PtrAdvance

\* The row that began in line s is read up to line i.
RowRead(t, s, i) ==
    /\ open = PrintedTransaction(t, s, i)
    /\ annotating <=> \E j \in t.labels : s < j /\ j <= i
    /\ describing <=> Describing(t, s, i)

\* A line of the row that is open, or before the first.
LEMMA RowGoesOn ==
  ASSUME NEW f \in Ptr, NEW t, t = PtrTable(Lines[f]), form = f, PtrInvOf(f, t), PtrLine,
         at \in t.body \ t.codes, at' = at + 1, UNCHANGED <<columns, results, footer>>,
         open = None => open' = None,
         \A s \in 1..(at - 1) : open # None /\ RowRead(t, s, at - 1) => RowRead(t, s, at - 1)'
  PROVE  PtrInvOf(f, t)'
  <1>1. /\ at \in 1..Len(Lines[f]) /\ at \in DOMAIN Lines[f] /\ t.lines = Lines[f]
        /\ Len(Lines[f]) \in Nat /\ columns = t.columns /\ columns # None
        /\ results \in Seq(Transactions(t))
    BY PtrAtLine DEF PtrInvOf, PtrLine
  <1>2. PICK begin, m :
          PtrBegins(t, Rows[f], begin) /\ Begun(begin, m, at) /\ PtrRead(t, begin, m, at)
    BY <1>1 DEF PtrInvOf
  <1>3. Begins(begin, t.codes, Len(Lines[f])) /\ \A k \in DOMAIN begin : begin[k] # at
    BY <1>1, <1>2 DEF PtrBegins, Begins
  <1>4. Begun(begin, m, at + 1)
    BY <1>1, <1>2, <1>3, BegunSame
  <1>5. FooterAbove(Lines[f], at)'
    <2>1. at \notin TableEnds(Lines[f])
      BY <1>1, PtrTableIs
    <2> QED
      BY <2>1, FooterStays
  <1>6. PtrRead(t, begin, m, at)'
    <2>1. CASE m = 0
      BY <1>2, <2>1 DEF PtrRead
    <2>2. CASE m # 0
      <3>1. m \in DOMAIN begin /\ begin[m] \in 1..Len(Lines[f]) /\ begin[m] < at
        BY <1>2, <1>3, <2>2 DEF Begun, Begins
      <3>2. t.labels \subseteq Nat
        BY PtrTableIs, FormAssumption DEF TextLines
      <3>3. RowRead(t, begin[m], at - 1)
        BY <1>1, <1>2, <2>2, <3>1, <3>2 DEF PtrRead, RowRead
      <3>4. open # None
        <4>1. begin[m] \in t.codes
          BY <1>3, <3>1 DEF Begins
        <4>2. at - 1 \in begin[m]..Len(t.lines)
          BY <1>1, <3>1
        <4> QED
          BY <3>3, <4>1, <4>2, NoneIsNothing DEF PtrHasRows, RowRead
      <3>5. RowRead(t, begin[m], at - 1)'
        BY <1>1, <3>1, <3>3, <3>4
      <3>6. at' - 1 = at
        BY <1>1
      <3> QED
        BY <1>1, <1>2, <2>2, <3>1, <3>2, <3>5, <3>6 DEF PtrRead, RowRead
    <2> QED
      BY <2>1, <2>2
  <1> QED
    BY <1>1, <1>2, <1>4, <1>5, <1>6, PtrAdvance

LEMMA SkipHeaderInv ==
  ASSUME NEW f \in Ptr, NEW t, t = PtrTable(Lines[f]), form = f, PtrInvOf(f, t), SkipHeader
  PROVE  PtrInvOf(f, t)'
  <1>1. PtrLine /\ at \notin TextLines(Lines[f])
    BY PtrAtLine DEF SkipHeader
  <1>2. at \notin TableEnds(Lines[f]) /\ at \notin t.body
    BY <1>1, PtrTableIs DEF TableEnds
  <1>3. at' = at + 1 /\ footer' = footer /\ columns' = columns
        /\ UNCHANGED <<results, open, annotating, describing>>
    BY DEF SkipHeader, lineVars
  <1> QED
    BY <1>1, <1>2, <1>3, FooterStays, NotInTable

LEMMA ReachFooterInv ==
  ASSUME NEW f \in Ptr, NEW t, t = PtrTable(Lines[f]), form = f, PtrInvOf(f, t), ReachFooter
  PROVE  PtrInvOf(f, t)'
  <1>1. /\ PtrLine /\ at \in TableEnds(Lines[f]) /\ at \in 1..Len(Lines[f])
        /\ TableEnds(Lines[f]) \subseteq Nat
    BY PtrAtLine, FormAssumption DEF ReachFooter, TableEnds, TextLines
  <1>2. at \notin t.body
    BY <1>1, PtrAtLine DEF ReachFooter, TableLine
  <1>3. at' = at + 1 /\ footer' = Lines[f][at].page /\ columns' = columns
        /\ UNCHANGED <<results, open, annotating, describing>>
    BY DEF ReachFooter
  <1>4. FooterAbove(Lines[f], at)'
    <2>1. /\ Lines[f][at].page \in Nat
          /\ \A j \in 1..at : Lines[f][j].page <= Lines[f][at].page
      BY <1>1, FormAssumption
    <2>2. \A j \in TableEnds(Lines[f]) : j < at + 1 => j \in 1..at
      BY <1>1, FormAssumption DEF TableEnds, TextLines
    <2> QED
      BY <1>1, <1>3, <2>1, <2>2 DEF FooterAbove
  <1> QED
    BY <1>1, <1>2, <1>3, <1>4, NotInTable

LEMMA SkipBelowFooterInv ==
  ASSUME NEW f \in Ptr, NEW t, t = PtrTable(Lines[f]), form = f, PtrInvOf(f, t), SkipBelowFooter
  PROVE  PtrInvOf(f, t)'
  <1>1. PtrLine /\ at \notin TableEnds(Lines[f])
    BY PtrAtLine DEF SkipBelowFooter
  <1>2. at \notin t.body
    BY <1>1, PtrAtLine DEF SkipBelowFooter, TableLine
  <1>3. at' = at + 1 /\ footer' = footer /\ columns' = columns
        /\ UNCHANGED <<results, open, annotating, describing>>
    BY DEF SkipBelowFooter, lineVars
  <1> QED
    BY <1>1, <1>2, <1>3, FooterStays, NotInTable

LEMMA ReadLabelInv ==
  ASSUME NEW f \in Ptr, NEW t, t = PtrTable(Lines[f]), form = f, PtrInvOf(f, t), ReadLabel
  PROVE  PtrInvOf(f, t)'
  <1>1. PtrLine /\ at \in t.body \ t.codes /\ at \in t.labels
    BY PtrAtLine DEF ReadLabel, TableLine
  <1>2. /\ at \in 1..Len(Lines[f]) /\ at \in DOMAIN Lines[f] /\ Len(Lines[f]) \in Nat
        /\ t.lines = Lines[f] /\ Words = Lines[f][at].words
    BY <1>1, PtrAtLine
  <1>3. at' = at + 1 /\ UNCHANGED <<columns, results, footer>>
    BY DEF ReadLabel
  <1>4. open = None => open' = None
    BY DEF ReadLabel, AddDescription
  <1>5. ASSUME NEW s \in 1..(at - 1), open # None, RowRead(t, s, at - 1)
        PROVE  RowRead(t, s, at - 1)'
    <2>1. at' - 1 = at /\ at \in (s + 1)..Len(t.lines) /\ s \in Nat \ {0} /\ s < at
      BY <1>2, <1>3
    <2>2. /\ at \notin Wraps(t, s)
          /\ at \in Describes(t, s) <=> Words[1].text = "description"
          /\ Describing(t, s, at) <=> Words[1].text = "description"
      BY <1>1, <1>2, <2>1, Parts
    <2>3. open' = PrintedTransaction(t, s, at)
      <3>1. CASE Words[1].text = "description"
        <4>1. open' = MoreDescribed(open, t, at)
          BY <1>2, <1>5, <3>1 DEF ReadLabel, AddDescription, MoreDescribed
        <4> QED
          BY <1>2, <1>5, <2>1, <2>2, <3>1, <4>1, PrintedByLine DEF RowRead
      <3>2. CASE Words[1].text # "description"
        <4>1. open' = open
          BY <3>2 DEF ReadLabel
        <4> QED
          BY <1>2, <1>5, <2>1, <2>2, <3>2, <4>1, PrintedByLine DEF RowRead
      <3> QED
        BY <3>1, <3>2
    <2>4. annotating' /\ (describing' <=> Words[1].text = "description")
      BY DEF ReadLabel
    <2> QED
      BY <1>1, <2>1, <2>2, <2>3, <2>4 DEF RowRead
  <1> QED
    BY <1>1, <1>3, <1>4, <1>5, RowGoesOn

\* What a plain line is.
LEMMA PlainLineIs ==
  ASSUME NEW f \in Ptr, NEW t, t = PtrTable(Lines[f]), form = f, PtrInvOf(f, t), PlainLine
  PROVE  /\ PtrLine /\ at \in t.body \ t.codes /\ at \notin t.labels
         /\ t.lines = Lines[f] /\ Words = t.lines[at].words /\ columns = t.columns
         /\ at \in 1..Len(Lines[f])
         /\ \A s \in 1..(at - 1) :
              /\ at \in (s + 1)..Len(t.lines) /\ s \in Nat \ {0} /\ s <= Len(t.lines)
              /\ at \in Wraps(t, s) <=> ~ \E j \in t.labels : s < j /\ j <= at - 1
              /\ at \in Describes(t, s) <=> Describing(t, s, at - 1)
              /\ Describing(t, s, at) <=> Describing(t, s, at - 1)
              /\ Describing(t, s, at - 1) => \E j \in t.labels : s < j /\ j <= at - 1
              /\ (\E j \in t.labels : s < j /\ j <= at) <=> \E j \in t.labels : s < j /\ j <= at - 1
  <1>1. PtrLine /\ at \in t.body \ t.codes /\ at \notin t.labels
    BY PtrAtLine DEF PlainLine, TableLine
  <1>2. /\ at \in 1..Len(Lines[f]) /\ at \in DOMAIN Lines[f] /\ Len(Lines[f]) \in Nat
        /\ t.lines = Lines[f] /\ Words = t.lines[at].words /\ columns = t.columns
    BY <1>1, PtrAtLine DEF PtrInvOf
  <1>3. t.labels \subseteq Nat
    BY PtrTableIs, FormAssumption DEF TextLines
  <1>4. ASSUME NEW s \in 1..(at - 1)
        PROVE  /\ at \in (s + 1)..Len(t.lines) /\ s \in Nat \ {0} /\ s <= Len(t.lines)
               /\ at \in Wraps(t, s) <=> ~ \E j \in t.labels : s < j /\ j <= at - 1
               /\ at \in Describes(t, s) <=> Describing(t, s, at - 1)
               /\ Describing(t, s, at) <=> Describing(t, s, at - 1)
               /\ Describing(t, s, at - 1) => \E j \in t.labels : s < j /\ j <= at - 1
               /\ (\E j \in t.labels : s < j /\ j <= at)
                    <=> \E j \in t.labels : s < j /\ j <= at - 1
    <2>1. at \in (s + 1)..Len(t.lines) /\ s \in Nat \ {0} /\ s <= Len(t.lines) /\ s < at
      BY <1>2
    <2>2. \A j \in t.labels : (j < at <=> j <= at - 1) /\ (j <= at <=> j <= at - 1)
      BY <1>1, <1>2, <1>3
    <2> QED
      BY <1>1, <1>2, <2>1, <2>2, Parts
  <1> QED
    BY <1>1, <1>2, <1>4

LEMMA DescribeInv ==
  ASSUME NEW f \in Ptr, NEW t, t = PtrTable(Lines[f]), form = f, PtrInvOf(f, t), Describe
  PROVE  PtrInvOf(f, t)'
  <1>1. PlainLine /\ describing /\ open # None /\ at' = at + 1
        /\ UNCHANGED <<columns, results, footer, annotating, describing>>
    BY DEF Describe
  <1>2. ASSUME NEW s \in 1..(at - 1), RowRead(t, s, at - 1)
        PROVE  RowRead(t, s, at - 1)'
    <2>1. open' = MoreDescribed(open, t, at)
      BY <1>1, PlainLineIs DEF Describe, AddDescription, MoreDescribed
    <2>2. open' = PrintedTransaction(t, s, at)
      BY <1>1, <1>2, <2>1, PlainLineIs, PrintedByLine, FormAssumption DEF RowRead
    <2>3. at' - 1 = at
      BY <1>1, PlainLineIs
    <2> QED
      BY <1>1, <1>2, <2>2, <2>3, PlainLineIs DEF RowRead
  <1> QED
    BY <1>1, <1>2, PlainLineIs, RowGoesOn

LEMMA SkipAnnotationInv ==
  ASSUME NEW f \in Ptr, NEW t, t = PtrTable(Lines[f]), form = f, PtrInvOf(f, t), SkipAnnotation
  PROVE  PtrInvOf(f, t)'
  <1>1. PlainLine /\ annotating /\ ~(describing /\ open # None) /\ at' = at + 1
        /\ UNCHANGED <<columns, results, footer, open, annotating, describing>>
    BY DEF SkipAnnotation, lineVars
  <1>2. ASSUME NEW s \in 1..(at - 1), open # None, RowRead(t, s, at - 1)
        PROVE  RowRead(t, s, at - 1)'
    <2>1. open' = PrintedTransaction(t, s, at)
      BY <1>1, <1>2, PlainLineIs, PrintedByLine, FormAssumption DEF RowRead
    <2>2. at' - 1 = at
      BY <1>1, PlainLineIs
    <2> QED
      BY <1>1, <1>2, <2>1, <2>2, PlainLineIs DEF RowRead
  <1> QED
    BY <1>1, <1>2, PlainLineIs, RowGoesOn

LEMMA ExtendInv ==
  ASSUME NEW f \in Ptr, NEW t, t = PtrTable(Lines[f]), form = f, PtrInvOf(f, t), Extend
  PROVE  PtrInvOf(f, t)'
  <1>1. PlainLine /\ ~annotating /\ at' = at + 1 /\ (open = None => open' = None)
        /\ UNCHANGED <<columns, results, footer, annotating, describing>>
    BY DEF Extend
  <1>2. ASSUME NEW s \in 1..(at - 1), open # None, RowRead(t, s, at - 1)
        PROVE  RowRead(t, s, at - 1)'
    <2>1. open' = Longer(open, t, at)
      BY <1>1, <1>2, PlainLineIs DEF Extend, Extended, Longer
    <2>2. open' = PrintedTransaction(t, s, at)
      BY <1>1, <1>2, <2>1, PlainLineIs, PrintedByLine, FormAssumption DEF RowRead
    <2>3. at' - 1 = at
      BY <1>1, PlainLineIs
    <2> QED
      BY <1>1, <1>2, <2>2, <2>3, PlainLineIs DEF RowRead
  <1> QED
    BY <1>1, <1>2, PlainLineIs, RowGoesOn

\* Of the rows that begin in these lines m are read, the last up to line e.
RowsRead(t, begin, m, e) ==
    /\ results \in Seq(Transactions(t)) /\ Len(results) = m
    /\ \A k \in 1..(m - 1) :
          results[k] = Transaction(PrintedTransaction(t, begin[k], begin[k + 1] - 1))
    /\ m # 0 => results[m] = Transaction(PrintedTransaction(t, begin[m], e))

\* The row that is open, if any, joins the results.
JoinResults ==
    results' = IF open = None THEN results ELSE Append(results, Transaction(open))

LEMMA RowJoins ==
  ASSUME NEW f \in Ptr, NEW t, t = PtrTable(Lines[f]), form = f, PtrInvOf(f, t),
         NEW i, at = i, i # 0, columns # None,
         NEW begin, NEW m, PtrBegins(t, Rows[f], begin), Begun(begin, m, i),
         PtrRead(t, begin, m, i), JoinResults
  PROVE  RowsRead(t, begin, m, i - 1)'
  <1>1. /\ t.lines = Lines[f] /\ Len(Lines[f]) \in Nat /\ results \in Seq(Transactions(t))
        /\ at \in 1..(Len(Lines[f]) + 1) /\ Begins(begin, t.codes, Len(Lines[f]))
    BY PtrTableIs, FormAssumption DEF PtrInvOf, PtrBegins
  <1>2. CASE m = 0
    BY <1>1, <1>2 DEF PtrRead, JoinResults, RowsRead
  <1>3. CASE m # 0
    <2>1. /\ m \in DOMAIN begin /\ begin[m] \in 1..Len(Lines[f]) /\ begin[m] < at
          /\ begin[m] \in t.codes /\ m \in Nat
      BY <1>1, <1>3 DEF Begun, Begins
    <2>2. open = PrintedTransaction(t, begin[m], at - 1)
      BY <1>3 DEF PtrRead
    <2>3. at - 1 \in begin[m]..Len(t.lines)
      BY <1>1, <2>1
    <2>4. open # None
      BY <2>1, <2>2, <2>3, NoneIsNothing DEF PtrHasRows
    <2>5. Transaction(open) \in Transactions(t)
      BY <1>1, <2>1, <2>2, <2>3 DEF Transactions
    <2>6. results' = Append(results, Transaction(open)) /\ Len(results) = m - 1
      BY <1>3, <2>4 DEF PtrRead, JoinResults
    <2>7. /\ results' \in Seq(Transactions(t)) /\ Len(results') = m
          /\ \A k \in 1..(m - 1) : results'[k] = results[k]
          /\ results'[m] = Transaction(open)
      <3> DEFINE S == Transactions(t)
                 e == Transaction(open)
      <3>1. results \in Seq(S) /\ e \in S /\ results' = Append(results, e)
        BY <1>1, <2>5, <2>6
      <3> HIDE DEF S, e
      <3>2. /\ Append(results, e) \in Seq(S)
            /\ Len(Append(results, e)) = Len(results) + 1
            /\ \A k \in 1..Len(results) : Append(results, e)[k] = results[k]
            /\ Append(results, e)[Len(results) + 1] = e
        BY <3>1, AppendProperties
      <3>3. m - 1 + 1 = m
        BY <2>1
      <3> QED
        BY <2>6, <3>1, <3>2, <3>3 DEF S, e
    <2> QED
      BY <1>3, <2>2, <2>7 DEF PtrRead, RowsRead
  <1> QED
    BY <1>2, <1>3

LEMMA StartTransactionInv ==
  ASSUME NEW f \in Ptr, NEW t, t = PtrTable(Lines[f]), form = f, PtrInvOf(f, t), StartTransaction
  PROVE  PtrInvOf(f, t)'
  <1>1. PtrLine /\ at \in t.codes /\ at \in t.body
    BY PtrAtLine DEF StartTransaction, TableLine
  <1>2. /\ at \in 1..Len(Lines[f]) /\ at \in DOMAIN Lines[f] /\ Len(Lines[f]) \in Nat
        /\ t.lines = Lines[f] /\ Words = t.lines[at].words
        /\ columns = t.columns /\ columns # None
    BY <1>1, PtrAtLine DEF PtrLine, PtrInvOf
  <1>3. PICK begin, m :
          PtrBegins(t, Rows[f], begin) /\ Begun(begin, m, at) /\ PtrRead(t, begin, m, at)
    BY <1>2 DEF PtrInvOf
  <1>4. Begins(begin, t.codes, Len(Lines[f])) /\ m \in Nat
    BY <1>2, <1>3 DEF PtrBegins, Begun, Begins
  <1>5. PICK k \in DOMAIN begin : begin[k] = at
    BY <1>1, <1>3 DEF PtrBegins
  <1>6. k = m + 1 /\ Begun(begin, m + 1, at + 1)
    <2>1. at \in Nat /\ Len(Lines[f]) \in Nat /\ Begun(begin, m, at)
      BY <1>2, <1>3
    <2> QED
      BY <1>4, <1>5, <2>1, BegunNext
  <1>7. FooterAbove(Lines[f], at)'
    <2>1. at \notin TableEnds(Lines[f])
      BY <1>1, <1>2, PtrTableIs
    <2> QED
      BY <1>1, <2>1, FooterStays DEF StartTransaction
  <1>8. /\ results' \in Seq(Transactions(t))
        /\ Len(results') = m
        /\ \A j \in 1..(m - 1) :
              results'[j] = Transaction(PrintedTransaction(t, begin[j], begin[j + 1] - 1))
        /\ m # 0 => results'[m] = Transaction(PrintedTransaction(t, begin[m], at - 1))
    <2>1. at # 0 /\ columns # None /\ JoinResults
      BY <1>2 DEF StartTransaction, JoinResults
    <2>2. PICK i : i = at
      OBVIOUS
    <2>3. RowsRead(t, begin, m, i - 1)'
      BY <1>3, <2>1, <2>2, RowJoins
    <2> QED
      BY <2>2, <2>3 DEF RowsRead
  <1>9. PtrRead(t, begin, m + 1, at)'
    <2>1. open' = PrintedTransaction(t, at, at)
      BY <1>2, PrintedByLine DEF StartTransaction
    <2>2. ~Describing(t, at, at) /\ ~ \E j \in t.labels : at < j /\ j < at + 1
      BY <1>2, PtrTableIs, FormAssumption DEF Describing, TextLines
    <2>3. \A j \in 1..m : results'[j] = Transaction(PrintedTransaction(t, begin[j], begin[j + 1] - 1))
      BY <1>4, <1>5, <1>6, <1>8
    <2>4. at' = at + 1 /\ at' - 1 = at /\ ~annotating' /\ ~describing'
      BY <1>2 DEF StartTransaction
    <2>5. /\ begin[m + 1] = at /\ m + 1 # 0 /\ (m + 1) - 1 = m
          /\ Len(results') = m
      BY <1>4, <1>5, <1>6, <1>8
    <2>6. annotating' <=> \E j \in t.labels : at < j /\ j < at + 1
      BY <2>2, <2>4
    <2>7. describing' <=> Describing(t, at, at)
      BY <2>2, <2>4
    <2> QED
      BY <2>1, <2>3, <2>4, <2>5, <2>6, <2>7 DEF PtrRead
  <1> QED
    BY <1>1, <1>3, <1>6, <1>7, <1>8, <1>9, PtrAdvance DEF StartTransaction

LEMMA ReturnTransactionsInv ==
  ASSUME NEW f \in Ptr, NEW t, t = PtrTable(Lines[f]), form = f, PtrInvOf(f, t),
         ReturnTransactions
  PROVE  PtrInvOf(f, t)'
  <1>1. /\ at' = 0 /\ columns' = columns /\ at # 0
        /\ results' = IF open = None THEN results ELSE Append(results, Transaction(open))
    BY DEF ReturnTransactions
  <1>2. Len(Lines[f]) \in Nat /\ t.lines = Lines[f] /\ columns = t.columns
        /\ DOMAIN Lines[f] = 1..Len(Lines[f])
    BY FormAssumption, PtrTableIs DEF PtrInvOf
  <1>3. AllReadBack(Rows[f])'
    <2>1. CASE columns = None
      <3>1. results' = <<>>
        BY <1>1, <2>1 DEF PtrInvOf
      <3>2. Rows[f] = <<>>
        BY <1>2, <2>1, FormsArePrinted DEF PtrIsPrinted
      <3> QED
        BY <3>1, <3>2 DEF AllReadBack
    <2>2. CASE columns # None
      <3>1. at = Len(Lines[f]) + 1
        BY <1>1, <1>2, <2>2 DEF ReturnTransactions, LineLeft, PtrInvOf
      <3>2. PICK begin, m :
              PtrBegins(t, Rows[f], begin) /\ Begun(begin, m, at) /\ PtrRead(t, begin, m, at)
        BY <1>1, <2>2 DEF PtrInvOf
      <3>3. m = Len(begin) /\ m \in Nat /\ m = Len(Rows[f]) /\ DOMAIN begin = 1..m
        <4>1. Begins(begin, t.codes, Len(Lines[f])) /\ Len(begin) = Len(Rows[f])
          BY <1>2, <3>2 DEF PtrBegins
        <4>2. m = Len(begin)
          BY <1>2, <3>1, <3>2, <4>1, AllBegun
        <4> QED
          BY <4>1, <4>2 DEF Begins
      <3>4. /\ results' \in Seq(Transactions(t))
            /\ Len(results') = m
            /\ \A j \in 1..(m - 1) :
                  results'[j] = Transaction(PrintedTransaction(t, begin[j], begin[j + 1] - 1))
            /\ m # 0 => results'[m] = Transaction(PrintedTransaction(t, begin[m], at - 1))
        <4>1. PICK i : i = at
          OBVIOUS
        <4>2. RowsRead(t, begin, m, i - 1)'
          BY <1>1, <2>2, <3>2, <4>1, RowJoins DEF JoinResults
        <4> QED
          BY <4>1, <4>2 DEF RowsRead
      <3>5. DOMAIN results' = 1..m
        BY <3>4, LenProperties
      <3>6. ASSUME NEW k \in 1..m PROVE results'[k] = Rows[f][k]
        <4>1. Rows[f][k] = Transaction(PrintedTransaction(t, begin[k], RowEnd(Len(t.lines), begin, k)))
          BY <3>2, <3>3 DEF PtrBegins
        <4>2. CASE k = m
          BY <1>2, <3>1, <3>3, <3>4, <4>1, <4>2 DEF RowEnd
        <4>3. CASE k < m
          BY <3>3, <3>4, <4>1, <4>3 DEF RowEnd
        <4> QED
          BY <3>3, <4>2, <4>3
      <3> QED
        BY <3>3, <3>4, <3>5, <3>6 DEF AllReadBack
    <2> QED
      BY <2>1, <2>2
  <1> QED
    BY <1>1, <1>2, <1>3 DEF PtrInvOf

\* Every step on a transaction report.
LEMMA PtrStepInv ==
  ASSUME NEW f \in Ptr, NEW t, t = PtrTable(Lines[f]), form = f, PtrInvOf(f, t), PtrStep
  PROVE  PtrInvOf(f, t)'
  BY SkipHeaderInv, ReachFooterInv, SkipBelowFooterInv, StartTransactionInv, ReadLabelInv,
     DescribeInv, SkipAnnotationInv, ExtendInv, ReturnTransactionsInv DEF PtrStep

LEMMA PtrInitInv ==
  ASSUME NEW f \in Ptr, NEW t, t = PtrTable(Lines[f]), form = f, InitForms
  PROVE  PtrInvOf(f, t)
  <1>1. /\ columns = t.columns /\ at = 1 /\ open = None /\ results = <<>> /\ footer = 0
        /\ Len(Lines[f]) \in Nat
    BY PtrTableIs, FormAssumption DEF InitForms
  <1>2. FooterAbove(Lines[f], at)
    BY <1>1, FormAssumption DEF FooterAbove, TableEnds, TextLines
  <1>3. ASSUME columns # None
        PROVE  \E begin, m :
                 PtrBegins(t, Rows[f], begin) /\ Begun(begin, m, at) /\ PtrRead(t, begin, m, at)
    <2>1. PICK begin : PtrBegins(t, Rows[f], begin)
      BY <1>1, <1>3, PtrBeginsExist
    <2>2. Begun(begin, 0, at)
      BY <1>1, <2>1 DEF PtrBegins, Begins, Begun
    <2>3. PtrRead(t, begin, 0, at)
      BY <1>1 DEF PtrRead
    <2> QED
      BY <2>1, <2>2, <2>3
  <1>4. results \in Seq(Transactions(t))
    BY <1>1, EmptySeq
  <1> QED
    BY <1>1, <1>2, <1>3, <1>4 DEF PtrInvOf

-----------------------------------------------------------------------------
(***************************************************************************)
(* The rows of Schedule A, line by line.                                   *)
(***************************************************************************)
HeadingsOf(lines) == {i \in DOMAIN lines : IsSchedule(lines[i].words)}
BeginsOf(lines) == {i \in HeadingsOf(lines) : lines[i].words[2].text = "A"}
EndsOf(lines) == {i \in HeadingsOf(lines) \ BeginsOf(lines) : \E j \in BeginsOf(lines) : j < i}
TextIn(f, t) == TextOf(Lines[f], WithinA(Lines[f]), t.headers)

LEMMA WithinAIs ==
  ASSUME NEW lines
  PROVE  WithinA(lines)
           = {i \in DOMAIN lines \ HeadingsOf(lines) :
                (\E j \in BeginsOf(lines) : j < i) /\ ~ \E j \in EndsOf(lines) : j < i}
  BY DEF WithinA, HeadingsOf, BeginsOf, EndsOf

LEMMA ReportTableIs ==
  ASSUME NEW f \in Annual, NEW t, t = ReportTable(Lines[f])
  PROVE  /\ t.lines = Lines[f]
         /\ t.headers = {i \in WithinA(Lines[f]) : IsReportHeader(Lines[f][i].words)}
         /\ t.labels = {i \in TextIn(f, t) : IsLabel(Lines[f][i].words)}
         /\ t.holds = {i \in TextIn(f, t) \ t.labels : ~Blank(t.zones[i])}
  BY DEF ReportTable, TextIn

\* The columns of a line are those of the last header row above it.
LEMMA ZonesAre ==
  ASSUME NEW f \in Annual, NEW t, t = ReportTable(Lines[f]), NEW i \in TextIn(f, t)
  PROVE  t.zones[i] = Zones(ReportColumns(Lines[f][LastBefore(t.headers, i)].words, Margin),
                            Lines[f][i].words)
  <1>1. Margin = PrintMargin
    BY DEF Margin, PrintMargin
  <1>2. t.zones = [j \in TextIn(f, t) |-> ZonesOf(Lines[f], t.headers, j)]
    BY DEF ReportTable, TextIn
  <1>3. t.zones[i] = ZonesOf(Lines[f], t.headers, i)
    BY <1>2
  <1> QED
    BY <1>1, <1>3 DEF ZonesOf

\* The parts of a table are lines of the report, and apart.
LEMMA ReportParts ==
  ASSUME NEW f \in Annual, NEW t, t = ReportTable(Lines[f])
  PROVE  /\ t.lines = Lines[f] /\ Len(Lines[f]) \in Nat
         /\ DOMAIN Lines[f] = 1..Len(Lines[f])
         /\ t.headers \subseteq WithinA(Lines[f]) /\ t.labels \subseteq WithinA(Lines[f])
         /\ t.holds \subseteq WithinA(Lines[f])
         /\ WithinA(Lines[f]) \subseteq DOMAIN Lines[f] /\ WithinA(Lines[f]) \subseteq Nat
         /\ t.holds \cap t.labels = {}
         /\ \A i \in t.headers : i \notin t.labels /\ i \notin t.holds
  <1>1. t.lines = Lines[f] /\ Len(Lines[f]) \in Nat /\ DOMAIN Lines[f] = 1..Len(Lines[f])
    BY ReportTableIs, FormAssumption
  <1>2. WithinA(Lines[f]) \subseteq DOMAIN Lines[f] /\ WithinA(Lines[f]) \subseteq Nat
    BY <1>1, WithinAIs
  <1>3. TextIn(f, t) \subseteq WithinA(Lines[f]) \ t.headers
    BY DEF TextIn, TextOf
  <1>4. /\ t.headers \subseteq WithinA(Lines[f])
        /\ t.labels \subseteq TextIn(f, t)
        /\ t.holds \subseteq TextIn(f, t) \ t.labels
    BY ReportTableIs
  <1> QED
    BY <1>1, <1>2, <1>3, <1>4

LEMMA HoldingByLine ==
  ASSUME NEW f \in Annual, NEW t, t = ReportTable(Lines[f]), NEW s \in t.holds
  PROVE  /\ PrintedHolding(t, s, s) = FirstLine(t.zones[s])
         /\ \A i \in (s + 1)..Len(t.lines) :
              /\ i \notin OwnLines(t, s) => PrintedHolding(t, s, i) = PrintedHolding(t, s, i - 1)
              /\ i \in OwnLines(t, s) /\ ~HasOwner(t.zones[i]) =>
                    PrintedHolding(t, s, i) = AddLine(PrintedHolding(t, s, i - 1), t.zones[i])
  <1> DEFINE n == Len(t.lines)
             column(z) == [i \in t.holds |-> t.zones[i][z]]
             J(z) == Joined(column(z), s, OwnLines(t, s), n)
             own == FirstLine(t.zones[s]).owner
  <1>1. /\ s \in Nat /\ n \in Nat /\ s <= n /\ OwnLines(t, s) \subseteq t.holds
        /\ s \in TextIn(f, t)
    <2>1. s \in TextIn(f, t) /\ OwnLines(t, s) \subseteq t.holds
      BY ReportTableIs DEF OwnLines
    <2>2. s \in DOMAIN Lines[f] /\ t.lines = Lines[f] /\ Len(Lines[f]) \in Nat
          /\ DOMAIN Lines[f] = 1..Len(Lines[f])
      BY ReportParts
    <2> QED
      BY <2>1, <2>2
  <1>2. ASSUME NEW z
        PROVE  /\ J(z)[s] = t.zones[s][z]
               /\ \A i \in (s + 1)..n :
                    J(z)[i] = IF i \in OwnLines(t, s) THEN J(z)[i - 1] \o t.zones[i][z]
                              ELSE J(z)[i - 1]
    <2> DEFINE text == column(z)
    <2>1. \A i \in t.holds : text[i] = t.zones[i][z]
      OBVIOUS
    <2> HIDE DEF text
    <2>2. /\ J(z)[s] = text[s]
          /\ \A i \in (s + 1)..n :
               J(z)[i] = IF i \in OwnLines(t, s) THEN J(z)[i - 1] \o text[i] ELSE J(z)[i - 1]
      BY <1>1, JoinedIs DEF text
    <2> HIDE DEF J
    <2> QED
      BY <1>1, <2>1, <2>2
  <1>3. \A e : PrintedHolding(t, s, e)
                 = [asset |-> J("asset")[e], owner |-> own, value |-> J("value")[e],
                    incomeType |-> J("incomeType")[e], income |-> J("income")[e]]
    BY DEF PrintedHolding
  <1> HIDE DEF J
  <1>4. PrintedHolding(t, s, s) = FirstLine(t.zones[s])
    <2>1. PICK c, ws : t.zones[s] = Zones(c, ws)
      BY <1>1, ZonesAre
    <2>2. PICK a, o, v, y, x :
            t.zones[s] = [asset |-> a, owner |-> o, value |-> v, incomeType |-> y, income |-> x]
      BY <2>1, Zenon DEF Zones
    <2> DEFINE newOwner == IF HasOwner(t.zones[s]) THEN t.zones[s].owner[1].text ELSE None
               first == [asset |-> a, owner |-> newOwner, value |-> v,
                         incomeType |-> y, income |-> x]
    <2>3. FirstLine(t.zones[s]) = [t.zones[s] EXCEPT !.owner = newOwner]
      BY DEF FirstLine
    <2> HIDE DEF newOwner
    <2>4. [[asset |-> a, owner |-> o, value |-> v, incomeType |-> y, income |-> x]
              EXCEPT !.owner = newOwner] = first
      OBVIOUS
    <2>5. FirstLine(t.zones[s]) = first
      BY <2>2, <2>3, <2>4, Zenon
    <2>6. own = newOwner
      BY <2>5
    <2> HIDE DEF own
    <2> QED
      BY <1>2, <1>3, <2>2, <2>5, <2>6
  <1>5. ASSUME NEW i \in (s + 1)..n
        PROVE  /\ i \notin OwnLines(t, s) => PrintedHolding(t, s, i) = PrintedHolding(t, s, i - 1)
               /\ i \in OwnLines(t, s) /\ ~HasOwner(t.zones[i]) =>
                    PrintedHolding(t, s, i) = AddLine(PrintedHolding(t, s, i - 1), t.zones[i])
    <2> DEFINE q == PrintedHolding(t, s, i - 1)
               Parted(a, v, y, x) == [asset |-> a, owner |-> own, value |-> v,
                                      incomeType |-> y, income |-> x]
    <2> HIDE DEF own
    <2>1. \A e : PrintedHolding(t, s, e)
                   = Parted(J("asset")[e], J("value")[e], J("incomeType")[e], J("income")[e])
      BY <1>3
    <2>2. /\ q.asset = J("asset")[i - 1] /\ q.owner = own /\ q.value = J("value")[i - 1]
          /\ q.incomeType = J("incomeType")[i - 1] /\ q.income = J("income")[i - 1]
      <3>1. q = Parted(J("asset")[i - 1], J("value")[i - 1],
                    J("incomeType")[i - 1], J("income")[i - 1])
        BY <2>1
      <3> HIDE DEF q
      <3> QED
        BY <3>1
    <2>3. CASE i \notin OwnLines(t, s)
      <3>1. \A z : J(z)[i] = J(z)[i - 1]
        BY <1>2, <2>3
      <3> HIDE DEF Parted
      <3> QED
        BY <2>1, <2>3, <3>1
    <2>4. CASE i \in OwnLines(t, s) /\ ~HasOwner(t.zones[i])
      <3>1. \A z : J(z)[i] = J(z)[i - 1] \o t.zones[i][z]
        BY <1>2, <2>4
      <3>2. AddLine(q, t.zones[i])
              = Parted(q.asset \o t.zones[i].asset, q.value \o t.zones[i].value,
                    q.incomeType \o t.zones[i].incomeType, q.income \o t.zones[i].income)
        BY <2>2, <2>4 DEF AddLine
      <3> HIDE DEF Parted, q
      <3>3. AddLine(q, t.zones[i])
              = Parted(J("asset")[i], J("value")[i], J("incomeType")[i], J("income")[i])
        BY <2>2, <3>1, <3>2
      <3> QED
        BY <2>1, <2>4, <3>3 DEF q
    <2> QED
      BY <2>3, <2>4
  <1> QED
    BY <1>4, <1>5

\* After its last own line a row stays as it is.
LEMMA HoldingStays ==
  ASSUME NEW f \in Annual, NEW t, t = ReportTable(Lines[f]), NEW s \in t.holds,
         NEW e \in s..Len(t.lines), NEW d \in e..Len(t.lines),
         \A i \in OwnLines(t, s) : i <= e
  PROVE  PrintedHolding(t, s, d) = PrintedHolding(t, s, e)
  <1> DEFINE P(i) == PrintedHolding(t, s, i)
             C == {i \in e..d : P(i) # P(e)}
  <1>1. s \in Nat /\ Len(t.lines) \in Nat /\ e \in Nat /\ d \in Nat /\ d <= Len(t.lines)
    <2>1. s \in Nat /\ Len(t.lines) \in Nat
      BY ReportParts
    <2> QED
      BY <2>1
  <1> SUFFICES ASSUME C # {} PROVE FALSE
    <2>1. d \in e..d
      BY <1>1
    <2>2. P(d) = P(e)
      <3> HIDE DEF P
      <3> QED
        BY <2>1
    <2> QED
      BY <2>2
  <1>2. PICK i \in C : \A k \in C : ~(k < i)
    <2>1. C \in SUBSET Nat
      BY <1>1
    <2> HIDE DEF C
    <2> QED
      BY <2>1, LeastNumber
  <1>3. i \in (s + 1)..Len(t.lines) /\ i > e /\ i - 1 \in e..d /\ P(i) # P(e)
    BY <1>1, <1>2
  <1>4. P(i - 1) = P(e)
    BY <1>1, <1>2, <1>3
  <1>5. i \notin OwnLines(t, s)
    BY <1>1, <1>3
  <1> QED
    BY <1>3, <1>4, <1>5, HoldingByLine

-----------------------------------------------------------------------------
(***************************************************************************)
(* The invariant of parse_schedule_a.                                      *)
(***************************************************************************)
Holdings(t) ==
    {Holding(PrintedHolding(t, s, e)) : s \in 1..Len(t.lines), e \in 1..Len(t.lines)}

ReportBegins(t, rows, begin) ==
    /\ Begins(begin, t.holds, Len(t.lines))
    /\ Len(begin) = Len(rows) /\ begin \in HoldingLines(t, rows)
    /\ \A i \in t.holds : begin # <<>> /\ begin[1] <= i
    /\ \A k \in DOMAIN begin : IsHolding(t, rows, begin, k)

ReportRead(t, begin, m, i) ==
    IF m = 0 THEN open = None /\ results = <<>>
    ELSE /\ open = PrintedHolding(t, begin[m], i - 1)
         /\ Len(results) = m - 1
         /\ \A k \in 1..(m - 1) :
               results[k] = Holding(PrintedHolding(t, begin[k], begin[k + 1] - 1))
         /\ annotating <=> \E j \in t.labels : begin[m] < j /\ j < i

\* Which schedule line i is in, and under which header row.
ScheduleAbove(f, t, i) ==
    /\ inA <=> \E j \in BeginsOf(Lines[f]) : j < i
    /\ \A j \in EndsOf(Lines[f]) : ~(j < i)
    /\ \A j \in Mistaken(Lines[f]) : ~(j < i)
    /\ IF \E h \in t.headers : h < i
       THEN \E h \in t.headers :
              /\ h < i /\ \A k \in t.headers : ~(h < k /\ k < i)
              /\ columns = ReportColumns(Lines[f][h].words, Margin)
       ELSE columns = None

\* What is read when the loop has returned.
ReportReturned(f, t) ==
    \E begin \in HoldingLines(t, Rows[f]) :
        /\ DOMAIN results
             = {k \in DOMAIN begin : \A i \in Mistaken(Lines[f]) : begin[k] < i}
        /\ \A k \in DOMAIN results : results[k] = Rows[f][k]

ReportInvOf(f, t) ==
    /\ at \in 0..(Len(Lines[f]) + 1)
    /\ at # 0 =>
          /\ ScheduleAbove(f, t, at)
          /\ results \in Seq(Holdings(t))
          /\ \E begin, m : /\ ReportBegins(t, Rows[f], begin) /\ Begun(begin, m, at)
                           /\ ReportRead(t, begin, m, at)
    /\ at = 0 => ReportReturned(f, t)

LEMMA ReportBeginsExist ==
  ASSUME NEW f \in Annual, NEW t, t = ReportTable(Lines[f])
  PROVE  \E begin : ReportBegins(t, Rows[f], begin)
  <1> DEFINE n == Len(Rows[f])
  <1>1. PICK begin \in [1..n -> t.holds] :
            /\ InOrder(begin) /\ (\A i \in t.holds : begin # <<>> /\ begin[1] <= i)
            /\ \A k \in DOMAIN begin : IsHolding(t, Rows[f], begin, k)
            /\ begin \in HoldingLines(t, Rows[f])
    <2>1. PICK begin : begin \in HoldingLines(t, Rows[f])
      BY FormsArePrinted DEF ReportIsPrinted
    <2> QED
      BY <2>1 DEF HoldingLines
  <1>2. n \in Nat
    BY FormAssumption
  <1>3. begin \in Seq(t.holds)
    <2> HIDE DEF n
    <2> QED
      BY <1>1, <1>2, SeqDef
  <1>4. Len(begin) \in Nat /\ DOMAIN begin = 1..Len(begin)
    BY <1>3, LenProperties
  <1>5. Len(begin) = n
    <2> DEFINE l == Len(begin)
    <2>1. l \in Nat /\ 1..l = 1..n
      BY <1>1, <1>4
    <2> HIDE DEF l, n
    <2> QED
      BY <1>2, <2>1 DEF l
  <1>6. \A i \in t.holds : i \in 1..Len(t.lines)
    BY ReportParts
  <1>7. Begins(begin, t.holds, Len(t.lines))
    BY <1>1, <1>4, <1>6 DEF Begins
  <1> QED
    BY <1>1, <1>5, <1>7 DEF ReportBegins

\* Where the line that is next belongs.
LEMMA ReportAtLine ==
  ASSUME NEW f \in Annual, NEW t, t = ReportTable(Lines[f]),
         form = f, ReportInvOf(f, t), ReportLine
  PROVE  /\ at \in 1..Len(Lines[f]) /\ at \in DOMAIN Lines[f] /\ at # 0 /\ at \in Nat
         /\ Len(Lines[f]) \in Nat /\ Words = Lines[f][at].words
         /\ ScheduleAbove(f, t, at)
         /\ at \in HeadingsOf(Lines[f]) => IsHeading(Words)
         /\ IsHeading(Words) /\ at \notin HeadingsOf(Lines[f]) =>
               /\ Words[1].class = "nul" /\ Words[1].text = "subholding"
               /\ Words[2].text # "A"
         /\ at \in WithinA(Lines[f]) <=> inA /\ at \notin HeadingsOf(Lines[f])
         /\ at \in Mistaken(Lines[f]) <=> at \in WithinA(Lines[f]) /\ IsHeading(Words)
  <1>1. /\ at \in 1..Len(Lines[f]) /\ at \in DOMAIN Lines[f] /\ at # 0 /\ at \in Nat
        /\ Len(Lines[f]) \in Nat /\ Words = Lines[f][at].words
    BY FormAssumption DEF ReportLine, LineLeft, Words
  <1>2. ScheduleAbove(f, t, at)
    BY <1>1 DEF ReportInvOf
  <1>3. at \in HeadingsOf(Lines[f]) <=> IsSchedule(Words)
    BY <1>1 DEF HeadingsOf
  <1>4. at \in HeadingsOf(Lines[f]) => IsHeading(Words)
    BY <1>3 DEF IsSchedule, IsHeading
  <1>5. ASSUME IsHeading(Words), at \notin HeadingsOf(Lines[f])
        PROVE  Words[1].class = "nul" /\ Words[1].text = "subholding" /\ Words[2].text # "A"
    <2>1. Words[1].class = "nul" /\ Words[1].text = "subholding" /\ Len(Words) > 1
      BY <1>3, <1>5 DEF IsSchedule, IsHeading
    <2> QED
      BY <1>1, <2>1, SubholdingsAreLabels
  <1>6. at \in WithinA(Lines[f]) <=> inA /\ at \notin HeadingsOf(Lines[f])
    BY <1>1, <1>2, WithinAIs DEF ScheduleAbove
  <1>7. at \in Mistaken(Lines[f]) <=> at \in WithinA(Lines[f]) /\ IsHeading(Words)
    BY <1>1 DEF Mistaken
  <1> QED
    BY <1>1, <1>2, <1>4, <1>5, <1>6, <1>7

\* A line the loop reads as one of the schedule.
LEMMA ScheduleLineIs ==
  ASSUME NEW f \in Annual, NEW t, t = ReportTable(Lines[f]),
         form = f, ReportInvOf(f, t), InScheduleA
  PROVE  /\ ReportLine /\ at \in Nat /\ Words = Lines[f][at].words
         /\ ScheduleAbove(f, t, at) /\ at \in WithinA(Lines[f])
         /\ at \notin HeadingsOf(Lines[f]) /\ at \notin Mistaken(Lines[f])
  BY ReportAtLine DEF InScheduleA

LEMMA ReportAdvance ==
  ASSUME NEW f \in Annual, NEW t, t = ReportTable(Lines[f]),
         form = f, ReportInvOf(f, t), ReportLine, at' = at + 1,
         ScheduleAbove(f, t, at)', (results \in Seq(Holdings(t)))',
         NEW begin, NEW m, ReportBegins(t, Rows[f], begin), Begun(begin, m, at + 1),
         ReportRead(t, begin, m, at)'
  PROVE  ReportInvOf(f, t)'
  <1>1. at \in 1..Len(Lines[f]) /\ Len(Lines[f]) \in Nat
    BY ReportAtLine
  <1>2. at' \in 0..(Len(Lines[f]) + 1) /\ at' # 0
    BY <1>1
  <1> QED
    BY <1>2 DEF ReportInvOf

\* A line that is neither a heading, nor taken for one, nor a header row.
LEMMA ScheduleStays ==
  ASSUME NEW f \in Annual, NEW t, t = ReportTable(Lines[f]),
         form = f, ReportInvOf(f, t), ReportLine, at' = at + 1, UNCHANGED columns, inA' <=> inA,
         at \notin HeadingsOf(Lines[f]), at \notin Mistaken(Lines[f]), at \notin t.headers
  PROVE  ScheduleAbove(f, t, at)'
  <1>1. at \in Nat /\ ScheduleAbove(f, t, at)
    BY ReportAtLine
  <1>2. /\ \A j \in BeginsOf(Lines[f]) : j \in Nat /\ j # at
        /\ \A j \in EndsOf(Lines[f]) : j \in Nat /\ j # at
    BY FormAssumption DEF BeginsOf, EndsOf, HeadingsOf
  <1>3. /\ \A h \in t.headers : h \in Nat /\ h # at
        /\ \A j \in Mistaken(Lines[f]) : j \in Nat /\ j # at
    BY ReportParts DEF Mistaken
  <1> QED
    BY <1>1, <1>2, <1>3 DEF ScheduleAbove

\* A line that holds nothing.
LEMMA NothingHeld ==
  ASSUME NEW f \in Annual, NEW t, t = ReportTable(Lines[f]),
         form = f, ReportInvOf(f, t), ReportLine, at' = at + 1,
         at \notin t.holds, UNCHANGED <<results, open>>, ScheduleAbove(f, t, at)',
         annotating' <=> annotating \/ at \in t.labels
  PROVE  ReportInvOf(f, t)'
  <1>1. /\ at \in 1..Len(Lines[f]) /\ at \in Nat /\ t.lines = Lines[f]
        /\ Len(Lines[f]) \in Nat /\ results \in Seq(Holdings(t))
    BY ReportAtLine, ReportParts DEF ReportInvOf
  <1>2. PICK begin, m :
          ReportBegins(t, Rows[f], begin) /\ Begun(begin, m, at) /\ ReportRead(t, begin, m, at)
    BY <1>1 DEF ReportInvOf
  <1>3. Begins(begin, t.holds, Len(Lines[f])) /\ \A k \in DOMAIN begin : begin[k] # at
    BY <1>1, <1>2 DEF ReportBegins, Begins
  <1>4. Begun(begin, m, at + 1)
    BY <1>1, <1>2, <1>3, BegunSame
  <1>5. ReportRead(t, begin, m, at)'
    <2>1. CASE m = 0
      BY <1>2, <2>1 DEF ReportRead
    <2>2. CASE m # 0
      <3>1. /\ m \in DOMAIN begin /\ begin[m] \in 1..Len(Lines[f]) /\ begin[m] < at
            /\ begin[m] \in t.holds
        BY <1>2, <1>3, <2>2 DEF Begun, Begins
      <3>2. at \notin OwnLines(t, begin[m]) /\ at \in (begin[m] + 1)..Len(t.lines)
        BY <1>1, <3>1 DEF OwnLines
      <3>3. PrintedHolding(t, begin[m], at) = PrintedHolding(t, begin[m], at - 1)
        BY <3>1, <3>2, HoldingByLine
      <3>4. t.labels \subseteq Nat
        BY ReportParts
      <3>5. (\E j \in t.labels : begin[m] < j /\ j < at + 1)
              <=> (\E j \in t.labels : begin[m] < j /\ j < at) \/ at \in t.labels
        BY <1>1, <3>1, <3>4
      <3>6. at' - 1 = at
        BY <1>1
      <3> QED
        BY <1>2, <2>2, <3>3, <3>5, <3>6 DEF ReportRead
    <2> QED
      BY <2>1, <2>2
  <1> QED
    BY <1>1, <1>2, <1>4, <1>5, ReportAdvance

LEMMA EnterScheduleInv ==
  ASSUME NEW f \in Annual, NEW t, t = ReportTable(Lines[f]), form = f, ReportInvOf(f, t),
         EnterSchedule
  PROVE  ReportInvOf(f, t)'
  <1>1. /\ ReportLine /\ IsHeading(Words) /\ (~inA \/ Words[2].text = "A")
        /\ at' = at + 1 /\ inA' = (Words[2].text = "A")
        /\ UNCHANGED <<results, open, annotating, columns>>
    BY DEF EnterSchedule, NextLine
  <1>2. at \in Nat /\ ScheduleAbove(f, t, at) /\ Words = Lines[f][at].words
    BY <1>1, ReportAtLine
  <1>3. at \notin WithinA(Lines[f])
    BY <1>1, ReportAtLine
  <1>4. /\ at \notin t.holds /\ at \notin t.labels /\ at \notin t.headers
        /\ at \notin Mistaken(Lines[f])
    BY <1>3, ReportParts DEF Mistaken
  <1>5. CASE at \in HeadingsOf(Lines[f])
    <2>1. at \in BeginsOf(Lines[f]) <=> Words[2].text = "A"
      BY <1>2, <1>5 DEF BeginsOf
    <2>2. at \notin EndsOf(Lines[f])
      BY <1>1, <1>2, <2>1 DEF EndsOf, ScheduleAbove
    <2>3. /\ \A j \in BeginsOf(Lines[f]) : j \in Nat
          /\ \A j \in EndsOf(Lines[f]) : j \in Nat
      BY FormAssumption DEF BeginsOf, EndsOf, HeadingsOf
    <2>4. /\ \A h \in t.headers : h \in Nat /\ h # at
          /\ \A j \in Mistaken(Lines[f]) : j \in Nat /\ j # at
      BY <1>4, ReportParts DEF Mistaken
    <2>5. inA' <=> \E j \in BeginsOf(Lines[f]) : j < at + 1
      <3>1. inA <=> \E j \in BeginsOf(Lines[f]) : j < at
        BY <1>2 DEF ScheduleAbove
      <3>2. CASE Words[2].text = "A"
        <4>1. inA'
          BY <1>1, <3>2, Zenon
        <4>2. at \in BeginsOf(Lines[f]) /\ at < at + 1
          BY <1>2, <2>1, <3>2
        <4> QED
          BY <4>1, <4>2, Zenon
      <3>3. CASE Words[2].text # "A"
        <4>1. ~inA' /\ at \notin BeginsOf(Lines[f]) /\ ~inA
          BY <1>1, <2>1, <3>3, Zenon
        <4>2. \A j \in BeginsOf(Lines[f]) : ~(j < at) /\ j # at
          BY <3>1, <4>1
        <4> QED
          BY <1>2, <2>3, <4>1, <4>2
      <3> QED
        BY <3>2, <3>3
    <2>6. /\ \A j \in EndsOf(Lines[f]) : ~(j < at + 1)
          /\ \A j \in Mistaken(Lines[f]) : ~(j < at + 1)
      BY <1>2, <2>2, <2>3, <2>4 DEF ScheduleAbove
    <2>7. ScheduleAbove(f, t, at)'
      BY <1>1, <1>2, <2>4, <2>5, <2>6 DEF ScheduleAbove
    <2> QED
      BY <1>1, <1>4, <2>7, NothingHeld
  <1>6. CASE at \notin HeadingsOf(Lines[f])
    <2>1. Words[2].text # "A"
      BY <1>1, <1>6, ReportAtLine
    <2>2. UNCHANGED columns /\ (inA' <=> inA)
      BY <1>1, <2>1, Zenon
    <2> QED
      BY <1>1, <1>4, <1>6, <2>2, ScheduleStays, NothingHeld
  <1> QED
    BY <1>5, <1>6

LEMMA SkipOtherScheduleInv ==
  ASSUME NEW f \in Annual, NEW t, t = ReportTable(Lines[f]), form = f, ReportInvOf(f, t),
         SkipOtherSchedule
  PROVE  ReportInvOf(f, t)'
  <1>1. /\ ReportLine /\ ~inA /\ ~IsHeading(Words) /\ at' = at + 1
        /\ UNCHANGED <<results, open, annotating, columns, inA>>
    BY DEF SkipOtherSchedule, NextLine
  <1>2. at \notin HeadingsOf(Lines[f]) /\ at \notin WithinA(Lines[f])
    BY <1>1, ReportAtLine
  <1>3. /\ at \notin t.holds /\ at \notin t.labels /\ at \notin t.headers
        /\ at \notin Mistaken(Lines[f])
    BY <1>2, ReportParts DEF Mistaken
  <1> QED
    BY <1>1, <1>2, <1>3, ScheduleStays, NothingHeld

LEMMA ReadHeaderInv ==
  ASSUME NEW f \in Annual, NEW t, t = ReportTable(Lines[f]), form = f, ReportInvOf(f, t),
         ReadHeader
  PROVE  ReportInvOf(f, t)'
  <1>1. /\ ReportLine /\ InScheduleA /\ IsReportHeader(Words) /\ at' = at + 1
        /\ columns' = ReportColumns(Words, Margin)
        /\ UNCHANGED <<results, open, annotating, inA>>
    BY DEF ReadHeader, NextLine, InScheduleA
  <1>2. /\ at \in Nat /\ Words = Lines[f][at].words /\ at \in WithinA(Lines[f])
        /\ ScheduleAbove(f, t, at) /\ at \notin HeadingsOf(Lines[f])
        /\ at \notin Mistaken(Lines[f])
    BY <1>1, ScheduleLineIs
  <1>3. at \in t.headers /\ at \notin t.holds /\ at \notin t.labels
    <2>1. at \in t.headers
      BY <1>1, <1>2, ReportTableIs
    <2> QED
      BY <2>1, ReportParts
  <1>4. ScheduleAbove(f, t, at)'
    <2>1. /\ \A j \in BeginsOf(Lines[f]) : j \in Nat /\ j # at
          /\ \A j \in EndsOf(Lines[f]) : j \in Nat /\ j # at
      BY <1>2, FormAssumption DEF BeginsOf, EndsOf, HeadingsOf
    <2>2. /\ \A h \in t.headers : h \in Nat
          /\ \A j \in Mistaken(Lines[f]) : j \in Nat /\ j # at
      BY <1>2, ReportParts DEF Mistaken
    <2>3. /\ at < at + 1 /\ \A k \in t.headers : ~(at < k /\ k < at + 1)
          /\ columns' = ReportColumns(Lines[f][at].words, Margin)
      BY <1>1, <1>2, <2>2
    <2>4. inA' <=> \E j \in BeginsOf(Lines[f]) : j < at + 1
      BY <1>1, <1>2, <2>1 DEF ScheduleAbove
    <2>5. /\ \A j \in EndsOf(Lines[f]) : ~(j < at + 1)
          /\ \A j \in Mistaken(Lines[f]) : ~(j < at + 1)
      BY <1>2, <2>1, <2>2 DEF ScheduleAbove
    <2> QED
      BY <1>1, <1>3, <2>3, <2>4, <2>5 DEF ScheduleAbove
  <1> QED
    BY <1>1, <1>3, <1>4, NothingHeld

\* What the loop makes of a line of the schedule under the header rows read.
LEMMA TextLineIs ==
  ASSUME NEW f \in Annual, NEW t, t = ReportTable(Lines[f]), form = f, ReportInvOf(f, t),
         InScheduleA, ~IsReportHeader(Words)
  PROVE  /\ ReportLine /\ at \notin HeadingsOf(Lines[f]) /\ at \notin Mistaken(Lines[f])
         /\ at \notin t.headers
         /\ IsNote(Words) => at \notin TextIn(f, t)
         /\ ~IsNote(Words) => /\ at \in TextIn(f, t)
                              /\ t.zones[at] = Zones(columns, Words)
                              /\ at \in t.labels <=> IsLabel(Words)
                              /\ at \in t.holds <=> HoldingLine /\ ~Blank(Zones(columns, Words))
  <1>1. /\ ReportLine /\ at \in Nat /\ Words = Lines[f][at].words /\ at \in WithinA(Lines[f])
        /\ ScheduleAbove(f, t, at) /\ at \notin HeadingsOf(Lines[f])
        /\ at \notin Mistaken(Lines[f])
    BY ScheduleLineIs
  <1>2. at \notin t.headers
    BY <1>1, ReportTableIs
  <1>3. IsNote(Words) => at \notin TextIn(f, t)
    <2>1. ASSUME columns = None PROVE ~ \E h \in t.headers : h < at
      <3>1. SUFFICES ASSUME \E h \in t.headers : h < at PROVE FALSE
        OBVIOUS
      <3>2. PICK h \in t.headers : columns = ReportColumns(Lines[f][h].words, Margin)
        BY <1>1, <3>1 DEF ScheduleAbove
      <3>3. ReportHasRows(t) /\ t.lines = Lines[f]
        BY NoneIsNothing, ReportParts
      <3> QED
        BY <2>1, <3>2, <3>3 DEF ReportHasRows, Margin, PrintMargin
    <2> QED
      BY <1>1, <2>1 DEF IsNote, TextIn, TextOf
  <1>4. ASSUME ~IsNote(Words)
        PROVE  at \in TextIn(f, t) /\ t.zones[at] = Zones(columns, Words)
    <2>1. columns # None /\ Words[1].class # "note"
      BY <1>4 DEF IsNote
    <2>2. PICK h \in t.headers :
            /\ h < at /\ \A k \in t.headers : ~(h < k /\ k < at)
            /\ columns = ReportColumns(Lines[f][h].words, Margin)
      BY <1>1, <2>1 DEF ScheduleAbove
    <2>3. at \in TextIn(f, t)
      BY <1>1, <1>2, <2>1, <2>2 DEF TextIn, TextOf
    <2>4. LastBefore(t.headers, at) = h
      <3>1. t.headers \subseteq Nat
        BY ReportParts
      <3>2. ASSUME NEW g \in t.headers, g < at, \A k \in t.headers : ~(g < k /\ k < at)
            PROVE  g = h
        BY <2>2, <3>1, <3>2
      <3> QED
        BY <2>2, <3>2 DEF LastBefore
    <2> QED
      BY <1>1, <2>2, <2>3, <2>4, ZonesAre
  <1>5. ASSUME ~IsNote(Words)
        PROVE  /\ at \in t.labels <=> IsLabel(Words)
               /\ at \in t.holds <=> HoldingLine /\ ~Blank(Zones(columns, Words))
    <2>1. at \in t.labels <=> IsLabel(Words)
      BY <1>1, <1>4, <1>5, ReportTableIs
    <2>2. at \in t.holds <=> at \notin t.labels /\ ~Blank(t.zones[at])
      BY <1>4, <1>5, ReportTableIs
    <2> QED
      BY <1>4, <1>5, <2>1, <2>2 DEF HoldingLine
  <1> QED
    BY <1>1, <1>2, <1>3, <1>4, <1>5

LEMMA SkipNoteInv ==
  ASSUME NEW f \in Annual, NEW t, t = ReportTable(Lines[f]), form = f, ReportInvOf(f, t),
         SkipNote
  PROVE  ReportInvOf(f, t)'
  <1>1. /\ InScheduleA /\ ~IsReportHeader(Words) /\ IsNote(Words) /\ at' = at + 1
        /\ UNCHANGED <<results, open, annotating, columns, inA>>
    BY DEF SkipNote, NextLine
  <1>2. /\ ReportLine /\ at \notin HeadingsOf(Lines[f]) /\ at \notin t.headers
        /\ at \notin Mistaken(Lines[f])
        /\ at \notin TextIn(f, t)
    BY <1>1, TextLineIs
  <1>3. at \notin t.holds /\ at \notin t.labels
    BY <1>2, ReportTableIs
  <1> QED
    BY <1>1, <1>2, <1>3, ScheduleStays, NothingHeld

LEMMA ReadAnnotationInv ==
  ASSUME NEW f \in Annual, NEW t, t = ReportTable(Lines[f]), form = f, ReportInvOf(f, t),
         ReadAnnotation
  PROVE  ReportInvOf(f, t)'
  <1>1. /\ InScheduleA /\ ~IsReportHeader(Words) /\ ~IsNote(Words) /\ IsLabel(Words)
        /\ at' = at + 1 /\ annotating' /\ UNCHANGED <<results, open, columns, inA>>
    BY DEF ReadAnnotation, NextLine
  <1>2. /\ ReportLine /\ at \notin HeadingsOf(Lines[f]) /\ at \notin t.headers
        /\ at \notin Mistaken(Lines[f])
        /\ at \in t.labels
    BY <1>1, TextLineIs
  <1>3. at \notin t.holds
    BY <1>2, ReportTableIs
  <1> QED
    BY <1>1, <1>2, <1>3, ScheduleStays, NothingHeld

LEMMA SkipGlyphsInv ==
  ASSUME NEW f \in Annual, NEW t, t = ReportTable(Lines[f]), form = f, ReportInvOf(f, t),
         SkipGlyphs
  PROVE  ReportInvOf(f, t)'
  <1>1. /\ InScheduleA /\ ~IsReportHeader(Words) /\ ~IsNote(Words) /\ ~IsLabel(Words)
        /\ Blank(Zones(columns, Words)) /\ at' = at + 1
        /\ UNCHANGED <<results, open, annotating, columns, inA>>
    BY DEF SkipGlyphs, HoldingLine, NextLine
  <1>2. /\ ReportLine /\ at \notin HeadingsOf(Lines[f]) /\ at \notin t.headers
        /\ at \notin Mistaken(Lines[f])
        /\ at \notin t.labels /\ at \notin t.holds
    BY <1>1, TextLineIs
  <1> QED
    BY <1>1, <1>2, ScheduleStays, NothingHeld

\* A line that holds something under the header rows read.
LEMMA HeldLineIs ==
  ASSUME NEW f \in Annual, NEW t, t = ReportTable(Lines[f]), form = f, ReportInvOf(f, t),
         HoldingLine, ~Blank(Zones(columns, Words))
  PROVE  /\ ReportLine /\ at \in t.holds /\ at \notin t.labels /\ at \in Nat
         /\ Zones(columns, Words) = t.zones[at]
         /\ at' = at + 1 /\ UNCHANGED <<columns, inA>> => ScheduleAbove(f, t, at)'
  <1>1. InScheduleA /\ ~IsReportHeader(Words) /\ ~IsNote(Words) /\ ~IsLabel(Words)
    BY DEF HoldingLine
  <1>2. /\ ReportLine /\ at \notin HeadingsOf(Lines[f]) /\ at \notin t.headers
        /\ at \notin Mistaken(Lines[f])
        /\ at \in t.holds /\ at \notin t.labels /\ Zones(columns, Words) = t.zones[at]
    BY <1>1, TextLineIs
  <1>3. at \in Nat
    BY <1>2, ReportAtLine
  <1> QED
    BY <1>2, <1>3, ScheduleStays

\* The loop opens a row where the form begins one.
LEMMA OpensWhereItBegins ==
  ASSUME NEW f \in Annual, NEW t, t = ReportTable(Lines[f]), at \in t.holds, at \in Nat,
         NEW begin, NEW m, ReportBegins(t, Rows[f], begin), Begun(begin, m, at),
         ReportRead(t, begin, m, at)
  PROVE  OpensRow(t.zones[at]) <=> \E k \in DOMAIN begin : begin[k] = at
  <1> DEFINE n == Len(t.lines)
  <1>1. /\ n \in Nat /\ at \in 1..n /\ at \notin t.labels /\ t.labels \subseteq Nat
    BY ReportParts
  <1>2. Begins(begin, t.holds, n)
    BY DEF ReportBegins
  <1> HIDE DEF n
  <1>3. CASE m = 0
    <2>1. OpensRow(t.zones[at])
      BY <1>3 DEF ReportRead, OpensRow
    <2>2. begin # <<>> /\ begin[1] <= at
      BY DEF ReportBegins
    <2>3. 1 \in DOMAIN begin
      <3>1. Len(begin) # 0
        BY <1>2, <2>2 DEF Begins
      <3> QED
        BY <1>2, <3>1 DEF Begins
    <2>4. begin[1] = at
      <3>1. ~(begin[1] < at) /\ begin[1] \in Nat
        BY <1>2, <1>3, <2>3 DEF Begun, Begins
      <3> QED
        BY <2>2, <3>1
    <2> QED
      BY <2>1, <2>3, <2>4
  <1>4. CASE m # 0
    <2> DEFINE s == begin[m]
               z == t.zones[at]
               row == PrintedHolding(t, s, at - 1)
    <2>1. m \in DOMAIN begin /\ m \in Nat /\ s \in 1..n /\ s < at /\ s \in t.holds
      BY <1>2, <1>4 DEF Begun, Begins
    <2>2. open = row /\ (annotating <=> \E j \in t.labels : s < j /\ j < at)
      BY <1>4 DEF ReportRead
    <2>3. row # None
      <3>1. at - 1 \in s..n
        BY <1>1, <2>1
      <3> QED
        BY <2>1, <3>1, NoneIsNothing DEF ReportHasRows, n
    <2>4. Reaches(s, t.labels, at) <=> ~annotating
      BY <1>1, <2>1, <2>2 DEF Reaches
    <2>5. BeginsNext(t, s, at)
            <=> \/ StartsValue(z.value) /\ (row.value = <<>> \/ Last(row.value).class # "dash")
                \/ HasOwner(z) /\ Reaches(s, t.labels, at)
      BY DEF BeginsNext
    <2>6. ValueOpen <=> row.value # <<>> /\ Last(row.value).class = "dash"
      <3> HIDE DEF row
      <3> QED
        BY <2>2, <2>3 DEF ValueOpen
    <2>7. OpensRow(z) <=> BeginsNext(t, s, at)
      <3> HIDE DEF row, z
      <3> QED
        BY <2>2, <2>3, <2>4, <2>5, <2>6, Zenon DEF OpensRow
    <2>8. IsHolding(t, Rows[f], begin, m)
      BY <2>1 DEF ReportBegins
    <2>9. ASSUME NEW k \in DOMAIN begin, begin[k] = at
          PROVE  BeginsNext(t, s, at)
      <3>1. k = m + 1
        BY <1>1, <1>2, <2>9, BegunNext
      <3>2. m < Len(begin)
        BY <1>2, <2>1, <3>1 DEF Begins
      <3> QED
        BY <2>8, <2>9, <3>1, <3>2 DEF IsHolding
    <2>10. ASSUME \A k \in DOMAIN begin : begin[k] # at
           PROVE  ~BeginsNext(t, s, at)
      <3>1. at <= RowEnd(n, begin, m)
        <4>1. CASE m < Len(begin)
          <5>1. m + 1 \in DOMAIN begin
            BY <1>2, <2>1, <4>1 DEF Begins
          <5>2. begin[m + 1] \in 1..n /\ begin[m + 1] # at /\ ~(begin[m + 1] < at)
            BY <1>2, <2>1, <2>10, <5>1 DEF Begun, Begins
          <5> QED
            BY <1>1, <4>1, <5>2 DEF RowEnd
        <4>2. CASE ~(m < Len(begin))
          BY <1>1, <4>2 DEF RowEnd
        <4> QED
          BY <4>1, <4>2
      <3> QED
        BY <2>1, <2>8, <3>1 DEF IsHolding, n
    <2> QED
      BY <2>7, <2>9, <2>10
  <1> QED
    BY <1>3, <1>4

\* The row that is open began on an earlier line of the table.
LEMMA OpenRowBegan ==
  ASSUME NEW f \in Annual, NEW t, t = ReportTable(Lines[f]), NEW i \in Nat,
         NEW begin, NEW m, ReportBegins(t, Rows[f], begin), Begun(begin, m, i), m # 0
  PROVE  /\ m \in Nat /\ m \in DOMAIN begin /\ begin[m] \in t.holds
         /\ begin[m] \in 1..Len(t.lines) /\ begin[m] < i
         /\ i \in t.holds => i \in (begin[m] + 1)..Len(t.lines)
  <1> DEFINE n == Len(t.lines)
  <1>1. /\ Begins(begin, t.holds, n) /\ n \in Nat
        /\ i \in t.holds => i \in 1..n
    BY ReportParts DEF ReportBegins
  <1> HIDE DEF n
  <1>2. m \in Nat /\ m \in DOMAIN begin /\ m <= m
    BY <1>1 DEF Begun, Begins
  <1>3. begin[m] \in t.holds /\ begin[m] \in 1..n /\ begin[m] < i
    BY <1>1, <1>2 DEF Begun, Begins
  <1> QED
    BY <1>1, <1>2, <1>3 DEF n

\* A line within a row.
LEMMA HoldingGoesOn ==
  ASSUME NEW f \in Annual, NEW t, t = ReportTable(Lines[f]),
         form = f, ReportInvOf(f, t), ReportLine, at' = at + 1, ScheduleAbove(f, t, at)',
         at \in t.holds, UNCHANGED <<results, annotating>>,
         NEW begin, NEW m, ReportBegins(t, Rows[f], begin), Begun(begin, m, at), m # 0,
         ReportRead(t, begin, m, at), \A k \in DOMAIN begin : begin[k] # at,
         open' = PrintedHolding(t, begin[m], at)
  PROVE  ReportInvOf(f, t)'
  <1>1. /\ at \in Nat /\ at \notin t.labels /\ t.labels \subseteq Nat
        /\ Len(Lines[f]) \in Nat /\ t.lines = Lines[f] /\ results \in Seq(Holdings(t))
    BY ReportAtLine, ReportParts DEF ReportInvOf
  <1>2. Begun(begin, m, at + 1)
    BY <1>1, BegunSame DEF ReportBegins
  <1>3. ReportRead(t, begin, m, at)'
    <2>1. (\E j \in t.labels : begin[m] < j /\ j < at + 1)
            <=> (\E j \in t.labels : begin[m] < j /\ j < at)
      BY <1>1
    <2>2. at' - 1 = at
      BY <1>1
    <2> QED
      BY <2>1, <2>2 DEF ReportRead
  <1> QED
    BY <1>1, <1>2, <1>3, ReportAdvance

LEMMA SkipAnnotationTextInv ==
  ASSUME NEW f \in Annual, NEW t, t = ReportTable(Lines[f]), form = f, ReportInvOf(f, t),
         SkipAnnotationText
  PROVE  ReportInvOf(f, t)'
  <1>1. /\ HoldingLine /\ ~Blank(Zones(columns, Words)) /\ annotating
        /\ ~OpensRow(Zones(columns, Words)) /\ at' = at + 1
        /\ UNCHANGED <<results, open, annotating, columns, inA>>
    BY DEF SkipAnnotationText, NextLine
  <1>2. /\ ReportLine /\ at \in t.holds /\ at \in Nat /\ ~OpensRow(t.zones[at])
        /\ ScheduleAbove(f, t, at)'
    BY <1>1, HeldLineIs
  <1>3. PICK begin, m :
          ReportBegins(t, Rows[f], begin) /\ Begun(begin, m, at) /\ ReportRead(t, begin, m, at)
    BY <1>2, ReportAtLine DEF ReportInvOf
  <1>4. \A k \in DOMAIN begin : begin[k] # at
    BY <1>2, <1>3, OpensWhereItBegins
  <1>5. m # 0
    BY <1>2, <1>3 DEF ReportRead, OpensRow
  <1>6. open' = PrintedHolding(t, begin[m], at)
    <2>1. begin[m] \in t.holds /\ begin[m] < at /\ at \in (begin[m] + 1)..Len(t.lines)
      BY <1>2, <1>3, <1>5, OpenRowBegan
    <2>2. at \notin OwnLines(t, begin[m])
      <3>1. PICK j \in t.labels : begin[m] < j /\ j < at
        BY <1>1, <1>3, <1>5 DEF ReportRead
      <3>2. j \in Nat
        BY ReportParts
      <3> QED
        BY <1>2, <3>1, <3>2 DEF OwnLines, Reaches
    <2>3. PrintedHolding(t, begin[m], at) = PrintedHolding(t, begin[m], at - 1)
      BY <2>1, <2>2, HoldingByLine
    <2> QED
      BY <1>1, <1>3, <1>5, <2>3 DEF ReportRead
  <1> QED
    BY <1>1, <1>2, <1>3, <1>4, <1>5, <1>6, HoldingGoesOn

LEMMA ContinueRowInv ==
  ASSUME NEW f \in Annual, NEW t, t = ReportTable(Lines[f]), form = f, ReportInvOf(f, t),
         ContinueRow
  PROVE  ReportInvOf(f, t)'
  <1>1. /\ HoldingLine /\ ~Blank(Zones(columns, Words)) /\ ~annotating
        /\ ~OpensRow(Zones(columns, Words)) /\ at' = at + 1
        /\ open' = AddLine(open, Zones(columns, Words))
        /\ UNCHANGED <<results, annotating, columns, inA>>
    BY DEF ContinueRow, NextLine
  <1>2. /\ ReportLine /\ at \in t.holds /\ at \in Nat /\ ~OpensRow(t.zones[at])
        /\ open' = AddLine(open, t.zones[at]) /\ ScheduleAbove(f, t, at)' /\ at \notin t.labels
    BY <1>1, HeldLineIs
  <1>3. PICK begin, m :
          ReportBegins(t, Rows[f], begin) /\ Begun(begin, m, at) /\ ReportRead(t, begin, m, at)
    BY <1>2, ReportAtLine DEF ReportInvOf
  <1>4. \A k \in DOMAIN begin : begin[k] # at
    BY <1>2, <1>3, OpensWhereItBegins
  <1>5. m # 0
    BY <1>2, <1>3 DEF ReportRead, OpensRow
  <1>6. open' = PrintedHolding(t, begin[m], at)
    <2>1. begin[m] \in t.holds /\ begin[m] < at /\ at \in (begin[m] + 1)..Len(t.lines)
      BY <1>2, <1>3, <1>5, OpenRowBegan
    <2>2. at \in OwnLines(t, begin[m])
      <3>1. \A j \in t.labels : ~(begin[m] < j /\ j < at)
        BY <1>1, <1>3, <1>5 DEF ReportRead
      <3>2. \A j \in t.labels : j \in Nat /\ j # at
        BY <1>2, ReportParts
      <3> QED
        BY <1>2, <2>1, <3>1, <3>2 DEF OwnLines, Reaches
    <2>3. ~HasOwner(t.zones[at])
      BY <1>1, <1>2 DEF OpensRow
    <2>4. PrintedHolding(t, begin[m], at) = AddLine(PrintedHolding(t, begin[m], at - 1), t.zones[at])
      BY <2>1, <2>2, <2>3, HoldingByLine
    <2> QED
      BY <1>2, <1>3, <1>5, <2>4 DEF ReportRead
  <1> QED
    BY <1>1, <1>2, <1>3, <1>4, <1>5, <1>6, HoldingGoesOn

\* Of the rows that begin in these lines m are read, the last up to line e.
HoldingsRead(t, begin, m, e) ==
    /\ results \in Seq(Holdings(t)) /\ Len(results) = m
    /\ \A k \in 1..(m - 1) :
          results[k] = Holding(PrintedHolding(t, begin[k], begin[k + 1] - 1))
    /\ m # 0 => results[m] = Holding(PrintedHolding(t, begin[m], e))

HasContent(row) == row.asset # <<>> \/ row.value # <<>>

LEMMA HoldingJoins ==
  ASSUME NEW f \in Annual, NEW t, t = ReportTable(Lines[f]), form = f, ReportInvOf(f, t),
         NEW i \in Nat, at = i, i # 0,
         NEW begin, NEW m, ReportBegins(t, Rows[f], begin), Begun(begin, m, i),
         ReportRead(t, begin, m, i), results' = Flushed,
         m # 0 => HasContent(PrintedHolding(t, begin[m], i - 1))
  PROVE  HoldingsRead(t, begin, m, i - 1)'
  <1>1. results \in Seq(Holdings(t)) /\ i <= Len(t.lines) + 1 /\ Len(t.lines) \in Nat
    BY ReportParts DEF ReportInvOf
  <1>2. CASE m = 0
    BY <1>1, <1>2 DEF ReportRead, Flushed, HoldingsRead
  <1>3. CASE m # 0
    <2>1. /\ m \in Nat /\ begin[m] \in t.holds /\ begin[m] \in 1..Len(t.lines) /\ begin[m] < i
      BY <1>3, OpenRowBegan
    <2>2. open = PrintedHolding(t, begin[m], i - 1)
      BY <1>3 DEF ReportRead
    <2>3. i - 1 \in begin[m]..Len(t.lines)
      BY <1>1, <2>1
    <2>4. open # None
      BY <2>1, <2>2, <2>3, NoneIsNothing DEF ReportHasRows
    <2>5. Holding(open) \in Holdings(t)
      BY <1>1, <2>1, <2>2, <2>3 DEF Holdings
    <2>6. results' = Append(results, Holding(open)) /\ Len(results) = m - 1
      <3>1. HasContent(open)
        BY <1>3, <2>2
      <3> QED
        BY <1>3, <2>4, <3>1 DEF ReportRead, Flushed, HasContent
    <2>7. /\ results' \in Seq(Holdings(t)) /\ Len(results') = m
          /\ \A k \in 1..(m - 1) : results'[k] = results[k]
          /\ results'[m] = Holding(open)
      <3> DEFINE S == Holdings(t)
                 e == Holding(open)
      <3>1. results \in Seq(S) /\ e \in S /\ results' = Append(results, e)
        BY <1>1, <2>5, <2>6
      <3> HIDE DEF S, e
      <3>2. /\ Append(results, e) \in Seq(S)
            /\ Len(Append(results, e)) = Len(results) + 1
            /\ \A k \in 1..Len(results) : Append(results, e)[k] = results[k]
            /\ Append(results, e)[Len(results) + 1] = e
        BY <3>1, AppendProperties
      <3>3. m - 1 + 1 = m
        BY <2>1
      <3> QED
        BY <2>6, <3>1, <3>2, <3>3 DEF S, e
    <2> QED
      BY <1>3, <2>2, <2>7 DEF ReportRead, HoldingsRead
  <1> QED
    BY <1>2, <1>3

LEMMA OpenRowInv ==
  ASSUME NEW f \in Annual, NEW t, t = ReportTable(Lines[f]), form = f, ReportInvOf(f, t),
         OpenRow
  PROVE  ReportInvOf(f, t)'
  <1>1. /\ HoldingLine /\ ~Blank(Zones(columns, Words)) /\ OpensRow(Zones(columns, Words))
        /\ at' = at + 1 /\ results' = Flushed /\ open' = FirstLine(Zones(columns, Words))
        /\ ~annotating' /\ UNCHANGED <<columns, inA>>
    BY DEF OpenRow, NextLine
  <1>2. /\ ReportLine /\ at \in t.holds /\ at \in Nat /\ OpensRow(t.zones[at])
        /\ open' = FirstLine(t.zones[at]) /\ ScheduleAbove(f, t, at)'
    BY <1>1, HeldLineIs
  <1>3. PICK begin, m :
          ReportBegins(t, Rows[f], begin) /\ Begun(begin, m, at) /\ ReportRead(t, begin, m, at)
    BY <1>2, ReportAtLine DEF ReportInvOf
  <1>4. PICK k \in DOMAIN begin : begin[k] = at
    BY <1>2, <1>3, OpensWhereItBegins
  <1>5. /\ Begins(begin, t.holds, Len(t.lines)) /\ Len(t.lines) \in Nat /\ m \in Nat
        /\ at # 0
    BY <1>2, <1>3, ReportParts, ReportAtLine DEF ReportBegins, Begun, Begins
  <1>6. k = m + 1 /\ Begun(begin, m + 1, at + 1)
    BY <1>2, <1>3, <1>4, <1>5, BegunNext
  <1>7. m # 0 => HasContent(PrintedHolding(t, begin[m], at - 1))
    <2> SUFFICES ASSUME m # 0 PROVE HasContent(PrintedHolding(t, begin[m], at - 1))
      OBVIOUS
    <2>1. m \in DOMAIN begin /\ m < Len(begin)
      BY <1>4, <1>5, <1>6 DEF Begins
    <2>2. RowEnd(Len(t.lines), begin, m) = at - 1
      BY <1>4, <1>6, <2>1 DEF RowEnd
    <2>3. IsHolding(t, Rows[f], begin, m)
      BY <1>3, <2>1 DEF ReportBegins
    <2> QED
      BY <2>2, <2>3 DEF IsHolding, HasContent
  <1>8. PICK i : i = at
    OBVIOUS
  <1>9. HoldingsRead(t, begin, m, i - 1)'
    BY <1>1, <1>2, <1>3, <1>5, <1>7, <1>8, HoldingJoins
  <1>10. ReportRead(t, begin, m + 1, at)'
    <2>1. open' = PrintedHolding(t, at, at)
      BY <1>2, HoldingByLine
    <2>2. ~ \E j \in t.labels : at < j /\ j < at + 1
      <3>1. t.labels \subseteq Nat
        BY ReportParts
      <3> QED
        BY <1>2, <3>1
    <2>3. \A j \in 1..m : results'[j] = Holding(PrintedHolding(t, begin[j], begin[j + 1] - 1))
      BY <1>4, <1>5, <1>6, <1>8, <1>9 DEF HoldingsRead
    <2>4. at' = at + 1 /\ at' - 1 = at /\ ~annotating' /\ Len(results') = m
      BY <1>1, <1>2, <1>9 DEF HoldingsRead
    <2> QED
      BY <1>4, <1>5, <1>6, <2>1, <2>2, <2>3, <2>4 DEF ReportRead
  <1> QED
    BY <1>1, <1>2, <1>3, <1>6, <1>9, <1>10, ReportAdvance DEF HoldingsRead

\* A row that began above is whole when the loop returns, and the others begin
\* below a label that is taken for a heading, or not at all.
LEMMA HoldingsReturned ==
  ASSUME NEW f \in Annual, NEW t, t = ReportTable(Lines[f]), form = f, ReportInvOf(f, t),
         at # 0, results' = Flushed,
         at \in Mistaken(Lines[f]) \/ \A i \in t.holds : i < at,
         \A s \in t.holds : s < at => \A i \in OwnLines(t, s) : i < at
  PROVE  ReportReturned(f, t)'
  <1>1. PICK i : i = at
    OBVIOUS
  <1>2. /\ i \in Nat /\ i # 0 /\ i <= Len(t.lines) + 1 /\ Len(t.lines) \in Nat
        /\ t.holds \subseteq Nat
    <2>1. t.lines = Lines[f] /\ Len(Lines[f]) \in Nat /\ t.holds \subseteq Nat
      BY ReportParts
    <2> QED
      BY <1>1, <2>1 DEF ReportInvOf
  <1>3. PICK begin, m :
          ReportBegins(t, Rows[f], begin) /\ Begun(begin, m, i) /\ ReportRead(t, begin, m, i)
    BY <1>1, <1>2 DEF ReportInvOf
  <1>4. /\ begin \in HoldingLines(t, Rows[f])
        /\ Len(begin) \in Nat /\ DOMAIN begin = 1..Len(begin) /\ m \in 0..Len(begin)
        /\ \A k \in DOMAIN begin :
              /\ begin[k] \in t.holds /\ begin[k] \in 1..Len(t.lines)
              /\ begin[k] < i <=> k <= m
    BY <1>3 DEF ReportBegins, Begins, Begun
  <1>5. ASSUME m # 0
        PROVE  /\ m \in DOMAIN begin
               /\ PrintedHolding(t, begin[m], RowEnd(Len(t.lines), begin, m))
                    = PrintedHolding(t, begin[m], i - 1)
               /\ HasContent(PrintedHolding(t, begin[m], i - 1))
    <2> DEFINE end == RowEnd(Len(t.lines), begin, m)
    <2>1. /\ begin[m] \in t.holds /\ begin[m] \in 1..Len(t.lines) /\ begin[m] < i
          /\ m \in DOMAIN begin
      BY <1>2, <1>3, <1>5, OpenRowBegan
    <2>2. i - 1 \in begin[m]..Len(t.lines) /\ \A j \in OwnLines(t, begin[m]) : j <= i - 1
      <3>1. \A j \in OwnLines(t, begin[m]) : j < i /\ j \in Nat
        BY <1>1, <1>2, <2>1 DEF OwnLines
      <3> QED
        BY <1>2, <2>1, <3>1
    <2>3. end \in (i - 1)..Len(t.lines)
      <3>1. CASE m < Len(begin)
        <4>1. m + 1 \in DOMAIN begin
          BY <1>4, <3>1
        <4>2. begin[m + 1] \in 1..Len(t.lines) /\ ~(begin[m + 1] < i)
          BY <1>4, <4>1
        <4> QED
          BY <1>2, <3>1, <4>2 DEF RowEnd
      <3>2. CASE ~(m < Len(begin))
        BY <1>2, <3>2 DEF RowEnd
      <3> QED
        BY <3>1, <3>2
    <2> HIDE DEF end
    <2>4. PrintedHolding(t, begin[m], end) = PrintedHolding(t, begin[m], i - 1)
      BY <2>1, <2>2, <2>3, HoldingStays
    <2>5. IsHolding(t, Rows[f], begin, m)
      BY <1>3, <2>1 DEF ReportBegins
    <2>6. HasContent(PrintedHolding(t, begin[m], end))
      BY <2>5 DEF IsHolding, HasContent, end
    <2> QED
      BY <2>1, <2>4, <2>6 DEF end
  <1>6. HoldingsRead(t, begin, m, i - 1)'
    BY <1>1, <1>2, <1>3, <1>5, HoldingJoins
  <1>7. /\ results' \in Seq(Holdings(t)) /\ Len(results') = m
        /\ \A j \in 1..(m - 1) :
              results'[j] = Holding(PrintedHolding(t, begin[j], begin[j + 1] - 1))
        /\ m # 0 => results'[m] = Holding(PrintedHolding(t, begin[m], i - 1))
    BY <1>6 DEF HoldingsRead
  <1>8. DOMAIN results' = 1..m
    BY <1>7, LenProperties
  <1>9. ASSUME NEW k \in 1..m PROVE results'[k] = Rows[f][k]
    <2>1. Rows[f][k] = Holding(PrintedHolding(t, begin[k], RowEnd(Len(t.lines), begin, k)))
      BY <1>3, <1>4 DEF ReportBegins, IsHolding
    <2>2. CASE k = m
      BY <1>4, <1>5, <1>7, <2>1, <2>2
    <2>3. CASE k < m
      BY <1>4, <1>7, <2>1, <2>3 DEF RowEnd
    <2> QED
      BY <1>4, <2>2, <2>3
  <1>10. ASSUME NEW k \in DOMAIN begin
         PROVE  k \in 1..m <=> \A j \in Mistaken(Lines[f]) : begin[k] < j
    <2>1. \A j \in Mistaken(Lines[f]) : j \in Nat /\ ~(j < i)
      <3>1. \A j \in Mistaken(Lines[f]) : j \in Nat
        BY ReportParts DEF Mistaken
      <3> QED
        BY <1>1, <3>1 DEF ReportInvOf, ScheduleAbove
    <2>2. /\ k \in 1..m <=> begin[k] < i
          /\ begin[k] \in t.holds /\ begin[k] \in Nat
      BY <1>2, <1>4, <1>10
    <2>3. i \in Mistaken(Lines[f]) \/ begin[k] < i
      BY <1>1, <2>2
    <2> QED
      BY <1>2, <2>1, <2>2, <2>3
  <1>11. DOMAIN results' = {k \in DOMAIN begin : \A j \in Mistaken(Lines[f]) : begin[k] < j}
    BY <1>4, <1>8, <1>10
  <1> QED
    BY <1>4, <1>8, <1>9, <1>11 DEF ReportReturned

LEMMA LeaveScheduleAInv ==
  ASSUME NEW f \in Annual, NEW t, t = ReportTable(Lines[f]), form = f, ReportInvOf(f, t),
         LeaveScheduleA
  PROVE  ReportInvOf(f, t)'
  <1>1. /\ ReportLine /\ IsHeading(Words) /\ inA /\ Words[2].text # "A"
        /\ at' = 0 /\ results' = Flushed
    BY DEF LeaveScheduleA
  <1>2. /\ at \in Nat /\ at # 0 /\ ScheduleAbove(f, t, at) /\ Words = Lines[f][at].words
        /\ Len(Lines[f]) \in Nat /\ t.holds \subseteq Nat
    BY <1>1, ReportAtLine, ReportParts
  <1>3. CASE at \in HeadingsOf(Lines[f])
    <2>1. at \in EndsOf(Lines[f])
      BY <1>1, <1>2, <1>3 DEF EndsOf, BeginsOf, ScheduleAbove
    <2>2. \A i \in t.holds : i < at
      <3> SUFFICES ASSUME NEW i \in t.holds PROVE i < at
        OBVIOUS
      <3>1. i \in WithinA(Lines[f]) /\ i \in Nat
        BY ReportParts
      <3>2. ~(at < i) /\ i # at
        BY <1>3, <2>1, <3>1, WithinAIs
      <3> QED
        BY <1>2, <3>1, <3>2
    <2>3. \A s \in t.holds : \A i \in OwnLines(t, s) : i < at
      BY <2>2 DEF OwnLines
    <2>4. ReportReturned(f, t)'
      BY <1>1, <1>2, <2>2, <2>3, HoldingsReturned
    <2> QED
      BY <1>1, <1>2, <2>4 DEF ReportInvOf
  <1>4. CASE at \notin HeadingsOf(Lines[f])
    <2>1. /\ at \in Mistaken(Lines[f]) /\ at \in WithinA(Lines[f])
          /\ Words[1].class = "nul" /\ Words[1].text = "subholding"
      BY <1>1, <1>4, ReportAtLine
    <2>2. ASSUME NEW s \in t.holds, s < at PROVE \A i \in OwnLines(t, s) : i < at
      <3>1. at \in TextIn(f, t)
        <4>1. at \notin t.headers
          BY <1>2, <2>1, ReportTableIs DEF IsReportHeader
        <4>2. s \in TextIn(f, t) /\ s \in Nat
          BY <1>2, ReportTableIs
        <4>3. PICK h \in t.headers : h < s
          BY <4>2 DEF TextIn, TextOf
        <4>4. h \in Nat
          BY ReportParts
        <4>5. h < at
          BY <1>2, <2>2, <4>2, <4>3, <4>4
        <4> QED
          BY <1>2, <2>1, <4>1, <4>5 DEF TextIn, TextOf
      <3>2. at \in t.labels
        BY <1>2, <2>1, <3>1, ReportTableIs DEF IsLabel
      <3> SUFFICES ASSUME NEW i \in OwnLines(t, s), ~(i < at) PROVE FALSE
        OBVIOUS
      <3>3. i \in Nat /\ Reaches(s, t.labels, i)
        BY <1>2 DEF OwnLines
      <3> QED
        BY <1>2, <2>2, <3>2, <3>3 DEF Reaches
    <2>3. ReportReturned(f, t)'
      BY <1>1, <1>2, <2>1, <2>2, HoldingsReturned
    <2> QED
      BY <1>1, <1>2, <2>3 DEF ReportInvOf
  <1> QED
    BY <1>3, <1>4

LEMMA ReturnHoldingsInv ==
  ASSUME NEW f \in Annual, NEW t, t = ReportTable(Lines[f]), form = f, ReportInvOf(f, t),
         ReturnHoldings
  PROVE  ReportInvOf(f, t)'
  <1>1. at # 0 /\ ~LineLeft /\ at' = 0 /\ results' = Flushed
    BY DEF ReturnHoldings
  <1>2. Len(Lines[f]) \in Nat /\ DOMAIN Lines[f] = 1..Len(Lines[f])
    BY ReportParts
  <1>3. at = Len(Lines[f]) + 1
    BY <1>1, <1>2 DEF LineLeft, ReportInvOf
  <1>4. \A i \in t.holds : i < at
    <2>1. \A i \in t.holds : i \in 1..Len(Lines[f])
      BY <1>2, ReportParts
    <2> QED
      BY <1>2, <1>3, <2>1
  <1>5. \A s \in t.holds : \A i \in OwnLines(t, s) : i < at
    BY <1>4 DEF OwnLines
  <1>6. ReportReturned(f, t)'
    BY <1>1, <1>4, <1>5, HoldingsReturned
  <1> QED
    BY <1>1, <1>2, <1>6 DEF ReportInvOf

\* Every step on an annual report.
LEMMA ReportStepInv ==
  ASSUME NEW f \in Annual, NEW t, t = ReportTable(Lines[f]), form = f, ReportInvOf(f, t),
         ReportStep
  PROVE  ReportInvOf(f, t)'
  BY EnterScheduleInv, LeaveScheduleAInv, SkipOtherScheduleInv, ReadHeaderInv, SkipNoteInv,
     ReadAnnotationInv, SkipGlyphsInv, SkipAnnotationTextInv, OpenRowInv, ContinueRowInv,
     ReturnHoldingsInv DEF ReportStep

LEMMA ReportInitInv ==
  ASSUME NEW f \in Annual, NEW t, t = ReportTable(Lines[f]), form = f, InitForms
  PROVE  ReportInvOf(f, t)
  <1>1. /\ columns = None /\ at = 1 /\ open = None /\ results = <<>> /\ ~inA
        /\ Len(Lines[f]) \in Nat
    BY FormAssumption DEF InitForms
  <1>2. ScheduleAbove(f, t, at)
    <2>1. /\ \A j \in BeginsOf(Lines[f]) : ~(j < 1)
          /\ \A j \in EndsOf(Lines[f]) : ~(j < 1)
      BY FormAssumption DEF BeginsOf, EndsOf, HeadingsOf
    <2>2. /\ \A h \in t.headers : h \in 1..Len(Lines[f])
          /\ \A j \in Mistaken(Lines[f]) : j \in 1..Len(Lines[f])
      BY ReportParts DEF Mistaken
    <2>3. ~ \E h \in t.headers : h < at
      BY <1>1, <2>2
    <2>4. inA <=> \E j \in BeginsOf(Lines[f]) : j < at
      BY <1>1, <2>1
    <2> QED
      BY <1>1, <2>1, <2>2, <2>3, <2>4 DEF ScheduleAbove
  <1>3. PICK begin : ReportBegins(t, Rows[f], begin)
    BY ReportBeginsExist
  <1>4. Begun(begin, 0, at)
    <2>1. Begins(begin, t.holds, Len(t.lines))
      BY <1>3 DEF ReportBegins
    <2> QED
      BY <1>1, <2>1 DEF Begins, Begun
  <1>5. ReportRead(t, begin, 0, at)
    BY <1>1 DEF ReportRead
  <1>6. results \in Seq(Holdings(t))
    BY <1>1, EmptySeq
  <1> QED
    BY <1>1, <1>2, <1>3, <1>4, <1>5, <1>6 DEF ReportInvOf

-----------------------------------------------------------------------------
(***************************************************************************)
(* Both forms.                                                             *)
(***************************************************************************)
FormsInv ==
    /\ form \in Ptr => PtrInvOf(form, PtrTable(Lines[form]))
    /\ form \in Annual => ReportInvOf(form, ReportTable(Lines[form]))

\* A form is read to its end before another may be.
LEMMA FormStays ==
  ASSUME NextForms
  PROVE  form' = form /\ ((PtrStep /\ form \in Ptr) \/ (ReportStep /\ form \in Annual))
  <1>1. PtrStep => form' = form /\ form \in Ptr
    BY DEF PtrStep, SkipHeader, ReachFooter, SkipBelowFooter, StartTransaction, ReadLabel,
           Describe, SkipAnnotation, Extend, ReturnTransactions, PlainLine, TableLine, PtrLine
  <1>2. ReportStep => form' = form /\ form \in Annual
    BY DEF ReportStep, EnterSchedule, LeaveScheduleA, SkipOtherSchedule, ReadHeader, SkipNote,
           ReadAnnotation, SkipGlyphs, SkipAnnotationText, OpenRow, ContinueRow, ReturnHoldings,
           HoldingLine, InScheduleA, ReportLine, NextLine
  <1> QED
    BY <1>1, <1>2 DEF NextForms

LEMMA FormsStep ==
  ASSUME FormsInv, [NextForms]_formVars
  PROVE  FormsInv'
  <1>1. CASE UNCHANGED formVars
    <2>1. ASSUME NEW f, NEW t, PtrInvOf(f, t) PROVE PtrInvOf(f, t)'
      BY <1>1, <2>1 DEF formVars, lineVars, PtrInvOf, PtrRead, FooterAbove, AllReadBack
    <2>2. ASSUME NEW f, NEW t, ReportInvOf(f, t) PROVE ReportInvOf(f, t)'
      BY <1>1, <2>2 DEF formVars, lineVars, ReportInvOf, ReportRead, ScheduleAbove, ReportReturned
    <2>3. PICK f : f = form
      OBVIOUS
    <2>4. f \in Ptr => PtrInvOf(f, PtrTable(Lines[f]))'
      BY <2>1, <2>3 DEF FormsInv
    <2>5. f \in Annual => ReportInvOf(f, ReportTable(Lines[f]))'
      BY <2>2, <2>3 DEF FormsInv
    <2> QED
      BY <1>1, <2>3, <2>4, <2>5 DEF FormsInv, formVars
  <1>2. CASE NextForms
    <2>1. form' = form /\ ((PtrStep /\ form \in Ptr) \/ (ReportStep /\ form \in Annual))
      BY <1>2, FormStays
    <2>2. CASE PtrStep /\ form \in Ptr
      <3>1. PICK f \in Ptr : f = form
        BY <2>2
      <3>2. PICK t : t = PtrTable(Lines[f])
        OBVIOUS
      <3>3. PtrInvOf(f, t)'
        BY <2>2, <3>1, <3>2, PtrStepInv DEF FormsInv
      <3>4. f \notin Annual
        BY FormAssumption
      <3> QED
        BY <2>1, <3>1, <3>2, <3>3, <3>4 DEF FormsInv
    <2>3. CASE ReportStep /\ form \in Annual
      <3>1. PICK f \in Annual : f = form
        BY <2>3
      <3>2. PICK t : t = ReportTable(Lines[f])
        OBVIOUS
      <3>3. ReportInvOf(f, t)'
        BY <2>3, <3>1, <3>2, ReportStepInv DEF FormsInv
      <3>4. f \notin Ptr
        BY FormAssumption
      <3> QED
        BY <2>1, <3>1, <3>2, <3>3, <3>4 DEF FormsInv
    <2> QED
      BY <2>1, <2>2, <2>3
  <1> QED
    BY <1>1, <1>2

LEMMA FormsInit ==
  ASSUME InitForms \/ IdleForms
  PROVE  FormsInv
  <1>1. CASE InitForms
    <2>1. CASE form \in Ptr
      <3>1. form \notin Annual
        BY <2>1, FormAssumption
      <3> QED
        BY <1>1, <2>1, <3>1, PtrInitInv DEF FormsInv
    <2>2. CASE form \in Annual
      <3>1. form \notin Ptr
        BY <2>2, FormAssumption
      <3> QED
        BY <1>1, <2>2, <3>1, ReportInitInv DEF FormsInv
    <2> QED
      BY <1>1, <2>1, <2>2 DEF InitForms
  <1>2. CASE IdleForms
    BY <1>2, FormAssumption DEF IdleForms, FormsInv
  <1> QED
    BY <1>1, <1>2

\* Wherever the loops are, they have read what is printed above.
LEMMA FormsInvariance == ReadersSpec => []FormsInv
  <1>1. InitReaders => FormsInv
    BY FormsInit DEF InitReaders
  <1>2. FormsInv /\ [NextReaders]_readerVars => FormsInv'
    BY FormsStep DEF NextReaders, readerVars
  <1> QED
    BY <1>1, <1>2, PTL DEF ReadersSpec

LEMMA ReadBackIs ==
  ASSUME FormsInv, NEW fields
  PROVE  ReadBack(Ptr, fields)
  BY DEF FormsInv, PtrInvOf, AllReadBack, ReadBack

-----------------------------------------------------------------------------
\* However many transactions a PTR has and however its lines wrap and its pages
\* break, each is read back with its own id, owner, kind and dates, in its place.
THEOREM TransactionsAreReadBack == ReadersSpec => []TransactionsReadBack
  <1>1. FormsInv => TransactionsReadBack
    BY ReadBackIs DEF TransactionsReadBack
  <1> QED
    BY <1>1, FormsInvariance, PTL

\* And with its asset, ticker, type, amount and option, over however many lines
\* and pages they are spread and whatever header rows, annotations, footers and
\* trailing text stand between them.
THEOREM WrappedTextIsReadBack == ReadersSpec => []WrappedTextReadBack
  <1>1. FormsInv => WrappedTextReadBack
    BY ReadBackIs DEF WrappedTextReadBack
  <1> QED
    BY <1>1, FormsInvariance, PTL

\* However long Schedule A is and wherever it stands among the others, a row
\* opens exactly where the form begins one, whatever wraps and whatever runs
\* across the columns, and what comes back is in its place: every holding that
\* begins above the first NUL-padded "Subholding Of:", which house_fd.py:122
\* takes for the heading of another schedule, and none that begins below it.
THEOREM HoldingsAreReadBack == ReadersSpec => []HoldingsReadBack
  <1>1. FormsInv => HoldingsReadBack
    BY DEF FormsInv, ReportInvOf, ReportReturned, HoldingsReadBack
  <1> QED
    BY <1>1, FormsInvariance, PTL

-----------------------------------------------------------------------------
(***************************************************************************)
(* What Collect returns.                                                   *)
(***************************************************************************)

\* What is collected after one more row.
OneMore(acc, r, wanted, once) ==
    IF r \in wanted /\ (once => r \notin ToSet(acc)) THEN Append(acc, r) ELSE acc

\* F gives what Collect has after each of the first n rows.
IsCollecting(F, page, wanted, once, n) ==
    F = [k \in 0..n |-> IF k = 0 THEN <<>> ELSE OneMore(F[k - 1], page[k], wanted, once)]

LEMMA CollectChosen ==
  ASSUME NEW page, NEW wanted, NEW once \in BOOLEAN
  PROVE  Collect(page, wanted, once)
            = (CHOOSE F : IsCollecting(F, page, wanted, once, Len(page)))[Len(page)]
  BY DEF Collect, IsCollecting, OneMore

\* Such a function takes one row at a time.
LEMMA CollectingAt ==
  ASSUME NEW page, NEW wanted, NEW once \in BOOLEAN, NEW n \in Nat, NEW F,
         IsCollecting(F, page, wanted, once, n)
  PROVE  /\ F[0] = <<>>
         /\ \A k \in 1..n : F[k] = OneMore(F[k - 1], page[k], wanted, once)
  <1> DEFINE E(k) == IF k = 0 THEN <<>>
                     ELSE OneMore(F[k - 1], page[k], wanted, once)
  <1>1. F = [k \in 0..n |-> E(k)]
    BY DEF IsCollecting
  <1>2. \A k \in 0..n : F[k] = E(k)
    <2> HIDE DEF E
    <2> QED
      BY <1>1
  <1>3. 0 \in 0..n /\ \A k \in 1..n : k \in 0..n /\ k # 0
    OBVIOUS
  <1> QED
    BY <1>2, <1>3

\* There is one for any number of rows.
LEMMA CollectingExists ==
  ASSUME NEW page, NEW wanted, NEW once \in BOOLEAN
  PROVE  \A n \in Nat : \E F : IsCollecting(F, page, wanted, once, n)
  <1> DEFINE C == {n \in Nat : ~ \E F : IsCollecting(F, page, wanted, once, n)}
  <1> SUFFICES ASSUME C # {} PROVE FALSE
    OBVIOUS
  <1>1. PICK n \in C : \A k \in C : ~(k < n)
    <2>1. C \in SUBSET Nat
      OBVIOUS
    <2> HIDE DEF C
    <2> QED
      BY <2>1, LeastNumber
  <1>2. n \in Nat /\ ~ \E F : IsCollecting(F, page, wanted, once, n)
    OBVIOUS
  <1>3. CASE n = 0
    <2> DEFINE H == [k \in 0..0 |-> <<>>]
    <2>1. IsCollecting(H, page, wanted, once, 0)
      BY DEF IsCollecting
    <2> QED
      BY <1>2, <1>3, <2>1
  <1>4. CASE n # 0
    <2>1. PICK m \in Nat : m = n - 1 /\ m \notin C
      BY <1>1, <1>2, <1>4
    <2>2. PICK G : IsCollecting(G, page, wanted, once, m)
      BY <2>1
    <2>3. G[0] = <<>> /\ \A k \in 1..m : G[k] = OneMore(G[k - 1], page[k], wanted, once)
      BY <2>1, <2>2, CollectingAt
    <2> DEFINE H == [k \in 0..n |-> IF k = n THEN OneMore(G[m], page[n], wanted, once) ELSE G[k]]
               J == [k \in 0..n |-> IF k = 0 THEN <<>> ELSE OneMore(H[k - 1], page[k], wanted, once)]
    <2>4. \A k \in 0..m : H[k] = G[k]
      BY <1>2, <2>1
    <2>5. H[n] = OneMore(G[m], page[n], wanted, once)
      BY <1>2
    <2>6. \A k \in 1..n : H[k - 1] = G[k - 1]
      <3>1. \A k \in 1..n : k - 1 \in 0..m
        BY <1>2, <2>1
      <3> HIDE DEF H
      <3> QED
        BY <2>4, <3>1
    <2>7. \A k \in 0..n : H[k] = J[k]
      <3> SUFFICES ASSUME NEW k \in 0..n
                   PROVE  H[k] = IF k = 0 THEN <<>> ELSE OneMore(H[k - 1], page[k], wanted, once)
        OBVIOUS
      <3> HIDE DEF H
      <3>1. k = 0 \/ k \in 1..m \/ k = n
        BY <1>2, <2>1
      <3>2. CASE k = 0
        BY <2>3, <2>4, <3>2
      <3>3. CASE k \in 1..m
        BY <1>2, <2>1, <2>3, <2>4, <2>6, <3>3
      <3>4. CASE k = n
        BY <1>2, <1>4, <2>1, <2>5, <2>6, <3>4
      <3> QED
        BY <3>1, <3>2, <3>3, <3>4
    <2>8. H = J
      <3>1. DOMAIN H = 0..n /\ H = [k \in DOMAIN H |-> H[k]]
        OBVIOUS
      <3>2. DOMAIN J = 0..n /\ J = [k \in DOMAIN J |-> J[k]]
        OBVIOUS
      <3> HIDE DEF H, J
      <3> QED
        BY <2>7, <3>1, <3>2
    <2>9. IsCollecting(H, page, wanted, once, n)
      <3> HIDE DEF H
      <3> QED
        BY <2>8 DEF IsCollecting
    <2> QED
      BY <1>2, <2>9
  <1> QED
    BY <1>3, <1>4

\* One more element at the end.
LEMMA AppendedSet ==
  ASSUME NEW R, NEW s \in Seq(R), NEW r \in R
  PROVE  ToSet(Append(s, r)) = ToSet(s) \cup {r}
  <1>1. /\ Len(s) \in Nat /\ DOMAIN s = 1..Len(s)
        /\ DOMAIN Append(s, r) = 1..(Len(s) + 1)
        /\ Append(s, r)[Len(s) + 1] = r /\ \A i \in 1..Len(s) : Append(s, r)[i] = s[i]
    OBVIOUS
  <1>2. \A i : i \in 1..(Len(s) + 1) <=> i \in 1..Len(s) \/ i = Len(s) + 1
    BY <1>1
  <1> QED
    BY <1>1, <1>2 DEF ToSet

LEMMA AppendedOnce ==
  ASSUME NEW R, NEW s \in Seq(R), NEW r \in R, r \notin ToSet(s), IsInjective(s)
  PROVE  IsInjective(Append(s, r))
  <1>1. /\ Len(s) \in Nat /\ DOMAIN s = 1..Len(s)
        /\ DOMAIN Append(s, r) = 1..(Len(s) + 1)
        /\ Append(s, r)[Len(s) + 1] = r /\ \A i \in 1..Len(s) : Append(s, r)[i] = s[i]
    OBVIOUS
  <1>2. \A i : i \in 1..(Len(s) + 1) <=> i \in 1..Len(s) \/ i = Len(s) + 1
    BY <1>1
  <1> QED
    BY <1>1, <1>2 DEF ToSet, IsInjective

\* What Collect returns: what was wanted of the rows, and no more; if once, then
\* each once.
LEMMA CollectIs ==
  ASSUME NEW R, NEW page \in Seq(R), NEW wanted, NEW once \in BOOLEAN
  PROVE  /\ Collect(page, wanted, once) \in Seq(R)
         /\ ToSet(Collect(page, wanted, once)) = ToSet(page) \cap wanted
         /\ once => IsInjective(Collect(page, wanted, once))
  <1>1. Len(page) \in Nat /\ DOMAIN page = 1..Len(page)
    OBVIOUS
  <1>2. PICK F : /\ IsCollecting(F, page, wanted, once, Len(page))
                 /\ Collect(page, wanted, once) = F[Len(page)]
    <2>1. \E F : IsCollecting(F, page, wanted, once, Len(page))
      BY <1>1, CollectingExists
    <2> QED
      BY <2>1, CollectChosen
  <1> DEFINE Good(k) == /\ F[k] \in Seq(R)
                        /\ ToSet(F[k]) = {page[i] : i \in 1..k} \cap wanted
                        /\ once => IsInjective(F[k])
             C == {k \in 0..Len(page) : ~Good(k)}
  <1>3. C = {}
    <2> SUFFICES ASSUME C # {} PROVE FALSE
      OBVIOUS
    <2>0. Len(page) \in Nat
      OBVIOUS
    <2>1. PICK k \in C : \A j \in C : ~(j < k)
      <3>1. C \in SUBSET Nat
        BY <2>0
      <3> HIDE DEF C
      <3> QED
        BY <3>1, LeastNumber
    <2>2. k \in 0..Len(page) /\ ~Good(k)
      OBVIOUS
    <2>3. /\ F[0] = <<>>
          /\ \A j \in 1..Len(page) :
                F[j] = OneMore(F[j - 1], page[j], wanted, once)
      BY <1>2, <2>0, CollectingAt
    <2>4. k # 0
      <3>1. Good(0)
        BY <2>3 DEF ToSet, IsInjective
      <3> QED
        BY <2>2, <3>1
    <2>5. k - 1 \in 0..Len(page) /\ k - 1 < k /\ k \in 1..Len(page)
      BY <2>0, <2>2, <2>4
    <2>6. Good(k - 1)
      <3> HIDE DEF Good
      <3> QED
        BY <2>1, <2>5
    <2> DEFINE f == F[k - 1]
               r == page[k]
    <2>7. f \in Seq(R) /\ r \in R
      BY <2>5, <2>6
    <2>8. {page[i] : i \in 1..k} = {page[i] : i \in 1..(k - 1)} \cup {r}
      <3>1. \A i : i \in 1..k <=> i \in 1..(k - 1) \/ i = k
        BY <2>5
      <3> QED
        BY <3>1
    <2>9. ToSet(Append(f, r)) = ToSet(f) \cup {r}
      BY <2>7, AppendedSet
    <2>10. r \notin ToSet(f) /\ IsInjective(f) => IsInjective(Append(f, r))
      BY <2>7, AppendedOnce
    <2>11. Append(f, r) \in Seq(R)
      BY <2>7
    <2>12. CASE r \in wanted /\ (once => r \notin ToSet(f))
      <3>1. F[k] = Append(f, r)
        BY <2>3, <2>5, <2>12 DEF OneMore
      <3>2. ToSet(F[k]) = {page[i] : i \in 1..k} \cap wanted
        BY <2>6, <2>8, <2>9, <2>12, <3>1
      <3>3. once => IsInjective(F[k])
        BY <2>6, <2>10, <2>12, <3>1
      <3> QED
        BY <2>2, <2>11, <3>1, <3>2, <3>3
    <2>13. CASE ~(r \in wanted /\ (once => r \notin ToSet(f)))
      <3>1. F[k] = f
        BY <2>3, <2>5, <2>13 DEF OneMore
      <3>2. ToSet(F[k]) = {page[i] : i \in 1..k} \cap wanted
        BY <2>6, <2>8, <2>13, <3>1
      <3> QED
        BY <2>2, <2>6, <3>1, <3>2
    <2> QED
      BY <2>12, <2>13
  <1>4. Good(Len(page))
    <2>1. Len(page) \in 0..Len(page)
      BY <1>1
    <2> HIDE DEF Good
    <2> QED
      BY <1>3, <2>1
  <1> QED
    BY <1>1, <1>2, <1>4 DEF ToSet

LEMMA ConcatSet ==
  ASSUME NEW R, NEW s \in Seq(R), NEW t \in Seq(R)
  PROVE  s \o t \in Seq(R) /\ ToSet(s \o t) = ToSet(s) \cup ToSet(t)
  <1>1. /\ Len(s) \in Nat /\ DOMAIN s = 1..Len(s) /\ Len(t) \in Nat /\ DOMAIN t = 1..Len(t)
        /\ s \o t \in Seq(R) /\ DOMAIN (s \o t) = 1..(Len(s) + Len(t))
        /\ \A i \in 1..(Len(s) + Len(t)) : (s \o t)[i] = IF i <= Len(s) THEN s[i] ELSE t[i - Len(s)]
    OBVIOUS
  <1>2. ASSUME NEW i \in 1..(Len(s) + Len(t))
        PROVE  (s \o t)[i] \in ToSet(s) \cup ToSet(t)
    <2>1. CASE i <= Len(s)
      <3>1. i \in 1..Len(s)
        BY <1>1, <2>1
      <3> QED
        BY <1>1, <2>1, <3>1 DEF ToSet
    <2>2. CASE ~(i <= Len(s))
      <3>1. i - Len(s) \in 1..Len(t)
        BY <1>1, <2>2
      <3> QED
        BY <1>1, <2>2, <3>1 DEF ToSet
    <2> QED
      BY <2>1, <2>2
  <1>3. ASSUME NEW i \in 1..Len(s)
        PROVE  s[i] \in ToSet(s \o t)
    <2>1. i \in 1..(Len(s) + Len(t)) /\ i <= Len(s)
      BY <1>1
    <2> QED
      BY <1>1, <2>1 DEF ToSet
  <1>4. ASSUME NEW i \in 1..Len(t)
        PROVE  t[i] \in ToSet(s \o t)
    <2>1. Len(s) + i \in 1..(Len(s) + Len(t)) /\ ~(Len(s) + i <= Len(s)) /\ Len(s) + i - Len(s) = i
      BY <1>1
    <2> QED
      BY <1>1, <2>1 DEF ToSet
  <1>5. ToSet(s \o t) \subseteq ToSet(s) \cup ToSet(t)
    BY <1>1, <1>2 DEF ToSet
  <1>6. ToSet(s) \subseteq ToSet(s \o t) /\ ToSet(t) \subseteq ToSet(s \o t)
    BY <1>1, <1>3, <1>4 DEF ToSet
  <1> QED
    BY <1>1, <1>5, <1>6

\* An insertion moves what is behind it by one.
LEMMA Inserted ==
  ASSUME NEW R, NEW s \in Seq(R), NEW i \in 1..(Len(s) + 1), NEW r \in R
  PROVE  /\ InsertAt(s, i, r) \in Seq(R)
         /\ Len(InsertAt(s, i, r)) = Len(s) + 1
         /\ \A j \in 1..Len(s) : InsertAt(s, i, r)[IF j < i THEN j ELSE j + 1] = s[j]
  <1> DEFINE a == SubSeq(s, 1, i - 1)
             b == SubSeq(s, i, Len(s))
             t == a \o <<r>>
  <1>1. /\ Len(s) \in Nat /\ i \in Nat /\ 1 <= i /\ i <= Len(s) + 1
        /\ \A j \in 1..Len(s) : s[j] \in R
    OBVIOUS
  <1>2. /\ a \in Seq(R) /\ Len(a) = i - 1
        /\ \A j \in 1..(i - 1) : a[j] = s[j]
    <2>1. 1 \in Int /\ i - 1 \in Int /\ \A j \in 1..(i - 1) : s[j] \in R
      BY <1>1
    <2>2. /\ a \in Seq(R)
          /\ Len(a) = IF 1 <= i - 1 THEN (i - 1) - 1 + 1 ELSE 0
          /\ \A j \in 1..((i - 1) - 1 + 1) : a[j] = s[1 + j - 1]
      BY <2>1, SubSeqProperties
    <2> HIDE DEF a
    <2> QED
      BY <1>1, <2>2
  <1>3. /\ b \in Seq(R) /\ Len(b) = Len(s) - i + 1
        /\ \A j \in 1..(Len(s) - i + 1) : b[j] = s[i + j - 1]
    <2>1. i \in Int /\ Len(s) \in Int /\ \A j \in i..Len(s) : s[j] \in R
      BY <1>1
    <2>2. /\ b \in Seq(R)
          /\ Len(b) = IF i <= Len(s) THEN Len(s) - i + 1 ELSE 0
          /\ \A j \in 1..(Len(s) - i + 1) : b[j] = s[i + j - 1]
      BY <2>1, SubSeqProperties
    <2> HIDE DEF b
    <2> QED
      BY <1>1, <2>2
  <1>4. InsertAt(s, i, r) = t \o b
    BY DEF InsertAt
  <1> HIDE DEF a, b
  <1>5. t \in Seq(R) /\ Len(t) = i /\ \A j \in 1..(i - 1) : t[j] = s[j]
    BY <1>1, <1>2
  <1> HIDE DEF t
  <1>6. /\ t \o b \in Seq(R) /\ Len(t \o b) = Len(s) + 1
        /\ \A j \in 1..(Len(s) + 1) : (t \o b)[j] = IF j <= i THEN t[j] ELSE b[j - i]
    BY <1>1, <1>3, <1>5
  <1>7. ASSUME NEW j \in 1..Len(s)
        PROVE  (t \o b)[IF j < i THEN j ELSE j + 1] = s[j]
    <2>1. CASE j < i
      <3>1. j \in 1..(Len(s) + 1) /\ j <= i /\ j \in 1..(i - 1)
        BY <1>1, <2>1
      <3> QED
        BY <1>5, <1>6, <2>1, <3>1
    <2>2. CASE ~(j < i)
      <3>1. j + 1 \in 1..(Len(s) + 1) /\ ~(j + 1 <= i) /\ j + 1 - i \in 1..(Len(s) - i + 1)
        BY <1>1, <2>2
      <3>2. i + (j + 1 - i) - 1 = j
        BY <1>1
      <3>3. b[j + 1 - i] = s[j]
        BY <1>3, <3>1, <3>2
      <3>4. (t \o b)[j + 1] = b[j + 1 - i]
        <4>1. (t \o b)[j + 1] = IF j + 1 <= i THEN t[j + 1] ELSE b[j + 1 - i]
          BY <1>6, <3>1
        <4> QED
          BY <3>1, <4>1
      <3> QED
        BY <2>2, <3>3, <3>4
    <2> QED
      BY <2>1, <2>2
  <1> QED
    BY <1>4, <1>6, <1>7

-----------------------------------------------------------------------------
(***************************************************************************)
(* The search.                                                             *)
(***************************************************************************)

\* A report is still to come to.
Ahead(r) == \E i \in (start + 1)..Len(listing) : listing[i] = r

SearchTypes ==
    /\ phase \in {"idle", "home", "accept", "page", "done", "failed"}
    /\ listing \in Seq(Report) /\ entries \in Seq(Report)
    /\ start \in Nat /\ start <= Len(listing)

\* Whatever comes in, nothing falls back behind the row that is next.
NothingIsPassedOver ==
    \A r \in atStart \cap Recognised : r \in ToSet(entries) \/ (phase # "done" /\ Ahead(r))

OnlyReportsAreRead == ToSet(entries) \subseteq Recognised

NewIsOfEntries == phase = "done" => new = NewEntries(entries)

SearchInv == SearchTypes /\ NothingIsPassedOver /\ OnlyReportsAreRead /\ NewIsOfEntries

LEMMA InitSearchInv == InitSearch \/ IdleSearch => SearchInv
  <1> SUFFICES ASSUME InitSearch \/ IdleSearch PROVE SearchInv
    OBVIOUS
  <1>1. /\ phase \in {"home", "idle"} /\ listing \in Seq(Report) /\ atStart \subseteq ToSet(listing)
        /\ start = 0 /\ entries = <<>>
    <2>1. CASE InitSearch
      BY <2>1, SearchAssumption DEF InitSearch
    <2>2. CASE IdleSearch
      BY <2>2 DEF IdleSearch
    <2> QED
      BY <2>1, <2>2
  <1>2. Len(listing) \in Nat /\ DOMAIN listing = 1..Len(listing)
    BY <1>1
  <1>3. SearchTypes
    BY <1>1, <1>2 DEF SearchTypes
  <1>4. \A r \in ToSet(listing) : Ahead(r)
    BY <1>1, <1>2 DEF ToSet, Ahead
  <1>5. ToSet(entries) = {}
    BY <1>1 DEF ToSet
  <1> QED
    BY <1>1, <1>3, <1>4, <1>5
    DEF SearchInv, NothingIsPassedOver, OnlyReportsAreRead, NewIsOfEntries

LEMMA PublishInv ==
  ASSUME SearchInv, Publish
  PROVE  SearchInv'
  <1>1. PICK r \in Report, i \in 1..(Len(listing) + 1) : listing' = InsertAt(listing, i, r)
    BY DEF Publish
  <1>2. /\ listing \in Seq(Report) /\ Len(listing) \in Nat /\ start \in Nat /\ start <= Len(listing)
    BY DEF SearchInv, SearchTypes
  <1>3. /\ listing' \in Seq(Report) /\ Len(listing') = Len(listing) + 1
        /\ \A j \in 1..Len(listing) : listing'[IF j < i THEN j ELSE j + 1] = listing[j]
    BY <1>1, <1>2, Inserted
  <1>4. /\ UNCHANGED <<phase, atStart, start, entries, new>>
        /\ phase # "done"
    BY DEF Publish
  <1>5. SearchTypes'
    BY <1>2, <1>3, <1>4 DEF SearchInv, SearchTypes
  <1>6. ASSUME NEW x, Ahead(x)
        PROVE  Ahead(x)'
    <2>1. PICK j \in (start + 1)..Len(listing) : listing[j] = x
      BY <1>6 DEF Ahead
    <2> DEFINE k == IF j < i THEN j ELSE j + 1
    <2>2. j \in 1..Len(listing) /\ k \in (start + 1)..(Len(listing) + 1)
      BY <1>2
    <2>3. listing'[k] = x
      BY <1>3, <2>1, <2>2
    <2> HIDE DEF k
    <2> QED
      BY <1>3, <1>4, <2>2, <2>3 DEF Ahead
  <1> QED
    BY <1>4, <1>5, <1>6 DEF SearchInv, NothingIsPassedOver, OnlyReportsAreRead, NewIsOfEntries

\* A page: the next rows, as many as there are.
LEMMA PageRead ==
  ASSUME SearchInv
  PROVE  \E m \in Nat :
            /\ start <= m /\ m <= Len(listing)
            /\ m = start + PageSize \/ (m = Len(listing) /\ m - start <= PageSize)
            /\ RawRows \in Seq(Report) /\ Len(RawRows) = m - start
            /\ ToSet(RawRows) = {listing[i] : i \in (start + 1)..m}
  <1>1. /\ listing \in Seq(Report) /\ Len(listing) \in Nat /\ start \in Nat /\ start <= Len(listing)
        /\ PageSize \in Nat \ {0} /\ \A i \in 1..Len(listing) : listing[i] \in Report
    BY SearchAssumption DEF SearchInv, SearchTypes
  <1>2. PICK m \in Nat : m = IF start + PageSize < Len(listing) THEN start + PageSize ELSE Len(listing)
    BY <1>1
  <1>3. /\ start <= m /\ m <= Len(listing)
        /\ m = start + PageSize \/ (m = Len(listing) /\ m - start <= PageSize)
    BY <1>1, <1>2
  <1>4. RawRows = SubSeq(listing, start + 1, m)
    BY <1>2 DEF RawRows
  <1>5. start + 1 \in Int /\ m \in Int /\ \A i \in (start + 1)..m : listing[i] \in Report
    BY <1>1, <1>2, <1>3
  <1>6. /\ RawRows \in Seq(Report)
        /\ Len(RawRows) = IF start + 1 <= m THEN m - (start + 1) + 1 ELSE 0
        /\ \A i \in 1..(m - (start + 1) + 1) : RawRows[i] = listing[start + 1 + i - 1]
    BY <1>4, <1>5, SubSeqProperties
  <1>7. Len(RawRows) = m - start /\ DOMAIN RawRows = 1..(m - start)
    <2>1. Len(RawRows) = m - start
      BY <1>1, <1>3, <1>6
    <2>2. DOMAIN RawRows = 1..Len(RawRows)
      BY <1>6
    <2> QED
      BY <2>1, <2>2
  <1>8. ToSet(RawRows) = {listing[i] : i \in (start + 1)..m}
    <2>1. ASSUME NEW i \in 1..(m - start)
          PROVE  start + i \in (start + 1)..m /\ RawRows[i] = listing[start + i]
      <3>1. i \in 1..(m - (start + 1) + 1) /\ start + 1 + i - 1 = start + i
        BY <1>1, <1>2, <1>3
      <3> QED
        BY <1>1, <1>2, <1>6, <3>1
    <2>2. ASSUME NEW i \in (start + 1)..m
          PROVE  i - start \in 1..(m - start) /\ start + (i - start) = i
      BY <1>1, <1>2, <1>3
    <2>3. \A x \in ToSet(RawRows) : x \in {listing[i] : i \in (start + 1)..m}
      BY <1>7, <2>1 DEF ToSet
    <2>4. \A i \in (start + 1)..m : listing[i] \in ToSet(RawRows)
      BY <1>7, <2>1, <2>2 DEF ToSet
    <2> QED
      BY <2>3, <2>4
  <1> QED
    BY <1>3, <1>6, <1>7, <1>8

LEMMA FetchPageInv ==
  ASSUME SearchInv, FetchPage
  PROVE  SearchInv'
  <1>1. PICK m \in Nat :
            /\ start <= m /\ m <= Len(listing)
            /\ m = start + PageSize \/ (m = Len(listing) /\ m - start <= PageSize)
            /\ RawRows \in Seq(Report) /\ Len(RawRows) = m - start
            /\ ToSet(RawRows) = {listing[i] : i \in (start + 1)..m}
    BY PageRead
  <1>2. /\ listing \in Seq(Report) /\ Len(listing) \in Nat /\ start \in Nat /\ entries \in Seq(Report)
        /\ PageSize \in Nat \ {0}
    BY SearchAssumption DEF SearchInv, SearchTypes
  <1>3. ParsedRows \in Seq(Report) /\ ToSet(ParsedRows) = ToSet(RawRows) \cap Recognised
    BY <1>1, CollectIs DEF ParsedRows
  <1>4. entries' \in Seq(Report) /\ ToSet(entries') = ToSet(entries) \cup ToSet(ParsedRows)
    BY <1>2, <1>3, ConcatSet DEF FetchPage
  <1>5. UNCHANGED <<listing, atStart>>
    BY DEF FetchPage
  <1>6. LastPage => m = Len(listing)
    BY <1>1, <1>2 DEF LastPage
  <1>7. ~LastPage => m = start + PageSize
    BY <1>1, <1>2 DEF LastPage
  <1>8. /\ phase' = IF LastPage THEN "done" ELSE "page"
        /\ start' = IF LastPage THEN start ELSE m
        /\ LastPage => new' = NewEntries(entries')
    BY <1>7 DEF FetchPage
  <1>9. SearchTypes'
    BY <1>1, <1>2, <1>4, <1>5, <1>8 DEF SearchInv, SearchTypes
  <1>10. NothingIsPassedOver'
    <2> SUFFICES ASSUME NEW r \in atStart \cap Recognised, r \notin ToSet(entries')
                 PROVE  phase' # "done" /\ Ahead(r)'
      BY <1>5 DEF NothingIsPassedOver
    <2>1. r \notin ToSet(entries) /\ r \notin ToSet(RawRows)
      BY <1>3, <1>4
    <2>2. PICK i \in (start + 1)..Len(listing) : listing[i] = r
      BY <2>1 DEF SearchInv, NothingIsPassedOver, Ahead
    <2>3. i \notin (start + 1)..m
      BY <1>1, <2>1, <2>2
    <2>4. ~LastPage /\ i \in (m + 1)..Len(listing)
      BY <1>1, <1>2, <1>6, <2>3
    <2> QED
      BY <1>5, <1>8, <2>2, <2>4 DEF Ahead
  <1>11. OnlyReportsAreRead'
    BY <1>3, <1>4 DEF SearchInv, OnlyReportsAreRead
  <1>12. NewIsOfEntries'
    BY <1>8 DEF NewIsOfEntries, NewEntries
  <1> QED
    BY <1>9, <1>10, <1>11, <1>12 DEF SearchInv

\* The steps of the session read nothing.
LEMMA SessionInv ==
  ASSUME SearchInv, GetHome \/ HomeRefused \/ AcceptAgreement \/ Raise \/ UNCHANGED searchVars
  PROVE  SearchInv'
  <1>1. /\ UNCHANGED <<listing, atStart, start, entries, new>>
        /\ phase' = phase \/ phase' \in {"home", "accept", "page", "failed"}
    BY DEF GetHome, HomeRefused, AcceptAgreement, Raise, searchVars
  <1>2. SearchTypes'
    BY <1>1 DEF SearchInv, SearchTypes
  <1>3. NothingIsPassedOver'
    BY <1>1 DEF SearchInv, NothingIsPassedOver, Ahead
  <1>4. OnlyReportsAreRead' /\ NewIsOfEntries'
    BY <1>1 DEF SearchInv, OnlyReportsAreRead, NewIsOfEntries, NewEntries
  <1> QED
    BY <1>2, <1>3, <1>4 DEF SearchInv

\* At the end everything that was there at the beginning has been read, and
\* new_entries keeps of it what is not known, once.
LEMMA SearchInvEnough == SearchInv => SearchReadsAll
  <1> SUFFICES ASSUME SearchInv, phase = "done"
               PROVE  /\ (atStart \cap Recognised) \ Known \subseteq ToSet(new)
                      /\ ToSet(new) \subseteq Recognised \ Known
                      /\ IsInjective(new)
    BY DEF SearchReadsAll
  <1>1. entries \in Seq(Report) /\ new = NewEntries(entries)
    BY DEF SearchInv, SearchTypes, NewIsOfEntries
  <1>2. ToSet(new) = ToSet(entries) \cap (Report \ Known) /\ IsInjective(new)
    BY <1>1, CollectIs DEF NewEntries
  <1>3. atStart \cap Recognised \subseteq ToSet(entries) /\ ToSet(entries) \subseteq Recognised
    BY DEF SearchInv, NothingIsPassedOver, OnlyReportsAreRead
  <1> QED
    BY <1>2, <1>3, SearchAssumption

\* However long the listing, wherever reports come in while it is read and
\* however many of its rows are none of the search's: fetch_ptr_index returns
\* every report that was listed when it began, and new_entries names each once
\* that has no row yet.
THEOREM SearchComplete == ReadersSpec => []SearchReadsAll
  <1>1. InitReaders => SearchInv
    BY InitSearchInv DEF InitReaders
  <1>2. SearchInv /\ [NextReaders]_readerVars => SearchInv'
    BY PublishInv, FetchPageInv, SessionInv DEF NextReaders, NextSearch, readerVars
  <1> QED
    BY <1>1, <1>2, SearchInvEnough, PTL DEF ReadersSpec

=============================================================================
