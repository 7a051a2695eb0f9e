------------------------------ MODULE RawArchive ------------------------------
(***************************************************************************)
(* The raw archive: which bytes R2 holds, which checksum filings records   *)
(* and which rows were read, while the collector archives House reports    *)
(* (house_pdfs.py), parses annual reports out of the archive (house_fds.py)*)
(* and fetches, archives and parses Senate PTRs (senate_ptrs.py), and while*)
(* the two recovery programs fill R2 from Supabase's old archive           *)
(* (migrate_raw_archive_to_r2.py) or again from the sources                *)
(* (rearchive_from_source_to_r2.py).  The catch-up archives House reports  *)
(* too.  Nothing but `concurrency: collector` keeps any of them apart.     *)
(*                                                                         *)
(* A document's bytes are a Content, which is its SHA-256 as well.  The key*)
(* of a filing's object follows from the filing, and raw_object_key is set *)
(* with raw_sha256, so sha[f] = None says that neither is.  An annual      *)
(* report's format changes with its parse_status, "unknown" with "pending".*)
(***************************************************************************)
EXTENDS Naturals

CONSTANTS
    Senate,         \* electronic Senate PTRs
    Annual,         \* House annual reports
    Archived,       \* what Supabase may hold: [Filing -> content or None]
    Content,
    Outcome,        \* what parsing a content yields
    Served,         \* what a source may serve for a filing
    None,
    MaxFaults       \* bounds kills, failed uploads and changes at the sources

Filing == Senate \cup Annual
Collector == {"archive", "annual", "senate"}    \* steps of one workflow
Archiver == {"archive", "catchup"}      \* house_pdfs.py, of the collector and of the catch-up
Program == Collector \cup {"catchup", "rearchive", "migrate"}
Bytes == Content \cup {None}

ASSUME ArchiveAssumption ==
    /\ Senate \cap Annual = {}
    /\ Archived \subseteq [Filing -> Bytes] /\ Served \in [Filing -> SUBSET Content]
    /\ None \notin Content \cup Filing
    /\ Outcome \in [Content -> {"rows", "nothing", "scan", "bad date"}]
    /\ MaxFaults \in Nat

VARIABLES
    site,           \* what the source serves now, None when it does not answer 200
    old,            \* the archive in Supabase, which nothing changes any more
    stopped,        \* it answers 402
    r2,
    sha,            \* filings.raw_sha256
    status,         \* filings.parse_status
    rows,           \* the content that the saved rows were read from
    ticketed,       \* the filings with a ptr_parse_failed or fd_parse_failed issue
    todo,           \* the rest of a program's list: <<filing, expected checksum>>
    at,             \* the filing whose bytes it has in hand
    got,            \* those bytes
    putDone,        \* whether they are in R2, but not recorded
    doubt,          \* ghost: filings that an overlap or a cut left in doubt
    faults

storeVars == <<site, old, stopped, r2>>
tableVars == <<sha, status, rows, ticketed>>
workVars == <<todo, at, got, putDone>>
vars == <<storeVars, tableVars, workVars, doubt, faults>>

Legacy == {f \in Filing : old[f] # None}    \* archived before the move to R2

Init ==
    /\ site \in [Filing -> Content] /\ \A f \in Filing : site[f] \in Served[f]
    /\ old \in Archived /\ stopped = FALSE
    /\ r2 = [f \in Filing |-> None]
    /\ sha = old
    /\ status = [f \in Filing |-> IF f \in Senate \cap Legacy THEN "parsed" ELSE "pending"]
    /\ rows = [f \in Filing |-> IF f \in Senate \cap Legacy THEN old[f] ELSE None]
    /\ ticketed = {}
    /\ todo = [w \in Program |-> {}]
    /\ at = [w \in Program |-> None] /\ got = [w \in Program |-> None]
    /\ putDone = [w \in Program |-> FALSE]
    /\ doubt = {} /\ faults = 0

-----------------------------------------------------------------------------
Idle(w) == todo[w] = {} /\ at[w] = None

\* Seeded fault: the archiver's list is not of those without a key.
SelectedAgain(w) ==
    CASE w \in Archiver -> {f \in Annual : status[f] # "failed"}
      [] w = "annual" -> {f \in Annual : sha[f] # None /\ status[f] = "pending"}
      [] w = "senate" -> {f \in Senate : status[f] = "pending"}
      [] OTHER -> {f \in Filing : sha[f] # None}

\* The lists, each of one SELECT at the beginning of a program (a recovery's two,
\* for the House and the Senate, are taken as one).
Selected(w) ==
    CASE w \in Archiver -> {f \in Annual : sha[f] = None}
      [] w = "annual" -> {f \in Annual : sha[f] # None /\ status[f] = "pending"}
      [] w = "senate" -> {f \in Senate : status[f] = "pending"}
      [] OTHER -> {f \in Filing : sha[f] # None}

Entry(w, f) == <<f, IF w = "migrate" THEN sha[f] ELSE None>>

Expected(w, f) == (CHOOSE e \in todo[w] : e[1] = f)[2]

ToDo(w, f) == at[w] = None /\ \E e \in todo[w] : e[1] = f

\* Somebody else, who writes too, is still to come to f.
Contended(w, f) ==
    \E v \in Program \ {w, "annual"} : at[v] = f \/ \E e \in todo[v] : e[1] = f

Start(w) ==
    /\ Idle(w) /\ (w \in Collector => \A v \in Collector : Idle(v))
    /\ Selected(w) # {}
    /\ todo' = [todo EXCEPT ![w] = {Entry(w, f) : f \in Selected(w)}]
    /\ doubt' = IF w = "annual" THEN doubt ELSE doubt \cup {f \in Selected(w) : Contended(w, f)}
    /\ UNCHANGED <<storeVars, tableVars, at, got, putDone, faults>>

TakeOff(w, f) == todo' = [todo EXCEPT ![w] = {e \in @ : e[1] # f}]

Hold(w, f, bytes) ==
    /\ TakeOff(w, f)
    /\ at' = [at EXCEPT ![w] = f] /\ got' = [got EXCEPT ![w] = bytes]
    /\ UNCHANGED putDone

\* The program is through with the filing that it has in hand.
Release(w) ==
    /\ at' = [at EXCEPT ![w] = None] /\ got' = [got EXCEPT ![w] = None]
    /\ putDone' = [putDone EXCEPT ![w] = FALSE]

\* Seeded fault: a failure leaves an issue only.
FlagOnly(f) == ticketed' = ticketed \cup {f} /\ UNCHANGED <<sha, status, rows>>

\* _mark_failed of either parser.
MarkFailed(f) ==
    /\ status' = [status EXCEPT ![f] = "failed"]
    /\ ticketed' = ticketed \cup {f}
    /\ UNCHANGED <<sha, rows>>

-----------------------------------------------------------------------------
(***************************************************************************)
(* Getting the bytes.  A HEAD and the GET after it are one step: what      *)
(* others put between them they might as well put after.                   *)
(***************************************************************************)

\* Seeded fault: the row in filings is asked, not the bucket.
HasKey(f) == sha[f] # None

\* existing_sha256 is not None.
Present(f) == r2[f] # None

\* What parsing f's page as it is served now comes to.
Reading(f) == IF site[f] = None THEN "no page" ELSE Outcome[site[f]]

Wanted(w, f) ==
    \/ w \in Archiver
    \/ w = "senate" /\ Reading(f) = "rows"
    \/ w = "rearchive" /\ ~Present(f)

Fetch(w, f) ==
    /\ ToDo(w, f)
    /\ Wanted(w, f) /\ site[f] # None
    /\ Hold(w, f, site[f])
    /\ UNCHANGED <<storeVars, tableVars, doubt, faults>>

Migrated(w, f) == r2[f] = Expected(w, f)

\* One step: its list is as old as its HEAD could be.
CopyOld(w, f) ==
    /\ w = "migrate" /\ ToDo(w, f)
    /\ ~Migrated(w, f) /\ ~stopped /\ old[f] # None
    /\ TakeOff(w, f)
    /\ r2' = [r2 EXCEPT ![f] = old[f]]
    /\ UNCHANGED <<site, old, stopped, tableVars, at, got, putDone, doubt, faults>>

\* Already there, or not to be had; house_pdfs.py's issue is in ArchiveQueue.
Skip(w, f) ==
    /\ ToDo(w, f)
    /\ \/ w \in Archiver /\ site[f] = None
       \/ w = "rearchive" /\ (Present(f) \/ site[f] = None)
       \/ w = "migrate" /\ (Migrated(w, f) \/ stopped \/ old[f] = None)
    /\ TakeOff(w, f)
    /\ UNCHANGED <<storeVars, tableVars, at, got, putDone, doubt, faults>>

\* senate_ptrs.py: no answer, or no transactions, is final.
FailSenate(w, f) ==
    /\ w = "senate" /\ ToDo(w, f)
    /\ Reading(f) \in {"no page", "nothing"}
    /\ TakeOff(w, f)
    /\ MarkFailed(f)
    /\ UNCHANGED <<storeVars, at, got, putDone, doubt, faults>>

\* senate_ptr.py: strptime raises on an impossible date, and nobody catches it.
DieOnDate(w, f) ==
    /\ w = "senate" /\ ToDo(w, f)
    /\ Reading(f) = "bad date"
    /\ todo' = [todo EXCEPT ![w] = {}]
    /\ UNCHANGED <<storeVars, tableVars, at, got, putDone, doubt, faults>>

-----------------------------------------------------------------------------
(***************************************************************************)
(* house_fds.py reads what the archive holds, and commits once.            *)
(***************************************************************************)
SaveHoldings(f) ==
    /\ status' = [status EXCEPT ![f] = "parsed"]
    /\ rows' = [rows EXCEPT ![f] = r2[f]]
    /\ UNCHANGED <<sha, ticketed>>

DeferPaper(f) ==
    /\ status' = [status EXCEPT ![f] = "paper_deferred"]
    /\ UNCHANGED <<sha, rows, ticketed>>

ReadAnnual(w, f) ==
    /\ w = "annual" /\ ToDo(w, f)
    /\ TakeOff(w, f)
    /\ \/ r2[f] # None /\ Outcome[r2[f]] = "rows" /\ SaveHoldings(f)
       \/ r2[f] # None /\ Outcome[r2[f]] = "scan" /\ DeferPaper(f)
       \/ r2[f] = None /\ MarkFailed(f)
       \/ r2[f] # None /\ Outcome[r2[f]] = "nothing" /\ MarkFailed(f)
    /\ UNCHANGED <<storeVars, at, got, putDone, doubt, faults>>

-----------------------------------------------------------------------------
(***************************************************************************)
(* Putting and recording them.                                             *)
(***************************************************************************)

PutObject(w) ==
    LET f == at[w] IN
    /\ f # None /\ ~putDone[w]
    /\ r2' = [r2 EXCEPT ![f] = got[w]]
    /\ putDone' = [putDone EXCEPT ![w] = TRUE]
    /\ UNCHANGED <<site, old, stopped, tableVars, todo, at, got, doubt, faults>>

\* Seeded fault: the key is kept as it is recorded, its checksum too.
KeepSha(f, bytes) == sha' = [sha EXCEPT ![f] = IF @ = None THEN bytes ELSE @]

SetSha(f, bytes) == sha' = [sha EXCEPT ![f] = bytes]

\* _record_archived, _update_sha256, or senate_ptrs.py's _save_transactions.
Record(w) ==
    LET f == at[w] IN
    /\ f # None /\ putDone[w]
    /\ SetSha(f, got[w])
    /\ IF w = "senate"
       THEN /\ status' = [status EXCEPT ![f] = "parsed"]
            /\ rows' = [rows EXCEPT ![f] = got[w]]
       ELSE UNCHANGED <<status, rows>>
    /\ Release(w)
    /\ UNCHANGED <<storeVars, ticketed, todo, doubt, faults>>

-----------------------------------------------------------------------------
(***************************************************************************)
(* Faults, MaxFaults of them.                                              *)
(***************************************************************************)
Fault == faults < MaxFaults /\ faults' = faults + 1

\* Cut after its upload, a re-archive leaves the old checksum; every other
\* program had recorded none, and will do the filing again.
LeaveInDoubt(w) ==
    doubt' = IF putDone[w] /\ w = "rearchive" THEN doubt \cup {at[w]} ELSE doubt

\* The budget, the upload or record_bytes raises: caught, and only Senate's
\* parser makes it final.
UploadFails(w) ==
    LET f == at[w] IN
    /\ Fault /\ f # None
    /\ IF w = "senate" THEN MarkFailed(f) ELSE UNCHANGED tableVars
    /\ LeaveInDoubt(w)
    /\ Release(w)
    /\ UNCHANGED <<storeVars, todo>>

CopyFails(f) ==
    /\ Fault /\ ToDo("migrate", f)
    /\ TakeOff("migrate", f)
    /\ UNCHANGED <<storeVars, tableVars, at, got, putDone, doubt>>

Kill(w) ==
    /\ Fault /\ ~Idle(w)
    /\ todo' = [todo EXCEPT ![w] = {}]
    /\ LeaveInDoubt(w)
    /\ Release(w)
    /\ UNCHANGED <<storeVars, tableVars>>

\* A source serves something else, or nothing, or again.
SiteChanges(f) ==
    /\ Fault
    /\ \E c \in Served[f] \cup {None} : site' = [site EXCEPT ![f] = c]
    /\ UNCHANGED <<old, stopped, r2, tableVars, workVars, doubt>>

\* 402 Payment Required.
SupabaseStops ==
    /\ Fault
    /\ stopped' = TRUE
    /\ UNCHANGED <<site, old, r2, tableVars, workVars, doubt>>

-----------------------------------------------------------------------------
Handle(w, f) ==
    Fetch(w, f) \/ CopyOld(w, f) \/ Skip(w, f) \/ FailSenate(w, f) \/ DieOnDate(w, f) \/ ReadAnnual(w, f)

Work(w) == (\E f \in Filing : Handle(w, f)) \/ PutObject(w) \/ Record(w)

Next ==
    \/ \E w \in Program :
          Work(w) \/ Start(w) \/ UploadFails(w) \/ Kill(w)
    \/ SupabaseStops \/ \E f \in Filing : CopyFails(f) \/ SiteChanges(f)

Spec == Init /\ [][Next]_vars

\* The collector goes on with the step it has begun, and every run of it comes to
\* each of its steps; the operator lets the re-archive run, again and again until
\* everything is there.  Of the migration and the catch-up nothing is assumed.
Fairness ==
    /\ WF_vars(\E w \in Collector : Work(w)) /\ WF_vars(Work("rearchive"))
    /\ SF_vars(Start("annual")) /\ SF_vars(Start("senate")) /\ WF_vars(Start("rearchive"))

LiveSpec == Spec /\ Fairness

-----------------------------------------------------------------------------
TypeOK ==
    /\ site \in [Filing -> Bytes] /\ old \in [Filing -> Bytes] /\ r2 \in [Filing -> Bytes]
    /\ sha \in [Filing -> Bytes] /\ rows \in [Filing -> Bytes]
    /\ status \in [Filing -> {"pending", "parsed", "paper_deferred", "failed"}]
    /\ ticketed \subseteq Filing /\ doubt \subseteq Filing
    /\ todo \in [Program -> SUBSET (Filing \X Bytes)]
    /\ at \in [Program -> Filing \cup {None}] /\ got \in [Program -> Bytes]
    /\ putDone \in [Program -> BOOLEAN]
    /\ faults \in 0..MaxFaults

\* A filing's checksum is that of its object, except while somebody is about to
\* record it, and where two programs overlapped on the filing or a re-archive
\* was cut between the upload and _update_sha256.
ChecksumIsTrue ==
    \A f \in Filing \ doubt :
        sha[f] # None /\ r2[f] # None =>
            sha[f] = r2[f] \/ \E w \in Program : at[w] = f /\ putDone[w]

\* Rows were read from the very bytes that the archive keeps under their filing's
\* key, with two exceptions: where two programs overlapped on the filing or a
\* re-archive was cut before it recorded; and a Senate PTR parsed before the move,
\* whose rows stay those of the old archive's document even if the re-archive
\* puts what the Senate serves now.  And a Senate PTR has a key exactly if it was
\* read, so that a failure hides it from both recoveries.
RowsAreArchived ==
    /\ \A f \in Filing \ (doubt \cup (Senate \cap Legacy)) : rows[f] # None => rows[f] = r2[f]
    /\ \A f \in Senate \cap Legacy : rows[f] = old[f]
    /\ \A f \in Senate : sha[f] # None <=> status[f] = "parsed"

\* Whatever the recoveries skip and wherever they are cut off, an archived
\* document that its source goes on serving comes into R2 in the end.
EventuallyRestored == \A f \in Filing : sha[f] # None ~> r2[f] # None \/ site[f] = None

\* An archived annual report is classified in the end, and so is a Senate PTR
\* unless a page with an impossible date waits in the same queue.
EventuallyRead ==
    \A f \in Filing :
        status[f] = "pending" /\ (f \in Senate \/ sha[f] # None) ~>
            \/ status[f] # "pending"
            \/ /\ f \in Senate
               /\ \E g \in Senate : status[g] = "pending" /\ Reading(g) = "bad date"

=============================================================================
