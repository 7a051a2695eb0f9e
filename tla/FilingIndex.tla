----------------------------- MODULE FilingIndex ----------------------------
(***************************************************************************)
(* Detection of new filings: ingest/house.py and ingest/senate.py, which   *)
(* share one shape.  A live sync (collect.yml) and a historical backfill   *)
(* (backfill-official.yml, no concurrency group shared with it) fetch an   *)
(* index, SELECT which of its filings are known, and INSERT the others     *)
(* ON CONFLICT DO NOTHING; what the INSERT really inserted is what the run *)
(* announces and counts in its scrape_runs row.                            *)
(*                                                                         *)
(* One time unit is DEFAULT_PRECISION_S, the five minutes of the live      *)
(* polling cadence.                                                        *)
(***************************************************************************)
EXTENDS Integers, FiniteSets

CONSTANTS
    Filing,        \* filings a site will ever list
    Live,          \* live sync processes
    Backfill,      \* backfill processes
    Filed,         \* Filed[f]: start of f's filed date, or NoDate
    NoDate,
    LiveWindow,    \* LiveWindow[t]: what the live query at t can list
                   \* (House: the calendar year's index; Senate: 14 days)
    BackfillScope, \* the queries a backfill is run with
    ChunkSize,     \* BACKFILL_CHUNK_SIZE (House: everything at once)
    NotSeen,
    MaxTime        \* bound on the clock

Worker == Live \cup Backfill
Time == 0 .. MaxTime
Hidden == -1

\* first_seen_at with first_seen_precision_s: 300, 86400 or the ten-year
\* sentinel of an entry without a date.
Stamp == [at : Nat, precision : {"live", "day", "unknown"}]

ASSUME IndexAssumption ==
    /\ MaxTime \in Nat
    /\ Live \cap Backfill = {}
    /\ NoDate \notin Nat
    /\ Filed \in [Filing -> Nat \cup {NoDate}]
    /\ LiveWindow \in [Time -> SUBSET Filing]
    /\ BackfillScope \subseteq SUBSET Filing
    /\ ChunkSize \in Nat \ {0}
    /\ NotSeen \notin Stamp

VARIABLES
    now,        \* the clock
    published,  \* published[f]: when the site began to list f, or Hidden
    stamp,      \* the `filings` rows: first_seen_at and its precision
    announced,  \* Telegram messages that listed f
    counted,    \* scrape_runs rows whose new_filings_count includes f
    orphaned,   \* ghost: inserted by a run that died before recording itself
    phase,      \* where each process is
    seenAt,     \* its `now`, taken after the fetch
    entries,    \* fetched entries not handed to _insert_new_filings yet
    toInsert,   \* those its SELECT did not find
    inserted    \* those its INSERTs returned: len() is new_count

siteVars == <<now, published>>
tableVars == <<stamp, announced, counted, orphaned>>
workerVars == <<phase, seenAt, entries, toInsert, inserted>>
vars == <<now, published, stamp, announced, counted, orphaned,
          phase, seenAt, entries, toInsert, inserted>>

Phase == {"idle", "chunking", "inserting", "notifying", "recording"}

TypeOK ==
    /\ now \in Time
    /\ published \in [Filing -> Time \cup {Hidden}]
    /\ stamp \in [Filing -> Stamp \cup {NotSeen}]
    /\ announced \in [Filing -> Nat]
    /\ counted \in [Filing -> Nat]
    /\ orphaned \subseteq Filing
    /\ phase \in [Worker -> Phase]
    /\ seenAt \in [Worker -> Time]
    /\ entries \in [Worker -> SUBSET Filing]
    /\ toInsert \in [Worker -> SUBSET Filing]
    /\ inserted \in [Worker -> SUBSET Filing]

Init ==
    /\ now = 0
    /\ published = [f \in Filing |-> Hidden]
    /\ stamp = [f \in Filing |-> NotSeen]
    /\ announced = [f \in Filing |-> 0]
    /\ counted = [f \in Filing |-> 0]
    /\ orphaned = {}
    /\ phase = [w \in Worker |-> "idle"]
    /\ seenAt = [w \in Worker |-> 0]
    /\ entries = [w \in Worker |-> {}]
    /\ toInsert = [w \in Worker |-> {}]
    /\ inserted = [w \in Worker |-> {}]

-----------------------------------------------------------------------------
(***************************************************************************)
(* The sites and the clock.                                                *)
(***************************************************************************)
Tick ==
    /\ now < MaxTime
    /\ now' = now + 1
    /\ UNCHANGED <<published, tableVars, workerVars>>

\* A filing is listed on or after the day it was filed.
Publish(f) ==
    /\ published[f] = Hidden
    /\ Filed[f] # NoDate => Filed[f] <= now
    /\ published' = [published EXCEPT ![f] = now]
    /\ UNCHANGED <<now, tableVars, workerVars>>

Listed(S) == {f \in S : published[f] # Hidden}

-----------------------------------------------------------------------------
(***************************************************************************)
(* One run.                                                                *)
(***************************************************************************)
Goto(w, p) == phase' = [phase EXCEPT ![w] = p]

StartRun(w, listing) ==
    /\ phase[w] = "idle"
    /\ entries' = [entries EXCEPT ![w] = listing]
    /\ seenAt' = [seenAt EXCEPT ![w] = now]
    /\ Goto(w, "chunking")
    /\ UNCHANGED <<siteVars, tableVars, toInsert, inserted>>

StartLive(w) ==
    /\ w \in Live
    /\ StartRun(w, Listed(LiveWindow[now]))

StartBackfill(w) ==
    /\ w \in Backfill
    /\ \E scope \in BackfillScope : StartRun(w, Listed(scope))

\* fetch_index raises: the run records a failure that found nothing.
FetchFails(w) ==
    /\ phase[w] = "idle"
    /\ Goto(w, "recording")
    /\ UNCHANGED <<siteVars, tableVars, seenAt, entries, toInsert, inserted>>

\* The next chunk of the listing; the live sync has a single one.
Chunks(w) ==
    {c \in SUBSET entries[w] : /\ c # {}
                               /\ \/ c = entries[w]
                                  \/ w \in Backfill /\ Cardinality(c) = ChunkSize}

\* Seeded fault: entries without a filed date are left out.
UnknownDated(S) == {f \in S : stamp[f] = NotSeen /\ Filed[f] # NoDate}

Unknown(S) == {f \in S : stamp[f] = NotSeen}

\* SELECT filing_id ... WHERE filing_id IN (candidates), then new_entries().
SelectExisting(w) ==
    /\ phase[w] = "chunking"
    /\ \E chunk \in Chunks(w) :
        /\ entries' = [entries EXCEPT ![w] = @ \ chunk]
        /\ toInsert' = [toInsert EXCEPT ![w] = Unknown(chunk)]
        /\ Goto(w, IF Unknown(chunk) = {} THEN "chunking" ELSE "inserting")
    /\ UNCHANGED <<siteVars, tableVars, seenAt, inserted>>

\* Seeded fault: the historical sync stamps "now" like the live one.
StampNow(w, f) == [at |-> seenAt[w], precision |-> "live"]

\* first_seen_for: the live sync's `now`, backfill_first_seen otherwise, which
\* looks at the clock again for an entry without a date.
FirstSeenFor(w, f) ==
    IF w \in Live THEN [at |-> seenAt[w], precision |-> "live"]
    ELSE IF Filed[f] = NoDate THEN [at |-> now, precision |-> "unknown"]
    ELSE [at |-> Filed[f], precision |-> "day"]

\* Seeded fault: no RETURNING, everything selected counts as inserted.
InsertAssumed(w) ==
    /\ phase[w] = "inserting"
    /\ stamp' = [f \in Filing |-> IF f \in Unknown(toInsert[w]) THEN FirstSeenFor(w, f)
                                                                ELSE stamp[f]]
    /\ inserted' = [inserted EXCEPT ![w] = @ \cup toInsert[w]]
    /\ toInsert' = [toInsert EXCEPT ![w] = {}]
    /\ Goto(w, "chunking")
    /\ UNCHANGED <<siteVars, announced, counted, orphaned, seenAt, entries>>

\* Seeded fault: ON CONFLICT DO UPDATE.
InsertOrUpdate(w) ==
    /\ phase[w] = "inserting"
    /\ stamp' = [f \in Filing |-> IF f \in toInsert[w] THEN FirstSeenFor(w, f) ELSE stamp[f]]
    /\ inserted' = [inserted EXCEPT ![w] = @ \cup toInsert[w]]
    /\ toInsert' = [toInsert EXCEPT ![w] = {}]
    /\ Goto(w, "chunking")
    /\ UNCHANGED <<siteVars, announced, counted, orphaned, seenAt, entries>>

\* INSERT ... ON CONFLICT DO NOTHING RETURNING filing_id.
Insert(w) ==
    /\ phase[w] = "inserting"
    /\ LET fresh == Unknown(toInsert[w])
       IN  /\ stamp' = [f \in Filing |-> IF f \in fresh THEN FirstSeenFor(w, f) ELSE stamp[f]]
           /\ inserted' = [inserted EXCEPT ![w] = @ \cup fresh]
    /\ toInsert' = [toInsert EXCEPT ![w] = {}]
    /\ Goto(w, "chunking")
    /\ UNCHANGED <<siteVars, announced, counted, orphaned, seenAt, entries>>

\* The transaction fails, at its SELECT or later, and rolls back: straight to
\* `finally`, unannounced, with what the earlier chunks committed.
InsertFails(w) ==
    /\ \/ phase[w] = "inserting"
       \/ phase[w] = "chunking" /\ entries[w] # {}
    /\ toInsert' = [toInsert EXCEPT ![w] = {}]
    /\ entries' = [entries EXCEPT ![w] = {}]
    /\ Goto(w, "recording")
    /\ UNCHANGED <<siteVars, tableVars, seenAt, inserted>>

\* Seeded fault: the backfill announces what it inserted too.
AnnounceAll(w) == inserted[w] # {}

\* Only the live sync sends new-filing messages.
Announces(w) == w \in Live /\ inserted[w] # {}

ListingDone(w) ==
    /\ phase[w] = "chunking" /\ entries[w] = {}
    /\ Goto(w, IF Announces(w) THEN "notifying" ELSE "recording")
    /\ UNCHANGED <<siteVars, tableVars, seenAt, entries, toInsert, inserted>>

\* notify_new_filings; a failing send_message is swallowed.
Notify(w) ==
    /\ phase[w] = "notifying"
    /\ \/ announced' = [f \in Filing |-> announced[f] + IF f \in inserted[w] THEN 1 ELSE 0]
       \/ UNCHANGED announced
    /\ Goto(w, "recording")
    /\ UNCHANGED <<siteVars, stamp, counted, orphaned, seenAt, entries, toInsert, inserted>>

\* finally: _record_scrape_run.
Record(w) ==
    /\ phase[w] = "recording"
    /\ counted' = [f \in Filing |-> counted[f] + IF f \in inserted[w] THEN 1 ELSE 0]
    /\ inserted' = [inserted EXCEPT ![w] = {}]
    /\ Goto(w, "idle")
    /\ UNCHANGED <<siteVars, stamp, announced, orphaned, seenAt, entries, toInsert>>

\* The job is cancelled or the database is gone: no scrape_runs row.
Kill(w) ==
    /\ phase[w] # "idle"
    /\ orphaned' = orphaned \cup inserted[w]
    /\ entries' = [entries EXCEPT ![w] = {}]
    /\ toInsert' = [toInsert EXCEPT ![w] = {}]
    /\ inserted' = [inserted EXCEPT ![w] = {}]
    /\ Goto(w, "idle")
    /\ UNCHANGED <<siteVars, stamp, announced, counted, seenAt>>

RunStep(w) ==
    \/ StartLive(w) \/ StartBackfill(w) \/ FetchFails(w)
    \/ SelectExisting(w) \/ Insert(w) \/ InsertFails(w)
    \/ ListingDone(w) \/ Notify(w) \/ Record(w) \/ Kill(w)

Next ==
    \/ Tick
    \/ \E f \in Filing : Publish(f)
    \/ \E w \in Worker : RunStep(w)

Spec == Init /\ [][Next]_vars

\* The live sync is run again and again; its fetches, inserts and records do
\* not fail every time.  Nothing is assumed of the backfill.
Fairness ==
    \A w \in Live :
        /\ SF_vars(StartLive(w))
        /\ SF_vars(SelectExisting(w))
        /\ SF_vars(Insert(w))
        /\ WF_vars(ListingDone(w))
        /\ WF_vars(Notify(w))
        /\ WF_vars(Record(w))

LiveSpec == Spec /\ Fairness

-----------------------------------------------------------------------------
(***************************************************************************)
(* Properties.                                                             *)
(***************************************************************************)
Seen(f) == stamp[f] # NotSeen

\* Only what was published is stamped, and the stamp says how it came about.  A
\* live one is no earlier than the publication, and the filing was in the live
\* window at some moment between the two; a day one is the filed date, the day
\* of the publication or before; an unknown one is given to what has no date
\* only, and is no earlier than the publication.  None is in the future.
LiveBetween(f, from, to) == \E t \in from .. to : f \in LiveWindow[t]
StampsAreTrue ==
    \A f \in Filing : Seen(f) =>
        /\ published[f] # Hidden
        /\ stamp[f].precision = "live" => /\ stamp[f].at <= now
                                          /\ LiveBetween(f, published[f], stamp[f].at)
        /\ stamp[f].precision = "day" => stamp[f].at = Filed[f] /\ stamp[f].at <= published[f]
        /\ stamp[f].precision = "unknown" => /\ Filed[f] = NoDate
                                             /\ published[f] <= stamp[f].at
                                             /\ stamp[f].at <= now

\* However many runs race for a filing, it is announced at most once, and
\* never because of a backfill.
AnnouncedOnce ==
    \A f \in Filing :
        /\ announced[f] <= 1
        /\ announced[f] = 1 => Seen(f) /\ stamp[f].precision = "live"

\* Every row is in the new_filings_count of exactly one run: the run that
\* still has to record it, the one that has, or one that died before.
AccountedOnce ==
    \A f \in Filing :
        /\ counted[f] <= 1
        /\ counted[f] = 1 => Seen(f)
        /\ Seen(f) => \/ counted[f] = 1
                      \/ f \in orphaned
                      \/ \E w \in Worker : f \in inserted[w]

\* The rows are a first-seen ledger: stamped once, never restamped.
Ledger == INSTANCE FirstSeenLedger WITH
              Filing <- Filing, Stamp <- Stamp, NotSeen <- NotSeen, stamp <- stamp
LedgerRefinement == Ledger!LedgerSpec

\* A filing that is listed in the live window is seen, or leaves the window.
InLiveWindow(f) == published[f] # Hidden /\ f \in LiveWindow[now]
EventuallySeen ==
    \A f \in Filing : InLiveWindow(f) ~> Seen(f) \/ ~InLiveWindow(f)

=============================================================================
