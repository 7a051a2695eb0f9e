----------------------------- MODULE SenateSearch -----------------------------
(***************************************************************************)
(* Reading the Senate's search: sources/senate.py's new_session and        *)
(* fetch_ptr_index, and ingest/senate.py's new_entries.  The result is     *)
(* paged by row number, and new reports may come in anywhere in it between *)
(* two pages.                                                              *)
(***************************************************************************)
EXTENDS Integers, Sequences, SequencesExt

CONSTANTS
    Report,
    Recognised,     \* the reports whose link _LINK_RE matches
    PageSize,
    MaxAttempts,    \* MAX_SESSION_ATTEMPTS
    Listings,       \* the listings that the search may begin with
    Known           \* the reports that have a row in filings already

ASSUME SearchAssumption ==
    /\ Recognised \subseteq Report /\ Known \subseteq Report
    /\ PageSize \in Nat \ {0} /\ MaxAttempts \in Nat \ {0}
    /\ Listings \subseteq Seq(Report)

VARIABLES
    phase,      \* "idle", "home", "accept", "page", "done" or "failed"
    listing,    \* what the search would return, as a sequence of rows
    atStart,    \* the reports listed when the search began
    attempt,    \* the GETs of the home page so far
    start,
    entries,
    new         \* new_entries(entries, Known)

searchVars == <<phase, listing, atStart, attempt, start, entries, new>>

IdleSearch ==
    /\ phase = "idle"
    /\ listing = <<>> /\ atStart = {} /\ attempt = 0
    /\ start = 0 /\ entries = <<>> /\ new = <<>>

InitSearch ==
    /\ phase = "home"
    /\ listing \in Listings
    /\ atStart = ToSet(listing) /\ attempt = 0
    /\ start = 0 /\ entries = <<>> /\ new = <<>>

-----------------------------------------------------------------------------
\* The site lists another report, wherever its order puts it.
Publish ==
    /\ phase \in {"home", "accept", "page"}
    /\ \E r \in Report \ ToSet(listing), i \in 1..(Len(listing) + 1) :
          listing' = InsertAt(listing, i, r)
    /\ UNCHANGED <<phase, atStart, attempt, start, entries, new>>

GetHome ==
    /\ phase = "home"
    /\ phase' = "accept"
    /\ attempt' = attempt + 1
    /\ UNCHANGED <<listing, atStart, start, entries, new>>

\* An HTTP error is tried again, but not for ever.
HomeRefused ==
    /\ phase = "home"
    /\ attempt' = attempt + 1
    /\ phase' = IF attempt' < MaxAttempts THEN "home" ELSE "failed"
    /\ UNCHANGED <<listing, atStart, start, entries, new>>

AcceptAgreement ==
    /\ phase = "accept"
    /\ phase' = "page"
    /\ UNCHANGED <<listing, atStart, attempt, start, entries, new>>

\* A missing cookie, another answer or a search error is not.
Raise ==
    /\ phase \in {"accept", "page"}
    /\ phase' = "failed"
    /\ UNCHANGED <<listing, atStart, attempt, start, entries, new>>

\* A loop over rows that appends what is wanted, or what is and is not there yet.
Collect(rows, wanted, once) ==
    LET upTo[k \in 0..Len(rows)] ==
          IF k = 0 THEN <<>>
          ELSE IF rows[k] \in wanted /\ (once => rows[k] \notin ToSet(upTo[k - 1]))
               THEN Append(upTo[k - 1], rows[k])
               ELSE upTo[k - 1]
    IN  upTo[Len(rows)]

RawRows == SubSeq(listing, start + 1, IF start + PageSize < Len(listing) THEN start + PageSize
                                      ELSE Len(listing))
ParsedRows == Collect(RawRows, Recognised, FALSE)

\* Seeded fault: a page is full when its parsed rows are.
ShortOfEntries == Len(ParsedRows) < PageSize

LastPage == Len(RawRows) < PageSize

NewEntries(es) == Collect(es, Report \ Known, TRUE)

FetchPage ==
    /\ phase = "page"
    /\ entries' = entries \o ParsedRows
    /\ phase' = IF LastPage THEN "done" ELSE "page"
    /\ start' = IF LastPage THEN start ELSE start + PageSize
    /\ new' = IF LastPage THEN NewEntries(entries') ELSE new
    /\ UNCHANGED <<listing, atStart, attempt>>

NextSearch == Publish \/ GetHome \/ HomeRefused \/ AcceptAgreement \/ Raise \/ FetchPage

-----------------------------------------------------------------------------
\* A search that comes to its end misses no report that it could have read when
\* it began, however the pages shift under it and however many of their rows
\* are none of its business; and what is to be inserted is new and named once,
\* although a report may have been read twice.
SearchReadsAll ==
    phase = "done" =>
        /\ (atStart \cap Recognised) \ Known \subseteq ToSet(new)
        /\ ToSet(new) \subseteq Recognised \ Known
        /\ IsInjective(new)

=============================================================================
