--------------------------- MODULE PoliticianLinks ---------------------------
(***************************************************************************)
(* ingest/politician_links.py with parsers/politician_match.py, beside     *)
(* ingest/legislators.py.                                                  *)
(*                                                                         *)
(* A linker (the collector, or the backlog catch-up beside it) gives a     *)
(* batch of filings their politician in one transaction, whose SELECTs     *)
(* each see the database of their own moment (READ COMMITTED).  The weekly *)
(* legislators sync deletes the terms it looks candidates up in, commits   *)
(* that, and fills them in again chunk by chunk.                           *)
(***************************************************************************)
EXTENDS Integers, FiniteSets

CONSTANTS
    Filing,
    Politician,
    Term,         \* rows of politician_terms that any version has
    TermOf,       \* TermOf[t]: its politician
    Covers,       \* Covers[t]: filings of its chamber filed during the term
    Score,        \* Score[f][p]: token_sort_ratio of the two names, in points
    Override,     \* Override[f]: what politician_overrides may say of f's name
    NoOne,        \* no override; bioguide_id IS NULL
    Version,      \* versions of the source: the terms each lists
    Scheduled,    \* linkers that run again and again
    Manual,       \* linkers that may run
    BatchSize,
    ChunkSize

Linker == Scheduled \cup Manual

ASSUME LinkAssumption ==
    /\ IsFiniteSet(Linker)
    /\ NoOne \notin Politician
    /\ TermOf \in [Term -> Politician]
    /\ Covers \in [Term -> SUBSET Filing]
    /\ Score \in [Filing -> [Politician -> 0 .. 100]]
    /\ Override \in [Filing -> Politician \cup {NoOne}]
    /\ Version \subseteq SUBSET Term
    /\ BatchSize \in Nat \ {0}
    /\ ChunkSize \in Nat \ {0}

VARIABLES
    known,       \* rows of `filings`
    link,        \* filings.bioguide_id
    issues,      \* open politician_match_* issues per filing
    overridden,  \* filings whose name has a politician_overrides row
    terms,       \* rows of politician_terms
    sync,        \* where the legislators sync is
    unsent,      \* terms it fetched and has not inserted yet
    phase,       \* where each linker is
    overrides,   \* its overrides
    flagged,     \* its already_flagged
    todo,        \* the filings of its batch it has not looked at
    newLinks,    \* its uncommitted writes: bioguide_id
    newFlags,    \* its uncommitted writes: issues
    torn,        \* ghost: filings it matched while the term table was in parts
    guessed      \* ghost: filings whose link comes from such a match

tableVars == <<known, link, issues, overridden, guessed>>
syncVars == <<terms, sync, unsent>>
linkerVars == <<phase, overrides, flagged, todo, newLinks, newFlags, torn>>
vars == <<known, link, issues, overridden, guessed, terms, sync, unsent, phase,
          overrides, flagged, todo, newLinks, newFlags, torn>>

NoLinks == [f \in Filing |-> NoOne]

TypeOK ==
    /\ known \subseteq Filing
    /\ link \in [Filing -> Politician \cup {NoOne}]
    /\ issues \in [Filing -> Nat]
    /\ overridden \subseteq Filing
    /\ guessed \subseteq Filing
    /\ terms \subseteq Term
    /\ sync \in {"idle", "inserting", "died"}
    /\ unsent \subseteq Term
    /\ phase \in [Linker -> {"idle", "begun", "batch"}]
    /\ overrides \in [Linker -> SUBSET Filing]
    /\ flagged \in [Linker -> SUBSET Filing]
    /\ todo \in [Linker -> SUBSET known]
    /\ newLinks \in [Linker -> [Filing -> Politician \cup {NoOne}]]
    /\ newFlags \in [Linker -> SUBSET Filing]
    /\ torn \in [Linker -> SUBSET Filing]

Init ==
    /\ known = {}
    /\ link = NoLinks
    /\ issues = [f \in Filing |-> 0]
    /\ overridden = {}
    /\ guessed = {}
    /\ terms \in Version
    /\ sync = "idle"
    /\ unsent = {}
    /\ phase = [l \in Linker |-> "idle"]
    /\ overrides = [l \in Linker |-> {}]
    /\ flagged = [l \in Linker |-> {}]
    /\ todo = [l \in Linker |-> {}]
    /\ newLinks = [l \in Linker |-> NoLinks]
    /\ newFlags = [l \in Linker |-> {}]
    /\ torn = [l \in Linker |-> {}]

-----------------------------------------------------------------------------
(***************************************************************************)
(* Filings and overrides come in.                                          *)
(***************************************************************************)
Index(f) ==
    /\ f \notin known
    /\ known' = known \cup {f}
    /\ UNCHANGED <<link, issues, overridden, guessed, syncVars, linkerVars>>

\* Somebody looks at the issue and adds an override for the name.
AddOverride(f) ==
    /\ issues[f] > 0
    /\ f \notin overridden /\ Override[f] # NoOne
    /\ overridden' = overridden \cup {f}
    /\ UNCHANGED <<known, link, issues, guessed, syncVars, linkerVars>>

-----------------------------------------------------------------------------
(***************************************************************************)
(* sync_legislators; one at a time (concurrency group of the workflow).    *)
(* It fetches, upserts politicians, never removing one, and then replaces  *)
(* the terms; a sync that dies before the DELETE has changed no term.      *)
(***************************************************************************)
BeginReplace(v) ==
    /\ sync \in {"idle", "died"}
    /\ v \in Version
    /\ unsent' = v
    /\ sync' = "inserting"
    /\ UNCHANGED <<tableVars, linkerVars>>

\* Seeded fault: the old rows stay.
KeepTerms(v) == BeginReplace(v) /\ UNCHANGED terms

\* The DELETE, committed.
DeleteTerms(v) == BeginReplace(v) /\ terms' = {}

InsertChunk ==
    /\ sync = "inserting"
    /\ \E chunk \in SUBSET unsent :
        /\ chunk # {}
        /\ Cardinality(chunk) <= ChunkSize
        /\ Cardinality(chunk) = ChunkSize \/ chunk = unsent
        /\ terms' = terms \cup chunk
        /\ unsent' = unsent \ chunk
    /\ UNCHANGED <<tableVars, sync, linkerVars>>

EndSync ==
    /\ sync = "inserting" /\ unsent = {}
    /\ sync' = "idle"
    /\ UNCHANGED <<tableVars, terms, unsent, linkerVars>>

\* What was committed stays.
SyncDies ==
    /\ sync = "inserting"
    /\ sync' = "died"
    /\ unsent' = {}
    /\ UNCHANGED <<tableVars, terms, linkerVars>>

-----------------------------------------------------------------------------
(***************************************************************************)
(* best_match.                                                             *)
(***************************************************************************)
ReviewThreshold == 80
HighConfidence == 92
TieMargin == 5

\* _candidates_for, in a table of terms T.
Candidates(f, T) == {TermOf[t] : t \in {u \in T : f \in Covers[u]}}

Top(f, C) == {p \in C : \A q \in C : Score[f][q] <= Score[f][p]}

\* Seeded fault: a close runner-up does not matter.
TakesTop(f, C, p) == p \in Top(f, C) /\ Score[f][p] >= ReviewThreshold

\* "fuzzy": p scores best, well enough, and clearly.  Equal scores keep the
\* order of the SELECT, which is any order.
Matches(f, C, p) ==
    /\ p \in Top(f, C)
    /\ Score[f][p] >= ReviewThreshold
    /\ \/ Score[f][p] >= HighConfidence
       \/ \A q \in C \ {p} : Score[f][p] - Score[f][q] >= TieMargin

-----------------------------------------------------------------------------
(***************************************************************************)
(* link_pending_filings.                                                   *)
(***************************************************************************)
\* _load_overrides and _already_flagged_filing_ids.
BeginLink(l) ==
    /\ phase[l] = "idle"
    /\ overrides' = [overrides EXCEPT ![l] = overridden]
    /\ flagged' = [flagged EXCEPT ![l] = {f \in Filing : issues[f] > 0}]
    /\ phase' = [phase EXCEPT ![l] = "begun"]
    /\ UNCHANGED <<tableVars, syncVars, todo, newLinks, newFlags, torn>>

Pending == {f \in known : link[f] = NoOne}

\* Seeded fault: no ORDER BY.
AnyOrder(f) == 0

Priority(f) == IF issues[f] > 0 THEN 1 ELSE 0

\* ORDER BY priority LIMIT; within a priority the order is any order.
SelectPending(l) ==
    /\ phase[l] = "begun"
    /\ \E batch \in SUBSET Pending :
        /\ Cardinality(batch) <= BatchSize
        /\ Cardinality(batch) = BatchSize \/ batch = Pending
        /\ \A f \in batch, g \in Pending \ batch : Priority(f) <= Priority(g)
        /\ todo' = [todo EXCEPT ![l] = batch]
    /\ phase' = [phase EXCEPT ![l] = "batch"]
    /\ UNCHANGED <<tableVars, syncVars, overrides, flagged, newLinks, newFlags, torn>>

LookAt(l, f) ==
    /\ phase[l] = "batch" /\ f \in todo[l]
    /\ todo' = [todo EXCEPT ![l] = @ \ {f}]
    /\ UNCHANGED <<tableVars, syncVars, phase, overrides, flagged>>

LinkByOverride(l, f) ==
    /\ LookAt(l, f)
    /\ f \in overrides[l]
    /\ newLinks' = [newLinks EXCEPT ![l][f] = Override[f]]
    /\ UNCHANGED <<newFlags, torn>>

Whole == terms \in Version

LinkByName(l, f) ==
    /\ LookAt(l, f)
    /\ f \notin overrides[l]
    /\ \E p \in Candidates(f, terms) :
        /\ Matches(f, Candidates(f, terms), p)
        /\ newLinks' = [newLinks EXCEPT ![l][f] = p]
    /\ torn' = [torn EXCEPT ![l] = IF Whole THEN @ ELSE @ \cup {f}]
    /\ UNCHANGED newFlags

Unmatched(f) == \A p \in Candidates(f, terms) : ~Matches(f, Candidates(f, terms), p)

\* Seeded fault: one more issue in every run.
FlagAlways(l, f) ==
    /\ LookAt(l, f)
    /\ f \notin overrides[l] /\ Unmatched(f)
    /\ newFlags' = [newFlags EXCEPT ![l] = @ \cup {f}]
    /\ UNCHANGED <<newLinks, torn>>

\* "unmatched" or "ambiguous": an issue, unless this run knows of one.
Flag(l, f) ==
    /\ LookAt(l, f)
    /\ f \notin overrides[l] /\ Unmatched(f)
    /\ newFlags' = [newFlags EXCEPT ![l] = IF f \in flagged[l] THEN @ ELSE @ \cup {f}]
    /\ UNCHANGED <<newLinks, torn>>

EndLink(l) ==
    /\ phase' = [phase EXCEPT ![l] = "idle"]
    /\ overrides' = [overrides EXCEPT ![l] = {}]
    /\ flagged' = [flagged EXCEPT ![l] = {}]
    /\ todo' = [todo EXCEPT ![l] = {}]
    /\ newLinks' = [newLinks EXCEPT ![l] = NoLinks]
    /\ newFlags' = [newFlags EXCEPT ![l] = {}]
    /\ torn' = [torn EXCEPT ![l] = {}]

\* UPDATE ... WHERE filing_id writes without looking: a link that another run
\* committed meanwhile is replaced.
Commit(l) ==
    /\ phase[l] = "batch" /\ todo[l] = {}
    /\ LET linked == {f \in Filing : newLinks[l][f] # NoOne}
       IN  /\ link' = [f \in Filing |-> IF f \in linked THEN newLinks[l][f] ELSE link[f]]
           /\ guessed' = (guessed \ linked) \cup torn[l]
    /\ issues' = [f \in Filing |-> issues[f] + IF f \in newFlags[l] THEN 1 ELSE 0]
    /\ EndLink(l)
    /\ UNCHANGED <<known, overridden, syncVars>>

\* An error, a deadlock of two linkers, a cancelled job.
RollBack(l) ==
    /\ phase[l] # "idle"
    /\ EndLink(l)
    /\ UNCHANGED <<tableVars, syncVars>>

SyncStep ==
    \/ \E v \in Version : DeleteTerms(v)
    \/ InsertChunk \/ EndSync \/ SyncDies

LinkStep(l) ==
    \/ BeginLink(l) \/ SelectPending(l) \/ Commit(l) \/ RollBack(l)
    \/ \E f \in Filing : LinkByOverride(l, f) \/ LinkByName(l, f) \/ Flag(l, f)

Next ==
    \/ \E f \in Filing : Index(f) \/ AddOverride(f)
    \/ SyncStep
    \/ \E l \in Linker : LinkStep(l)

Spec == Init /\ [][Next]_vars

\* The collector runs over and over, and again and again its linker commits.
Fairness ==
    \A l \in Scheduled : WF_vars(BeginLink(l)) /\ []<><<Commit(l)>>_vars

LiveSpec == Spec /\ Fairness

-----------------------------------------------------------------------------
(***************************************************************************)
(* Properties.                                                             *)
(***************************************************************************)
\* README: "a clear top match (score >= 92, or >= 80 with no close runner-up)
\* sets bioguide_id; anything else gets a dq_issues row instead of a guess".
ClearMatch(f, C, p) ==
    /\ p \in C
    /\ \/ Score[f][p] >= 92 /\ \A q \in C : Score[f][q] <= Score[f][p]
       \/ Score[f][p] >= 80 /\ \A q \in C \ {p} : Score[f][q] <= Score[f][p] - 5

\* Every link is an override's, or a clear match in all the terms of some
\* version of the source; the exception are links made while the sync had the
\* table in parts.
LinkIsNoGuess ==
    \A f \in Filing : link[f] # NoOne =>
        \/ f \in overridden /\ link[f] = Override[f]
        \/ \E v \in Version : ClearMatch(f, Candidates(f, v), link[f])
        \/ f \in guessed

\* However often a filing stays unmatched, it has at most one open issue for
\* each linker that may have run at once.
FlagsAreBounded ==
    \A f \in Filing : issues[f] <= Cardinality(Linker)

\* Whatever a sync that was cut off left behind, the table is that of one
\* version of the source whenever the last sync came to its end.
TermsAreOneVersion == sync = "idle" => Whole

\* No filing waits behind those that never match: each is linked or flagged.
EveryFilingIsHandled ==
    \A f \in Filing : f \in known ~> link[f] # NoOne \/ issues[f] > 0

\* politician_links.py: "Already-flagged filings are still retried (just last),
\* so a new politician_overrides entry [...] can still resolve them eventually".
OverrideTakesEffect ==
    \A f \in Filing : f \in overridden ~> link[f] # NoOne

=============================================================================
