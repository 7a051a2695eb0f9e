----------------------------- MODULE Amendments -----------------------------
(***************************************************************************)
(* ingest/amendments.py: which transaction of an amended disclosure counts.*)
(*                                                                         *)
(* House rows that carry the same source_transaction_id in more than one   *)
(* filing are versions of one transaction; link_amendments keeps the one   *)
(* of the most recently filed filing is_current.  It is one database       *)
(* transaction over all groups, run by the collector alone; under READ     *)
(* COMMITTED it reads each group at another moment, while parse runs save  *)
(* further rows and backfill_house_reparse fills in ids of old ones.       *)
(***************************************************************************)
EXTENDS Integers, FiniteSets

CONSTANTS
    Filing,
    Tx,         \* rows of `transactions` that will ever be saved
    SourceId,   \* values of source_transaction_id
    FilingOf,   \* FilingOf[t]: the filing that reports t
    IdOf,       \* IdOf[t]: the id printed beside t
    FiledRank,  \* (filed_date or date.min, first_seen_at), in its order
    None        \* supersedes_filing_id IS NULL

ASSUME AmendmentAssumption ==
    /\ FilingOf \in [Tx -> Filing]
    /\ IdOf \in [Tx -> SourceId]
    /\ FiledRank \in [Filing -> Nat]
    /\ None \notin Filing

VARIABLES
    saved,       \* rows in the table
    identified,  \* those whose source_transaction_id is not NULL
    current,     \* is_current
    supersedes,  \* filings.supersedes_filing_id
    linking,     \* a link_amendments transaction is open
    todo,        \* ids it selected and has not resolved
    cleared,     \* its uncommitted writes: is_current = false
    set,         \* its uncommitted writes: is_current = true
    pointed      \* its uncommitted writes: supersedes_filing_id

tableVars == <<saved, identified, current, supersedes>>
linkVars == <<linking, todo, cleared, set, pointed>>
vars == <<saved, identified, current, supersedes, linking, todo, cleared, set, pointed>>

TypeOK ==
    /\ saved \subseteq Tx
    /\ identified \subseteq saved
    /\ current \in [Tx -> BOOLEAN]
    /\ supersedes \in [Filing -> Filing \cup {None}]
    /\ linking \in BOOLEAN
    /\ todo \subseteq SourceId
    /\ cleared \subseteq Tx
    /\ set \subseteq Tx
    /\ pointed \in [Filing -> Filing \cup {None}]

NoPointers == [f \in Filing |-> None]

Init ==
    /\ saved = {}
    /\ identified = {}
    /\ current = [t \in Tx |-> TRUE]
    /\ supersedes = NoPointers
    /\ linking = FALSE
    /\ todo = {}
    /\ cleared = {}
    /\ set = {}
    /\ pointed = NoPointers

Group(id) == {t \in identified : IdOf[t] = id}
FilingsOf(T) == {FilingOf[t] : t \in T}

Newest(T) == {t \in T : \A u \in T : FiledRank[FilingOf[u]] <= FiledRank[FilingOf[t]]}
Oldest(T) == {t \in T : \A u \in T : FiledRank[FilingOf[t]] <= FiledRank[FilingOf[u]]}

-----------------------------------------------------------------------------
(***************************************************************************)
(* The writers of transactions.                                            *)
(***************************************************************************)
\* A parser saves t, with its id unless the version did not read that column
\* yet; is_current defaults to true.
SaveRow(t) ==
    /\ t \notin saved
    /\ saved' = saved \cup {t}
    /\ identified' \in {identified, identified \cup {t}}
    /\ UNCHANGED <<current, supersedes, linkVars>>

\* backfill_house_reparse fills in the id.
BackfillId(t) ==
    /\ t \in saved \ identified
    /\ identified' = identified \cup {t}
    /\ UNCHANGED <<saved, current, supersedes, linkVars>>

-----------------------------------------------------------------------------
(***************************************************************************)
(* link_amendments.                                                        *)
(***************************************************************************)
AmendedSourceIds == {id \in SourceId : Cardinality(FilingsOf(Group(id))) > 1}

BeginLink ==
    /\ ~linking
    /\ linking' = TRUE
    /\ todo' = AmendedSourceIds
    /\ UNCHANGED <<tableVars, cleared, set, pointed>>

\* What this transaction sees: the committed row, or its own write.
SeenCurrent(t) == t \in set \/ (current[t] /\ t \notin cleared)
SeenPointer(f) == IF pointed[f] # None THEN pointed[f] ELSE supersedes[f]

\* Seeded fault: the original instead of the amendment points back.
PointOldest(newest, oldest) ==
    pointed' = IF newest # oldest /\ SeenPointer(oldest) = None
               THEN [pointed EXCEPT ![oldest] = newest]
               ELSE pointed

\* The newest filing is pointed at the oldest, unless it points already.
PointBack(newest, oldest) ==
    pointed' = IF newest # oldest /\ SeenPointer(newest) = None
               THEN [pointed EXCEPT ![newest] = oldest]
               ELSE pointed

\* Seeded faults: every row is retired, or only the original is.
RetireAll(T, newest) ==
    /\ cleared' = cleared \cup {t \in T : SeenCurrent(t)}
    /\ set' = set \ T

RetireOldest(T, newest) ==
    /\ cleared' = (cleared \cup {t \in Oldest(T) : SeenCurrent(t) /\ t # newest}) \ {newest}
    /\ set' = (IF SeenCurrent(newest) THEN set ELSE set \cup {newest}) \ Oldest(T)

\* is_current is written where it has to change.
SetCurrent(T, newest) ==
    /\ cleared' = (cleared \cup {t \in T : SeenCurrent(t) /\ t # newest}) \ {newest}
    /\ set' = (IF SeenCurrent(newest) THEN set ELSE set \cup {newest}) \ (T \ {newest})

\* Seeded fault: the rows are taken in the order of the SELECT.
ResolveUnsorted(id) ==
    /\ linking /\ id \in todo
    /\ \E n, o \in Group(id) :
        /\ n # o
        /\ SetCurrent(Group(id), n)
        /\ PointBack(FilingOf[n], FilingOf[o])
    /\ todo' = todo \ {id}
    /\ UNCHANGED <<tableVars, linking>>

\* sorted() keeps the order of the SELECT for equal keys, which is any order:
\* the last and the first row are a newest and an oldest one, not the same.
ResolveGroup(id) ==
    /\ linking /\ id \in todo
    /\ \E n \in Newest(Group(id)), o \in Oldest(Group(id)) :
        /\ n # o
        /\ SetCurrent(Group(id), n)
        /\ PointBack(FilingOf[n], FilingOf[o])
    /\ todo' = todo \ {id}
    /\ UNCHANGED <<tableVars, linking>>

EndLink ==
    /\ linking' = FALSE
    /\ todo' = {}
    /\ cleared' = {}
    /\ set' = {}
    /\ pointed' = NoPointers

Commit ==
    /\ linking /\ todo = {}
    /\ current' = [t \in Tx |-> SeenCurrent(t)]
    /\ supersedes' = [f \in Filing |-> SeenPointer(f)]
    /\ EndLink
    /\ UNCHANGED <<saved, identified>>

\* The step fails or is cancelled: everything rolls back.
RollBack ==
    /\ linking
    /\ EndLink
    /\ UNCHANGED tableVars

Next ==
    \/ \E t \in Tx : SaveRow(t) \/ BackfillId(t)
    \/ BeginLink \/ Commit \/ RollBack
    \/ \E id \in SourceId : ResolveGroup(id)

Spec == Init /\ [][Next]_vars

\* Every collector run ends with the amendments step, and again and again one
\* of them gets to its commit.
Fairness == WF_vars(BeginLink) /\ []<><<Commit>>_vars

LiveSpec == Spec /\ Fairness

-----------------------------------------------------------------------------
(***************************************************************************)
(* Properties.                                                             *)
(***************************************************************************)
\* No transaction is ever amended away: whatever is saved while a linker
\* works on an older view of the group, some version of it counts.
GroupHasCurrent ==
    \A id \in SourceId : Group(id) # {} => \E t \in Group(id) : current[t]

\* supersedes_filing_id leads to another filing, and never to a later one.
SupersedesPointsBack ==
    \A f \in Filing : supersedes[f] # None =>
        supersedes[f] # f /\ FiledRank[supersedes[f]] <= FiledRank[f]

\* The row a group comes down to is current, alone, and from a newest filing.
Resolved(id) ==
    \E n \in Newest(Group(id)) : {t \in Group(id) : current[t]} = {n}

\* However saves and linkers interleave and whatever is rolled back, every
\* amended group comes down, for good, to one current row of the most
\* recently filed filing.
GroupsSettle ==
    \A id \in SourceId : <>[](id \in AmendedSourceIds => Resolved(id))

\* amendments.py: "a group already resolved to the right is_current values is
\* a cheap no-op read on every subsequent run, not a repeated write".
ResolvedIsLeftAlone ==
    [][\A id \in SourceId : Resolved(id) /\ Group(id)' = Group(id) =>
            \A t \in Group(id) : current'[t] = current[t]]_vars

=============================================================================
