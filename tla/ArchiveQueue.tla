---------------------------- MODULE ArchiveQueue ----------------------------
(***************************************************************************)
(* ingest/house_pdfs.py, the queue of House filings whose PDF is not in    *)
(* the raw archive, and the loop of ingest/catchup_house_backlog.py that   *)
(* drains it.                                                              *)
(*                                                                         *)
(* A batch is the first BATCH_SIZE pending filings in the order: never     *)
(* failed before failed, then by type.  Whatever goes wrong with a filing  *)
(* (404 in all candidate years, timeout, budget, upload) it gets an open   *)
(* dq_issue, which is what puts it last from then on.                      *)
(***************************************************************************)
EXTENDS Integers, FiniteSets

CONSTANTS
    Filing,
    TypeRank,   \* TypeRank[f]: 0 PTR, 1 electronic annual report, 2 other
    Gone,       \* filings whose PDF the Clerk does not serve
    Collector,  \* processes that archive one batch and exit
    CatchUp,    \* processes that drain the queue
    BatchSize

Worker == Collector \cup CatchUp

ASSUME ArchiveAssumption ==
    /\ TypeRank \in [Filing -> 0 .. 2]
    /\ Gone \subseteq Filing
    /\ Collector \cap CatchUp = {}
    /\ IsFiniteSet(Worker)
    /\ BatchSize \in Nat \ {0}

VARIABLES
    known,    \* filings in the table
    archived, \* those with a raw_object_key
    issues,   \* open house_pdf_fetch_failed rows, per filing
    phase,    \* where each process is
    todo,     \* its batch
    flagging, \* the filing it found without an issue and is flagging
    before    \* pending_before of its drain loop

vars == <<known, archived, issues, phase, todo, flagging, before>>

Phase == {"idle", "counted", "batch", "drained", "killed"}

TypeOK ==
    /\ known \subseteq Filing
    /\ archived \subseteq known
    /\ issues \in [Filing -> Nat]
    /\ phase \in [Worker -> Phase]
    /\ todo \in [Worker -> SUBSET Filing]
    /\ flagging \in [Worker -> SUBSET Filing]
    /\ before \in [Worker -> Nat]

Init ==
    /\ known = {}
    /\ archived = {}
    /\ issues = [f \in Filing |-> 0]
    /\ phase = [w \in Worker |-> "idle"]
    /\ todo = [w \in Worker |-> {}]
    /\ flagging = [w \in Worker |-> {}]
    /\ before = [w \in Worker |-> 0]

\* Seeded fault: the query does not start from the table.
PendingAnywhere == Filing \ archived

Pending == known \ archived
Goto(w, p) == phase' = [phase EXCEPT ![w] = p]

\* The index sync and the backfill add filings.
Index(f) ==
    /\ f \notin known
    /\ known' = known \cup {f}
    /\ UNCHANGED <<archived, issues, phase, todo, flagging, before>>

-----------------------------------------------------------------------------
(***************************************************************************)
(* _fetch_pending.                                                         *)
(***************************************************************************)
\* Seeded fault: the type alone decides, as it did before the failed tier.
PriorityByType(f) == TypeRank[f]

\* ORDER BY failed_priority, type_priority.
Priority(f) == TypeRank[f] + IF issues[f] > 0 THEN 3 ELSE 0

\* What LIMIT may leave; filings of one priority come in any order.
Batches ==
    {B \in SUBSET Pending :
        /\ Cardinality(B) <= BatchSize
        /\ Cardinality(B) = BatchSize \/ B = Pending
        /\ \A f \in B, g \in Pending \ B : Priority(f) <= Priority(g)}

FetchPending(w) ==
    /\ \/ w \in Collector /\ phase[w] = "idle" /\ Pending # {}
       \/ w \in CatchUp /\ phase[w] = "counted"
    /\ \E batch \in Batches : todo' = [todo EXCEPT ![w] = batch]
    /\ Goto(w, "batch")
    /\ UNCHANGED <<known, archived, issues, flagging, before>>

-----------------------------------------------------------------------------
(***************************************************************************)
(* The filings of the batch.                                               *)
(***************************************************************************)
\* Worker w turns to f of its batch, and is through with it.
At(w, f) == phase[w] = "batch" /\ f \in todo[w] /\ flagging[w] = {}
Done(w, f) ==
    /\ todo' = [todo EXCEPT ![w] = @ \ {f}]
    /\ UNCHANGED <<known, phase, before>>

\* Fetched, uploaded and _record_archived, which resolves the issues.
Archive(w, f) ==
    /\ At(w, f) /\ f \notin Gone
    /\ Done(w, f)
    /\ archived' = archived \cup {f}
    /\ issues' = [issues EXCEPT ![f] = 0]
    /\ UNCHANGED flagging

\* Seeded fault: one more issue for every attempt.
FlagAgain(w, f) ==
    /\ At(w, f) /\ issues[f] > 0
    /\ Done(w, f)
    /\ issues' = [issues EXCEPT ![f] = @ + 1]
    /\ UNCHANGED <<archived, flagging>>

\* Anything raises: _record_fetch_failed, which looks for an open issue and,
\* where there is none, adds one; another process may come in between.
FindIssue(w, f) ==
    /\ At(w, f) /\ issues[f] > 0
    /\ Done(w, f)
    /\ UNCHANGED <<archived, issues, flagging>>

FindNoIssue(w, f) ==
    /\ At(w, f) /\ issues[f] = 0
    /\ flagging' = [flagging EXCEPT ![w] = {f}]
    /\ UNCHANGED <<known, archived, issues, phase, todo, before>>

AddIssue(w, f) ==
    /\ f \in flagging[w]
    /\ Done(w, f)
    /\ issues' = [issues EXCEPT ![f] = @ + 1]
    /\ flagging' = [flagging EXCEPT ![w] = {}]
    /\ UNCHANGED archived

\* The collector's process ends with its batch.
EndBatch(w) ==
    /\ w \in Collector
    /\ phase[w] = "batch" /\ todo[w] = {}
    /\ Goto(w, "idle")
    /\ UNCHANGED <<known, archived, issues, todo, flagging, before>>

\* A process is cancelled or times out.  The collector is scheduled again, a
\* catch-up has to be dispatched.
Kill(w) ==
    /\ phase[w] \in {"counted", "batch"}
    /\ Goto(w, IF w \in CatchUp THEN "killed" ELSE "idle")
    /\ todo' = [todo EXCEPT ![w] = {}]
    /\ flagging' = [flagging EXCEPT ![w] = {}]
    /\ UNCHANGED <<known, archived, issues, before>>

-----------------------------------------------------------------------------
(***************************************************************************)
(* catchup_house_backlog._drain, for the archive stage.                    *)
(***************************************************************************)
CountBefore(w) ==
    /\ w \in CatchUp
    /\ phase[w] = "idle"
    /\ before' = [before EXCEPT ![w] = Cardinality(Pending)]
    /\ Goto(w, IF Pending = {} THEN "drained" ELSE "counted")
    /\ UNCHANGED <<known, archived, issues, todo, flagging>>

\* Seeded fault: a batch without progress passes.
LoopWhileNotWorse(w) == Cardinality(Pending) <= before[w]

MadeProgress(w) == Cardinality(Pending) < before[w]

\* The loop goes on to count again, or stops.
CountAfter(w) ==
    /\ w \in CatchUp
    /\ phase[w] = "batch" /\ todo[w] = {}
    /\ Goto(w, IF MadeProgress(w) THEN "idle" ELSE "drained")
    /\ UNCHANGED <<known, archived, issues, todo, flagging, before>>

\* The workflow is dispatched again.
Restart(w) ==
    /\ phase[w] \in {"drained", "killed"}
    /\ Goto(w, "idle")
    /\ UNCHANGED <<known, archived, issues, todo, flagging, before>>

Try(w, f) == Archive(w, f) \/ FindIssue(w, f) \/ FindNoIssue(w, f)

Step(w) ==
    \/ FetchPending(w) \/ EndBatch(w) \/ Kill(w)
    \/ CountBefore(w) \/ CountAfter(w) \/ Restart(w)
    \/ \E f \in Filing : Try(w, f) \/ AddIssue(w, f)

Next ==
    \/ \E f \in Filing : Index(f)
    \/ \E w \in Worker : Step(w)

Spec == Init /\ [][Next]_vars

\* The collector runs again and again and is not killed every time before, or
\* in the middle of, a filing's turn; a catch-up, once dispatched, keeps going
\* unless killed.
Fairness ==
    /\ \A w \in Collector :
        /\ WF_vars(FetchPending(w))
        /\ WF_vars(EndBatch(w))
        /\ \A f \in Filing : SF_vars(Try(w, f)) /\ SF_vars(AddIssue(w, f))
    /\ \A w \in CatchUp :
        /\ WF_vars(FetchPending(w))
        /\ WF_vars(CountBefore(w))
        /\ WF_vars(CountAfter(w))
        /\ \A f \in Filing : WF_vars(Try(w, f)) /\ WF_vars(AddIssue(w, f))

LiveSpec == Spec /\ Fairness

-----------------------------------------------------------------------------
(***************************************************************************)
(* Properties.                                                             *)
(***************************************************************************)
\* No filing waits behind those that never archive: each one is fetched or
\* at least tried, whatever the others do.
EveryFilingIsTried ==
    \A f \in Filing : f \in known ~> f \in archived \/ issues[f] > 0

\* However often a filing fails, it has at most one open issue for each of the
\* processes that were at it when it had none.
DuplicatesAreBounded ==
    \A f \in Filing : issues[f] <= Cardinality(Worker)

\* A drain loop comes to an end by itself, also when nothing can be fetched,
\* unless it is killed before.
DrainEnds ==
    \A w \in CatchUp : phase[w] = "counted" ~> phase[w] \in {"drained", "killed"}

=============================================================================
