------------------------- MODULE FilingIndexProofs --------------------------
(***************************************************************************)
(* Proofs about FilingIndex, for any number of live syncs and backfills.   *)
(*                                                                         *)
(* The properties are not inductive: they rest on what a run still holds   *)
(* while it is at work.  The invariant below says that the filings in a    *)
(* run's `inserted` list are claimed by that run alone, not announced      *)
(* before it notifies and not counted before it records, and that what it  *)
(* fetched was published no later than the moment it stamps with, and was  *)
(* in the live window then if the run is a live one.                       *)
(***************************************************************************)
EXTENDS FilingIndex, TLAPS

\* Nothing lies in the future, and nothing is listed before it was filed.
Chronology ==
    /\ \A f \in Filing :
        /\ published[f] <= now
        /\ published[f] # Hidden /\ Filed[f] # NoDate => Filed[f] <= published[f]
    /\ \A w \in Worker :
        /\ seenAt[w] <= now
        /\ \A f \in entries[w] \cup toInsert[w] :
            /\ published[f] # Hidden /\ published[f] <= seenAt[w]
            /\ w \in Live => f \in LiveWindow[seenAt[w]]

\* A filing without a row has left no trace.
NoTrace ==
    \A f \in Filing : ~Seen(f) =>
        counted[f] = 0 /\ announced[f] = 0 /\ f \notin orphaned

\* What a run inserted is its own, and nobody has counted it yet.
Claims ==
    \A w \in Worker : \A f \in inserted[w] :
        /\ Seen(f)
        /\ counted[f] = 0
        /\ phase[w] # "idle"
        /\ w \in Live => stamp[f].precision = "live"
        /\ phase[w] # "recording" => announced[f] = 0

NotifiersAreLive == \A w \in Worker : phase[w] = "notifying" => w \in Live

\* Selected filings wait for one insert only.
OnlyInserting == \A w \in Worker : toInsert[w] # {} => phase[w] = "inserting"

ClaimedOnce ==
    \A v, w \in Worker : v # w => inserted[v] \cap inserted[w] = {}

IInv ==
    /\ TypeOK
    /\ Chronology
    /\ NoTrace
    /\ Claims
    /\ NotifiersAreLive
    /\ OnlyInserting
    /\ ClaimedOnce
    /\ StampsAreTrue
    /\ AnnouncedOnce
    /\ AccountedOnce

-----------------------------------------------------------------------------
\* The stamps of both sync modes are well formed: an entry without a date has
\* its fallback (backfill_first_seen).
LEMMA FirstSeenIsStamp ==
    ASSUME TypeOK, NEW w \in Worker, NEW f \in Filing
    PROVE  FirstSeenFor(w, f) \in Stamp
  BY IndexAssumption DEF FirstSeenFor, Stamp, TypeOK, Time, Worker

\* Before the first run nothing is stored, announced or counted.
LEMMA InitIInv == Init => IInv
  BY IndexAssumption DEF Init, IInv, TypeOK, Time, Phase, Chronology, NoTrace,
     Claims, NotifiersAreLive, OnlyInserting, ClaimedOnce, StampsAreTrue, AnnouncedOnce,
     AccountedOnce, Seen, Hidden

LEMMA TickKeepsIInv == IInv /\ Tick => IInv'
  <1> SUFFICES ASSUME IInv, Tick PROVE IInv'
    OBVIOUS
  <1> USE IndexAssumption DEF IInv, Tick, TypeOK, Time, tableVars, workerVars
  <1>1. TypeOK'
    OBVIOUS
  <1>2. Chronology'
    BY DEF Chronology, Hidden
  <1>3. NoTrace' /\ Claims' /\ NotifiersAreLive' /\ OnlyInserting' /\ ClaimedOnce'
    BY DEF NoTrace, Claims, NotifiersAreLive, OnlyInserting, ClaimedOnce, Seen
  <1>4. StampsAreTrue'
    BY DEF StampsAreTrue, Seen, Stamp, Hidden
  <1>5. AnnouncedOnce' /\ AccountedOnce'
    BY DEF AnnouncedOnce, AccountedOnce, Seen
  <1> QED
    BY <1>1, <1>2, <1>3, <1>4, <1>5

LEMMA PublishKeepsIInv ==
    ASSUME IInv, NEW g \in Filing, Publish(g)
    PROVE  IInv'
  <1> USE IndexAssumption DEF IInv, Publish, TypeOK, Time, tableVars, workerVars
  <1>1. TypeOK'
    OBVIOUS
  <1>2. Chronology'
    BY DEF Chronology, Hidden
  <1>3. NoTrace' /\ Claims' /\ NotifiersAreLive' /\ OnlyInserting' /\ ClaimedOnce'
    BY DEF NoTrace, Claims, NotifiersAreLive, OnlyInserting, ClaimedOnce, Seen
  <1>4. StampsAreTrue'
    BY DEF StampsAreTrue, Seen, Stamp, Hidden
  <1>5. AnnouncedOnce' /\ AccountedOnce'
    BY DEF AnnouncedOnce, AccountedOnce, Seen
  <1> QED
    BY <1>1, <1>2, <1>3, <1>4, <1>5

\* The steps that only move a run along, before or after its insert.
LEMMA QuietStepKeepsIInv ==
    ASSUME IInv, NEW w \in Worker,
           StartLive(w) \/ StartBackfill(w) \/ FetchFails(w) \/ SelectExisting(w)
             \/ InsertFails(w) \/ ListingDone(w)
    PROVE  IInv'
  <1> USE IndexAssumption DEF IInv
  <1> DEFINE A == StartLive(w) \/ StartBackfill(w)
  <1>1. CASE A
    <2>1. PICK S \in SUBSET Filing : /\ StartRun(w, Listed(S))
                                     /\ w \in Live => S = LiveWindow[now]
      BY <1>1 DEF StartLive, StartBackfill, TypeOK, Time
    <2>2. inserted[w] = {}
      BY <2>1 DEF StartRun, Claims
    <2>3. TypeOK'
      BY <2>1 DEF StartRun, Goto, Listed, TypeOK, Phase, siteVars, tableVars
    <2>4. Chronology'
      <3>1. \A f \in Listed(S) : f \in S /\ published[f] # Hidden
        BY DEF Listed
      <3>2. /\ entries' = [entries EXCEPT ![w] = Listed(S)]
            /\ seenAt' = [seenAt EXCEPT ![w] = now]
            /\ UNCHANGED <<now, published, toInsert>>
            /\ toInsert[w] = {}
        BY <2>1 DEF StartRun, siteVars, OnlyInserting
      <3> QED
        BY <2>1, <3>1, <3>2 DEF Chronology, TypeOK, Time
    <2>5. NoTrace' /\ Claims' /\ NotifiersAreLive' /\ OnlyInserting' /\ ClaimedOnce'
      BY <2>1, <2>2 DEF StartRun, Goto, TypeOK, NoTrace, Claims,
         NotifiersAreLive, OnlyInserting, ClaimedOnce, Seen, siteVars, tableVars
    <2>6. StampsAreTrue' /\ AnnouncedOnce' /\ AccountedOnce'
      BY <2>1 DEF StartRun, StampsAreTrue, AnnouncedOnce, AccountedOnce, Seen,
         siteVars, tableVars
    <2> QED
      BY <2>3, <2>4, <2>5, <2>6
  <1>2. CASE FetchFails(w)
    BY <1>2 DEF FetchFails, Goto, TypeOK, Phase, Chronology, NoTrace, Claims,
       NotifiersAreLive, OnlyInserting, ClaimedOnce, StampsAreTrue, AnnouncedOnce,
       AccountedOnce, Seen, siteVars, tableVars
  <1>3. CASE SelectExisting(w)
    <2>1. PICK chunk \in SUBSET entries[w] :
            /\ entries' = [entries EXCEPT ![w] = @ \ chunk]
            /\ toInsert' = [toInsert EXCEPT ![w] = Unknown(chunk)]
            /\ phase' = [phase EXCEPT ![w] = IF Unknown(chunk) = {} THEN "chunking"
                                                                    ELSE "inserting"]
      BY <1>3 DEF SelectExisting, Chunks, Goto
    <2> HIDE DEF IInv
    <2>2. phase[w] = "chunking" /\ UNCHANGED <<siteVars, tableVars, seenAt, inserted>>
      BY <1>3 DEF SelectExisting
    <2>3. Unknown(chunk) \subseteq chunk
      BY DEF Unknown
    <2>4. TypeOK'
      BY <2>1, <2>2, <2>3 DEF IInv, TypeOK, Phase, siteVars, tableVars
    <2>5. Chronology'
      BY <2>1, <2>2, <2>3 DEF IInv, TypeOK, Chronology, siteVars, tableVars
    <2>6. NoTrace' /\ Claims' /\ NotifiersAreLive' /\ OnlyInserting' /\ ClaimedOnce'
      BY <2>1, <2>2 DEF IInv, TypeOK, NoTrace, Claims,
         NotifiersAreLive, OnlyInserting, ClaimedOnce, Seen, siteVars, tableVars
    <2>7. StampsAreTrue' /\ AnnouncedOnce' /\ AccountedOnce'
      BY <2>2 DEF IInv, StampsAreTrue, AnnouncedOnce, AccountedOnce, Seen,
         siteVars, tableVars
    <2> QED
      BY <2>4, <2>5, <2>6, <2>7 DEF IInv
  <1>4. CASE InsertFails(w)
    BY <1>4 DEF InsertFails, Goto, TypeOK, Phase, Chronology, NoTrace, Claims,
       NotifiersAreLive, OnlyInserting, ClaimedOnce, StampsAreTrue, AnnouncedOnce,
       AccountedOnce, Seen, siteVars, tableVars
  <1>5. CASE ListingDone(w)
    BY <1>5 DEF ListingDone, Announces, Goto, TypeOK, Phase, Chronology, NoTrace, Claims,
       NotifiersAreLive, OnlyInserting, ClaimedOnce, StampsAreTrue, AnnouncedOnce,
       AccountedOnce, Seen, siteVars, tableVars
  <1> QED
    BY <1>1, <1>2, <1>3, <1>4, <1>5

\* The insert: a row is given to the run whose statement created it, so no
\* second run can claim, stamp or announce it.
LEMMA InsertKeepsIInv ==
    ASSUME IInv, NEW w \in Worker, Insert(w)
    PROVE  IInv'
  <1> DEFINE fresh == Unknown(toInsert[w])
  <1>1. /\ stamp' = [f \in Filing |-> IF f \in fresh THEN FirstSeenFor(w, f) ELSE stamp[f]]
        /\ inserted' = [inserted EXCEPT ![w] = @ \cup fresh]
        /\ toInsert' = [toInsert EXCEPT ![w] = {}]
        /\ phase' = [phase EXCEPT ![w] = "chunking"]
        /\ UNCHANGED <<now, published, announced, counted, orphaned, seenAt, entries>>
    BY DEF Insert, Goto, siteVars
  <1>2. phase[w] = "inserting"
    BY DEF Insert
  <1>3. fresh \subseteq toInsert[w] /\ \A f \in fresh : ~Seen(f)
    BY DEF Unknown, Seen
  <1>4. \A f \in Filing : FirstSeenFor(w, f) \in Stamp /\ FirstSeenFor(w, f) # NotSeen
    BY FirstSeenIsStamp, IndexAssumption DEF IInv
  <1>5. TypeOK'
    BY <1>1, <1>3, <1>4 DEF IInv, TypeOK, Phase
  <1>6. Chronology'
    BY <1>1 DEF IInv, TypeOK, Chronology
  <1>7. \A f \in Filing : Seen(f)' <=> Seen(f) \/ f \in fresh
    BY <1>1, <1>3, <1>4, <1>5 DEF IInv, TypeOK, Seen
  <1> HIDE DEF fresh
  <1>8. NoTrace' /\ NotifiersAreLive' /\ OnlyInserting'
    BY <1>1, <1>7 DEF IInv, TypeOK, NoTrace, NotifiersAreLive, OnlyInserting
  <1>9. Claims'
    <2> SUFFICES ASSUME NEW v \in Worker, NEW f \in inserted'[v]
                 PROVE  /\ Seen(f)'
                        /\ counted'[f] = 0
                        /\ phase'[v] # "idle"
                        /\ v \in Live => stamp'[f].precision = "live"
                        /\ phase'[v] # "recording" => announced'[f] = 0
      BY DEF Claims
    <2>1. f \in Filing
      BY <1>5 DEF TypeOK
    <2>2. CASE f \in fresh
      <3>1. counted[f] = 0 /\ announced[f] = 0 /\ ~Seen(f)
        BY <1>3, <2>1, <2>2 DEF IInv, NoTrace
      <3>2. v = w
        BY <1>1, <3>1 DEF IInv, Claims, TypeOK
      <3> QED
        BY <1>1, <1>2, <1>7, <2>1, <2>2, <3>1, <3>2 DEF IInv, TypeOK, FirstSeenFor
    <2>3. CASE f \notin fresh
      BY <1>1, <1>2, <1>7, <2>1, <2>3 DEF IInv, TypeOK, Claims
    <2> QED
      BY <2>2, <2>3
  <1>10. ClaimedOnce'
    BY <1>1, <1>3 DEF IInv, TypeOK, ClaimedOnce, Claims
  <1>11. StampsAreTrue'
    <2> SUFFICES ASSUME NEW f \in Filing, Seen(f)'
                 PROVE  /\ published'[f] # Hidden
                        /\ stamp'[f].precision = "live" =>
                              /\ stamp'[f].at <= now'
                              /\ LiveBetween(f, published'[f], stamp'[f].at)
                        /\ stamp'[f].precision = "day" =>
                              stamp'[f].at = Filed[f] /\ stamp'[f].at <= published'[f]
                        /\ stamp'[f].precision = "unknown" =>
                              /\ Filed[f] = NoDate
                              /\ published'[f] <= stamp'[f].at /\ stamp'[f].at <= now'
      BY DEF StampsAreTrue
    <2>1. CASE f \in fresh
      <3>1. published[f] # Hidden /\ published[f] <= seenAt[w] /\ seenAt[w] <= now
        BY <1>3, <2>1 DEF IInv, Chronology
      <3>2. Filed[f] # NoDate => Filed[f] <= published[f]
        BY <3>1 DEF IInv, Chronology
      <3>3. w \in Live => LiveBetween(f, published[f], seenAt[w])
        BY <1>3, <2>1, <3>1 DEF IInv, TypeOK, Chronology, Time, Hidden, LiveBetween
      <3> QED
        BY <1>1, <2>1, <3>1, <3>2, <3>3 DEF IInv, TypeOK, FirstSeenFor, Time, Hidden
    <2>2. CASE f \notin fresh
      BY <1>1, <1>7, <2>2 DEF IInv, TypeOK, StampsAreTrue
    <2> QED
      BY <2>1, <2>2
  <1>12. AnnouncedOnce'
    BY <1>1, <1>3, <1>7 DEF IInv, TypeOK, AnnouncedOnce, NoTrace
  <1>13. AccountedOnce'
    BY <1>1, <1>7 DEF IInv, TypeOK, AccountedOnce
  <1> QED
    BY <1>5, <1>6, <1>8, <1>9, <1>10, <1>11, <1>12, <1>13 DEF IInv

\* The message: only a live run holds `inserted` at this point, and none of it
\* was announced before.
LEMMA NotifyKeepsIInv ==
    ASSUME IInv, NEW w \in Worker, Notify(w)
    PROVE  IInv'
  <1>1. /\ phase[w] = "notifying" /\ w \in Live
        /\ phase' = [phase EXCEPT ![w] = "recording"]
        /\ UNCHANGED <<now, published, stamp, counted, orphaned, seenAt, entries,
                       toInsert, inserted>>
    BY DEF Notify, Goto, IInv, NotifiersAreLive, OnlyInserting, siteVars
  <1>2. announced' = [f \in Filing |-> announced[f] + IF f \in inserted[w] THEN 1 ELSE 0]
          \/ announced' = announced
    BY DEF Notify
  <1>3. \A f \in inserted[w] : Seen(f) /\ announced[f] = 0 /\ stamp[f].precision = "live"
    BY <1>1 DEF IInv, Claims
  <1>4. \A f \in Filing : f \notin inserted[w] => announced'[f] = announced[f]
    BY <1>2 DEF IInv, TypeOK
  <1>5. TypeOK' /\ Chronology' /\ ClaimedOnce'
    BY <1>1, <1>2 DEF IInv, TypeOK, Phase, Chronology, ClaimedOnce
  <1>9. NotifiersAreLive' /\ OnlyInserting'
    BY <1>1 DEF IInv, TypeOK, NotifiersAreLive, OnlyInserting
  <1>6. NoTrace' /\ Claims'
    BY <1>1, <1>3, <1>4 DEF IInv, TypeOK, NoTrace, Claims, ClaimedOnce, Seen
  <1>7. StampsAreTrue' /\ AccountedOnce'
    BY <1>1 DEF IInv, StampsAreTrue, AccountedOnce, Seen
  <1>8. AnnouncedOnce'
    BY <1>1, <1>2, <1>3 DEF IInv, TypeOK, AnnouncedOnce, Seen
  <1> QED
    BY <1>5, <1>6, <1>7, <1>8, <1>9 DEF IInv

\* The scrape_runs row: what was this run's claim becomes the count.
LEMMA RecordKeepsIInv ==
    ASSUME IInv, NEW w \in Worker, Record(w)
    PROVE  IInv'
  <1>1. /\ phase[w] = "recording"
        /\ phase' = [phase EXCEPT ![w] = "idle"]
        /\ inserted' = [inserted EXCEPT ![w] = {}]
        /\ counted' = [f \in Filing |-> counted[f] + IF f \in inserted[w] THEN 1 ELSE 0]
        /\ UNCHANGED <<now, published, stamp, announced, orphaned, seenAt, entries, toInsert>>
    BY DEF Record, Goto, siteVars
  <1>2. \A f \in inserted[w] : Seen(f) /\ counted[f] = 0
    BY DEF IInv, Claims
  <1>3. TypeOK' /\ Chronology' /\ ClaimedOnce'
    BY <1>1 DEF IInv, TypeOK, Phase, Chronology, ClaimedOnce
  <1>7. NotifiersAreLive' /\ OnlyInserting'
    BY <1>1 DEF IInv, TypeOK, NotifiersAreLive, OnlyInserting
  <1>4. NoTrace' /\ Claims'
    BY <1>1, <1>2 DEF IInv, TypeOK, NoTrace, Claims, ClaimedOnce, Seen
  <1>5. StampsAreTrue' /\ AnnouncedOnce'
    BY <1>1 DEF IInv, StampsAreTrue, AnnouncedOnce, Seen
  <1>6. AccountedOnce'
    BY <1>1, <1>2 DEF IInv, TypeOK, AccountedOnce, Seen
  <1> QED
    BY <1>3, <1>4, <1>5, <1>6, <1>7 DEF IInv

\* A run that dies leaves what it inserted to the ghost set.
LEMMA KillKeepsIInv ==
    ASSUME IInv, NEW w \in Worker, Kill(w)
    PROVE  IInv'
  <1>1. /\ phase' = [phase EXCEPT ![w] = "idle"]
        /\ orphaned' = orphaned \cup inserted[w]
        /\ inserted' = [inserted EXCEPT ![w] = {}]
        /\ entries' = [entries EXCEPT ![w] = {}]
        /\ toInsert' = [toInsert EXCEPT ![w] = {}]
        /\ UNCHANGED <<now, published, stamp, announced, counted, seenAt>>
    BY DEF Kill, Goto, siteVars
  <1>2. TypeOK' /\ Chronology' /\ NotifiersAreLive' /\ OnlyInserting' /\ ClaimedOnce'
    BY <1>1 DEF IInv, TypeOK, Phase, Chronology, NotifiersAreLive, OnlyInserting,
       ClaimedOnce
  <1>3. NoTrace' /\ Claims'
    BY <1>1 DEF IInv, TypeOK, NoTrace, Claims, Seen
  <1>4. StampsAreTrue' /\ AnnouncedOnce'
    BY <1>1 DEF IInv, StampsAreTrue, AnnouncedOnce, Seen
  <1>5. AccountedOnce'
    BY <1>1 DEF IInv, TypeOK, AccountedOnce, Seen
  <1> QED
    BY <1>2, <1>3, <1>4, <1>5 DEF IInv

-----------------------------------------------------------------------------
\* The invariant is inductive: no step of a site, a live sync or a backfill
\* breaks it.
LEMMA NextIInv == IInv /\ [Next]_vars => IInv'
  <1> SUFFICES ASSUME IInv, [Next]_vars PROVE IInv'
    OBVIOUS
  <1>1. CASE Tick
    BY <1>1, TickKeepsIInv
  <1>2. CASE \E f \in Filing : Publish(f)
    BY <1>2, PublishKeepsIInv
  <1>3. ASSUME NEW w \in Worker, RunStep(w) PROVE IInv'
    BY <1>3, QuietStepKeepsIInv, InsertKeepsIInv, NotifyKeepsIInv, RecordKeepsIInv,
       KillKeepsIInv DEF RunStep
  <1>4. CASE UNCHANGED vars
    BY <1>4 DEF vars, IInv, TypeOK, Chronology, NoTrace, Claims, NotifiersAreLive, OnlyInserting,
       ClaimedOnce, StampsAreTrue, AnnouncedOnce, AccountedOnce, Seen
  <1> QED
    BY <1>1, <1>2, <1>3, <1>4 DEF Next

\* The invariant holds in every reachable state.
THEOREM Invariance == Spec => []IInv
  BY InitIInv, NextIInv, PTL DEF Spec

\* Every column and every process keeps its type.
THEOREM TypeCorrect == Spec => []TypeOK
  <1>1. IInv => TypeOK
    BY DEF IInv
  <1> QED
    BY <1>1, Invariance, PTL

\* A live first_seen_at and that of an undated entry are no earlier than the
\* publication and no later than now; between publication and a live one the
\* entry was in the live window at some moment.  A day-precision one is the
\* filed date itself, at or before the publication (backfill_first_seen).
THEOREM TrueStamps == Spec => []StampsAreTrue
  <1>1. IInv => StampsAreTrue
    BY DEF IInv
  <1> QED
    BY <1>1, Invariance, PTL

\* Whatever runs race, a filing is announced at most once and never by a
\* backfill (RETURNING in _insert_new_filings).
THEOREM NoDoubleAnnouncement == Spec => []AnnouncedOnce
  <1>1. IInv => AnnouncedOnce
    BY DEF IInv
  <1> QED
    BY <1>1, Invariance, PTL

\* The new_filings_count of all scrape_runs rows together counts no filing
\* twice and misses only those whose run died.
THEOREM NoDoubleCount == Spec => []AccountedOnce
  <1>1. IInv => AccountedOnce
    BY DEF IInv
  <1> QED
    BY <1>1, Invariance, PTL

\* The index sync implements the first-seen ledger: a filing is stamped once
\* and the stamp never changes (ON CONFLICT DO NOTHING).
THEOREM ImplementsLedger == Spec => LedgerRefinement
  <1>1. Init => Ledger!LedgerInit
    BY DEF Init, Ledger!LedgerInit
  <1>2. IInv /\ [Next]_vars => [Ledger!Observe]_stamp
    <2> SUFFICES ASSUME IInv, [Next]_vars PROVE [Ledger!Observe]_stamp
      OBVIOUS
    <2>1. ASSUME NEW w \in Worker, Insert(w) PROVE Ledger!Observe
      <3>1. \A f \in Filing : FirstSeenFor(w, f) \in Stamp
        BY FirstSeenIsStamp DEF IInv
      <3> QED
        BY <2>1, <3>1 DEF Insert, Unknown, IInv, TypeOK, Ledger!Observe
    <2>2. ASSUME NEW w \in Worker, RunStep(w), ~Insert(w) PROVE UNCHANGED stamp
      BY <2>2 DEF RunStep, StartLive, StartBackfill, StartRun, FetchFails, SelectExisting,
         InsertFails, ListingDone, Notify, Record, Kill, tableVars
    <2> QED
      BY <2>1, <2>2 DEF Next, Tick, Publish, tableVars, vars
  <1> QED
    BY <1>1, <1>2, Invariance, PTL DEF Spec, LedgerRefinement, Ledger!LedgerSpec

=============================================================================
