------------------------- MODULE ArchiveQueueProofs -------------------------
(***************************************************************************)
(* For any number of processes and filings: how often a filing that fails  *)
(* is flagged, although looking for an open issue and adding one are two   *)
(* steps, and that a process always finds a batch to fetch.                *)
(***************************************************************************)
EXTENDS ArchiveQueue, FiniteSetTheorems, WellFoundedInduction, TLAPS

\* The processes that found no issue of f and are about to add one.
Flaggers(f) == {w \in Worker : f \in flagging[w]}

\* A batch comes from the table, and nothing leaves the table.
TodoKnown == \A w \in Worker : todo[w] \subseteq known

\* Every open issue was added by a process other than those still to add one,
\* as far as they all found none.
FlagsCounted == \A f \in Filing : issues[f] + Cardinality(Flaggers(f)) <= Cardinality(Worker)

IInv ==
    /\ TypeOK
    /\ IsFiniteSet(known)
    /\ TodoKnown
    /\ FlagsCounted

\* Sets of processes have sizes, and no more members than there are processes.
LEMMA WorkersCounted ==
  ASSUME NEW S \in SUBSET Worker
  PROVE  /\ IsFiniteSet(S) /\ Cardinality(S) \in Nat
         /\ Cardinality(Worker) \in Nat /\ Cardinality(S) <= Cardinality(Worker)
  BY FS_Subset, FS_CardinalityType, ArchiveAssumption

\* The filings that are pending can be counted.
LEMMA PendingCounted ==
  ASSUME IInv
  PROVE  IsFiniteSet(Pending) /\ Cardinality(Pending) \in Nat
  BY FS_Subset, FS_CardinalityType DEF IInv, Pending

\* At first no filing is known and none is flagged.
LEMMA InitIInv == Init => IInv
  <1> SUFFICES ASSUME Init PROVE IInv
    OBVIOUS
  <1>1. TypeOK
    BY DEF Init, TypeOK, Phase
  <1>2. IsFiniteSet(known)
    BY FS_EmptySet DEF Init
  <1>3. TodoKnown
    BY DEF Init, TodoKnown
  <1>4. ASSUME NEW f \in Filing
        PROVE  issues[f] + Cardinality(Flaggers(f)) <= Cardinality(Worker)
    <2>1. issues[f] = 0
      BY DEF Init
    <2>2. Flaggers(f) \in SUBSET Worker
      BY DEF Flaggers
    <2> QED
      BY <2>1, <2>2, WorkersCounted
  <1> QED
    BY <1>1, <1>2, <1>3, <1>4 DEF IInv, FlagsCounted

\* Where no issue is added and no process starts to flag, the count stands.
LEMMA FlagsStayCounted ==
  ASSUME IInv,
         \A f \in Filing : issues'[f] \in Nat /\ issues'[f] <= issues[f],
         \A w \in Worker : flagging'[w] \subseteq flagging[w]
  PROVE  FlagsCounted'
  <1>1. ASSUME NEW f \in Filing
        PROVE  issues'[f] + Cardinality(Flaggers(f)') <= Cardinality(Worker)
    <2>1. Flaggers(f)' \in SUBSET Flaggers(f) /\ Flaggers(f) \in SUBSET Worker
      BY DEF Flaggers
    <2>2. Cardinality(Flaggers(f)') <= Cardinality(Flaggers(f))
      BY <2>1, WorkersCounted, FS_Subset
    <2>3. issues[f] + Cardinality(Flaggers(f)) <= Cardinality(Worker)
      BY DEF IInv, FlagsCounted
    <2>4. issues[f] \in Nat
      BY DEF IInv, TypeOK
    <2>5. Flaggers(f)' \in SUBSET Worker
      BY <2>1
    <2> QED
      BY <2>1, <2>2, <2>3, <2>4, <2>5, WorkersCounted
  <1> QED
    BY <1>1 DEF FlagsCounted

\* Who finds no issue is one flagger more, of a filing that has none.
LEMMA FindNoIssueKeepsIInv ==
  ASSUME IInv, NEW w \in Worker, NEW f \in Filing, FindNoIssue(w, f)
  PROVE  IInv'
  <1>1. TypeOK' /\ IsFiniteSet(known') /\ TodoKnown'
    BY DEF IInv, TypeOK, TodoKnown, FindNoIssue
  <1>2. /\ flagging'[w] = {f} /\ \A v \in Worker \ {w} : flagging'[v] = flagging[v]
        /\ issues[f] = 0 /\ issues' = issues
    BY DEF IInv, TypeOK, FindNoIssue
  <1>3. ASSUME NEW g \in Filing
        PROVE  issues'[g] + Cardinality(Flaggers(g)') <= Cardinality(Worker)
    <2>1. Flaggers(g)' \in SUBSET Worker /\ Flaggers(g) \in SUBSET Worker
      BY DEF Flaggers
    <2>2. CASE g = f
      BY <1>2, <2>1, <2>2, WorkersCounted
    <2>3. CASE g # f
      <3>1. Flaggers(g)' \in SUBSET Flaggers(g)
        BY <1>2, <2>3 DEF Flaggers
      <3>2. Cardinality(Flaggers(g)') <= Cardinality(Flaggers(g))
        BY <2>1, <3>1, WorkersCounted, FS_Subset
      <3>3. issues[g] \in Nat /\ issues[g] + Cardinality(Flaggers(g)) <= Cardinality(Worker)
        BY DEF IInv, TypeOK, FlagsCounted
      <3> QED
        BY <1>2, <2>1, <3>2, <3>3, WorkersCounted
    <2> QED
      BY <2>2, <2>3
  <1> QED
    BY <1>1, <1>3 DEF IInv, FlagsCounted

\* Who adds an issue is a flagger no more.
LEMMA AddIssueKeepsIInv ==
  ASSUME IInv, NEW w \in Worker, NEW f \in Filing, AddIssue(w, f)
  PROVE  IInv'
  <1>1. TypeOK' /\ IsFiniteSet(known') /\ TodoKnown'
    BY DEF IInv, TypeOK, TodoKnown, AddIssue, Done
  <1>2. /\ f \in flagging[w]
        /\ flagging'[w] = {} /\ \A v \in Worker \ {w} : flagging'[v] = flagging[v]
        /\ issues'[f] = issues[f] + 1 /\ \A g \in Filing \ {f} : issues'[g] = issues[g]
    BY DEF IInv, TypeOK, AddIssue
  <1>3. ASSUME NEW g \in Filing
        PROVE  issues'[g] + Cardinality(Flaggers(g)') <= Cardinality(Worker)
    <2>1. Flaggers(g)' \in SUBSET Worker /\ Flaggers(g) \in SUBSET Worker
      BY DEF Flaggers
    <2>2. issues[g] \in Nat /\ issues[g] + Cardinality(Flaggers(g)) <= Cardinality(Worker)
      BY DEF IInv, TypeOK, FlagsCounted
    <2>3. Flaggers(g)' = Flaggers(g) \ {w}
      BY <1>2 DEF Flaggers
    <2>4. CASE g = f
      <3>1. w \in Flaggers(g)
        BY <1>2, <2>4 DEF Flaggers
      <3>2. Cardinality(Flaggers(g)') = Cardinality(Flaggers(g)) - 1
        BY <2>1, <2>3, <3>1, WorkersCounted, FS_RemoveElement
      <3> QED
        BY <1>2, <2>1, <2>2, <2>4, <3>2, WorkersCounted
    <2>5. CASE g # f
      <3>1. Cardinality(Flaggers(g)') <= Cardinality(Flaggers(g))
        BY <2>1, <2>3, WorkersCounted, FS_Subset
      <3> QED
        BY <1>2, <2>1, <2>2, <2>5, <3>1, WorkersCounted
    <2> QED
      BY <2>4, <2>5
  <1> QED
    BY <1>1, <1>3 DEF IInv, FlagsCounted

\* What a batch holds is pending.
LEMMA BatchesPending == \A B \in Batches : B \subseteq Pending
  BY DEF Batches

\* Every step of every process keeps the invariant,
LEMMA NextKeepsIInv == IInv /\ [Next]_vars => IInv'
  <1> SUFFICES ASSUME IInv, [Next]_vars PROVE IInv'
    OBVIOUS
  <1> USE DEF Phase
  <1>1. ASSUME NEW f \in Filing, Index(f) PROVE IInv'
    <2>1. TypeOK' /\ TodoKnown'
      BY <1>1 DEF IInv, TypeOK, TodoKnown, Index
    <2>2. IsFiniteSet(known')
      BY <1>1, FS_AddElement DEF IInv, Index
    <2>3. FlagsCounted'
      BY <1>1, FlagsStayCounted DEF IInv, TypeOK, Index
    <2> QED
      BY <2>1, <2>2, <2>3 DEF IInv
  <1>2. ASSUME NEW w \in Worker, FetchPending(w) PROVE IInv'
    <2>1. PICK batch \in Batches : todo' = [todo EXCEPT ![w] = batch]
      BY <1>2 DEF FetchPending
    <2>2. batch \in SUBSET Filing /\ batch \subseteq known
      BY BatchesPending DEF IInv, TypeOK, Pending
    <2>3. TypeOK' /\ IsFiniteSet(known') /\ TodoKnown'
      BY <1>2, <2>1, <2>2 DEF IInv, TypeOK, TodoKnown, FetchPending, Goto
    <2>4. FlagsCounted'
      BY <1>2, FlagsStayCounted DEF IInv, TypeOK, FetchPending
    <2> QED
      BY <2>3, <2>4 DEF IInv
  <1>3. ASSUME NEW w \in Worker, EndBatch(w) PROVE IInv'
    <2>1. TypeOK' /\ IsFiniteSet(known') /\ TodoKnown'
      BY <1>3 DEF IInv, TypeOK, TodoKnown, EndBatch, Goto
    <2>2. FlagsCounted'
      BY <1>3, FlagsStayCounted DEF IInv, TypeOK, EndBatch
    <2> QED
      BY <2>1, <2>2 DEF IInv
  <1>4. ASSUME NEW w \in Worker, Kill(w) PROVE IInv'
    <2>1. TypeOK' /\ IsFiniteSet(known') /\ TodoKnown'
      BY <1>4 DEF IInv, TypeOK, TodoKnown, Kill, Goto
    <2>2. FlagsCounted'
      BY <1>4, FlagsStayCounted DEF IInv, TypeOK, Kill
    <2> QED
      BY <2>1, <2>2 DEF IInv
  <1>5. ASSUME NEW w \in Worker, CountBefore(w) PROVE IInv'
    <2>1. TypeOK' /\ IsFiniteSet(known') /\ TodoKnown'
      BY <1>5, PendingCounted DEF IInv, TypeOK, TodoKnown, CountBefore, Goto
    <2>2. FlagsCounted'
      BY <1>5, FlagsStayCounted DEF IInv, TypeOK, CountBefore
    <2> QED
      BY <2>1, <2>2 DEF IInv
  <1>6. ASSUME NEW w \in Worker, CountAfter(w) PROVE IInv'
    <2>1. TypeOK' /\ IsFiniteSet(known') /\ TodoKnown'
      BY <1>6 DEF IInv, TypeOK, TodoKnown, CountAfter, Goto
    <2>2. FlagsCounted'
      BY <1>6, FlagsStayCounted DEF IInv, TypeOK, CountAfter
    <2> QED
      BY <2>1, <2>2 DEF IInv
  <1>7. ASSUME NEW w \in Worker, Restart(w) PROVE IInv'
    <2>1. TypeOK' /\ IsFiniteSet(known') /\ TodoKnown'
      BY <1>7 DEF IInv, TypeOK, TodoKnown, Restart, Goto
    <2>2. FlagsCounted'
      BY <1>7, FlagsStayCounted DEF IInv, TypeOK, Restart
    <2> QED
      BY <2>1, <2>2 DEF IInv
  <1>8. ASSUME NEW w \in Worker, NEW f \in Filing, Archive(w, f) PROVE IInv'
    <2>1. f \in known
      BY <1>8 DEF IInv, TodoKnown, Archive, At
    <2>2. TypeOK' /\ IsFiniteSet(known') /\ TodoKnown'
      BY <1>8, <2>1 DEF IInv, TypeOK, TodoKnown, Archive, Done
    <2>3. FlagsCounted'
      BY <1>8, FlagsStayCounted DEF IInv, TypeOK, Archive
    <2> QED
      BY <2>2, <2>3 DEF IInv
  <1>9. ASSUME NEW w \in Worker, NEW f \in Filing, FindIssue(w, f) PROVE IInv'
    <2>1. TypeOK' /\ IsFiniteSet(known') /\ TodoKnown'
      BY <1>9 DEF IInv, TypeOK, TodoKnown, FindIssue, Done
    <2>2. FlagsCounted'
      BY <1>9, FlagsStayCounted DEF IInv, TypeOK, FindIssue
    <2> QED
      BY <2>1, <2>2 DEF IInv
  <1>10. CASE UNCHANGED vars
    <2>1. FlagsCounted'
      BY <1>10, FlagsStayCounted DEF IInv, TypeOK, vars
    <2> QED
      BY <1>10, <2>1 DEF IInv, TypeOK, TodoKnown, vars
  <1> QED
    BY <1>1, <1>2, <1>3, <1>4, <1>5, <1>6, <1>7, <1>8, <1>9, <1>10,
       FindNoIssueKeepsIInv, AddIssueKeepsIInv DEF Next, Step, Try

\* so that it holds throughout.
LEMMA Invariance == Spec => []IInv
  BY InitIInv, NextKeepsIInv, PTL DEF Spec

\* The archived filings are known ones, and pending_before is a number: the
\* table the queue counts stays finite.
THEOREM TypeCorrect == Spec => []TypeOK
  <1>1. IInv => TypeOK
    BY DEF IInv
  <1> QED
    BY <1>1, Invariance, PTL

\* _record_fetch_failed looks for an open issue before it adds one; however
\* many runs and dispatches overlap, a filing ends up with no more open issues
\* than there are processes.
THEOREM DuplicatesBounded == Spec => []DuplicatesAreBounded
  <1>1. ASSUME IInv, NEW f \in Filing
        PROVE  issues[f] <= Cardinality(Worker)
    <2>1. Flaggers(f) \in SUBSET Worker
      BY DEF Flaggers
    <2>2. issues[f] \in Nat /\ issues[f] + Cardinality(Flaggers(f)) <= Cardinality(Worker)
      BY <1>1 DEF IInv, TypeOK, FlagsCounted
    <2> QED
      BY <2>1, <2>2, WorkersCounted
  <1>2. IInv => DuplicatesAreBounded
    BY <1>1 DEF DuplicatesAreBounded
  <1> QED
    BY <1>2, Invariance, PTL

-----------------------------------------------------------------------------
(***************************************************************************)
(* There is a batch for every state of the table.                          *)
(***************************************************************************)

\* Of any subsets of a finite set, one is least.
LEMMA LeastSubset ==
  ASSUME NEW S, IsFiniteSet(S), NEW C \in SUBSET SUBSET S, C # {}
  PROVE  \E m \in C : \A s \in SUBSET m : s # m => s \notin C
  <1>1. IsWellFoundedOn(StrictSubsetOrdering(S), FiniteSubsetsOf(S))
    BY FS_StrictSubsetOrderingWellFounded
  <1>2. C \subseteq FiniteSubsetsOf(S)
    BY FS_Subset DEF FiniteSubsetsOf
  <1>3. \E m \in C : \A s \in C : ~(<<s, m>> \in StrictSubsetOrdering(S))
    BY <1>1, <1>2, WFMin
  <1> QED
    BY <1>3 DEF StrictSubsetOrdering

\* Some filing of those that wait comes first in the order.
LEMMA FirstInOrder ==
  ASSUME TypeOK, NEW S \in SUBSET Filing, S # {}
  PROVE  \E f \in S : \A g \in S : Priority(f) <= Priority(g)
  <1>1. PICK last \in Nat : \A f \in Filing : Priority(f) \in 0 .. last
    <2>1. \A f \in Filing : Priority(f) \in 0 .. 5
      BY ArchiveAssumption DEF TypeOK, Priority
    <2> QED
      BY <2>1
  <1> HIDE DEF Priority
  <1> DEFINE C == {0 .. Priority(f) : f \in S}
  <1>2. PICK I \in C : \A s \in SUBSET I : s # I => s \notin C
    <2> DEFINE range == 0 .. last
    <2>1. IsFiniteSet(range)
      BY FS_Interval
    <2>2. \A f \in S : 0 .. Priority(f) \in SUBSET range
      BY <1>1
    <2> HIDE DEF range
    <2>3. C \in SUBSET SUBSET range /\ C # {}
      BY <2>2
    <2> HIDE DEF C
    <2> QED
      BY <2>1, <2>3, LeastSubset
  <1>3. PICK f \in S : I = 0 .. Priority(f)
    OBVIOUS
  <1>4. ASSUME NEW g \in S, Priority(g) < Priority(f)
        PROVE  FALSE
    <2>1. 0 .. Priority(g) \in SUBSET I /\ Priority(f) \in I /\ Priority(f) \notin 0 .. Priority(g)
      BY <1>1, <1>3, <1>4
    <2> QED
      BY <1>2, <2>1
  <1> QED
    BY <1>1, <1>4

\* Beginnings of the queue, up to the limit, that nothing comes before.
Heads ==
    {B \in SUBSET Pending :
        /\ Cardinality(B) <= BatchSize
        /\ \A f \in B, g \in Pending \ B : Priority(f) <= Priority(g)}

\* A beginning as long as any is a batch.
LEMMA BatchExists ==
  ASSUME IInv
  PROVE  Batches # {}
  <1>1. IsFiniteSet(Pending) /\ Pending \in SUBSET Filing /\ BatchSize \in Nat \ {0}
    BY PendingCounted, ArchiveAssumption DEF IInv, TypeOK, Pending
  <1>2. {} \in Heads
    BY <1>1, FS_EmptySet DEF Heads
  <1> DEFINE C == {Pending \ B : B \in Heads}
  <1>3. PICK m \in C : \A s \in SUBSET m : s # m => s \notin C
    <2>1. C \in SUBSET SUBSET Pending /\ C # {}
      BY <1>2
    <2> HIDE DEF C
    <2> QED
      BY <1>1, <2>1, LeastSubset
  <1>4. PICK B \in Heads : m = Pending \ B
    OBVIOUS
  <1>5. /\ B \in SUBSET Pending /\ Cardinality(B) <= BatchSize
        /\ \A f \in B, g \in Pending \ B : Priority(f) <= Priority(g)
    BY DEF Heads
  <1>6. IsFiniteSet(B) /\ Cardinality(B) \in Nat
    BY <1>1, <1>5, FS_Subset, FS_CardinalityType
  <1>7. ASSUME Cardinality(B) # BatchSize, B # Pending
        PROVE  FALSE
    <2>1. PICK h \in Pending \ B : \A g \in Pending \ B : Priority(h) <= Priority(g)
      BY <1>1, <1>5, <1>7, FirstInOrder DEF IInv
    <2> DEFINE D == B \cup {h}
    <2>2. Cardinality(D) = Cardinality(B) + 1
      BY <1>6, FS_AddElement
    <2>3. Cardinality(D) <= BatchSize
      BY <1>1, <1>5, <1>6, <1>7, <2>2
    <2>4. \A f \in D, g \in Pending \ D : Priority(f) <= Priority(g)
      BY <1>5, <2>1
    <2>5. D \in Heads
      BY <1>5, <2>3, <2>4 DEF Heads
    <2>6. Pending \ D \in SUBSET m /\ Pending \ D # m /\ Pending \ D \in C
      BY <1>4, <1>5, <2>1, <2>5
    <2> HIDE DEF C, D
    <2> QED
      BY <1>3, <2>6
  <1>8. B \in Batches
    BY <1>5, <1>7 DEF Batches
  <1> QED
    BY <1>8

\* A run never comes away from the queue with nothing while filings wait, and
\* always with something it may fetch, whatever has failed before: LIMIT and
\* ORDER BY leave at least one batch, and only an empty queue an empty one.
FetchesWork ==
    /\ Batches # {}
    /\ Pending # {} => {} \notin Batches

THEOREM QueueServesWork == Spec => []FetchesWork
  <1>1. ASSUME Pending # {}, {} \in Batches
        PROVE  FALSE
    <2>1. Cardinality({}) = BatchSize
      BY <1>1 DEF Batches
    <2> QED
      BY <2>1, FS_EmptySet, ArchiveAssumption
  <1>2. IInv => FetchesWork
    BY <1>1, BatchExists DEF FetchesWork
  <1> QED
    BY <1>2, Invariance, PTL

=============================================================================
