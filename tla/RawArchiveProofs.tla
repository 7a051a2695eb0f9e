--------------------------- MODULE RawArchiveProofs ---------------------------
(***************************************************************************)
(* Proofs about RawArchive for any filings, documents and faults: what the *)
(* archive holds, what `filings` says it holds and what was read from it.  *)
(* A filing that is not in doubt has one writer at a time, from the SELECT *)
(* that lists it to the release of its bytes.  So what the writer saw then *)
(* is still so when it writes: nothing recorded (the collector), nothing   *)
(* there (the re-archive), the checksum it has in its list (the migration).*)
(***************************************************************************)
EXTENDS RawArchive, TLAPS

-----------------------------------------------------------------------------
(***************************************************************************)
(* The invariant of the archive.                                           *)
(***************************************************************************)
Listed(w, f) == \E e \in todo[w] : e[1] = f

\* w is one of those who write objects, and has f in hand or still to come.
Writer(w, f) == w # "annual" /\ (at[w] = f \/ Listed(w, f))

\* One of the two House archivers has.
ByArchiver(f) == \E a \in Archiver : Writer(a, f)

Sure == Filing \ doubt

\* A filing in hand is off the list.
HandsAreOffLists == \A w \in Program : at[w] # None => ~Listed(w, at[w])

HandsAreFull ==
    /\ at["annual"] = None /\ at["migrate"] = None
    /\ \A w \in Program :
          IF at[w] = None THEN ~putDone[w]
                          ELSE got[w] # None /\ (putDone[w] => r2[at[w]] # None)

\* Of each list, what its SELECT asked for and no one else changes.
ListsStayTrue ==
    \A f \in Filing :
        /\ ByArchiver(f) => f \in Annual
        /\ Writer("senate", f) => f \in Senate /\ status[f] = "pending"
        /\ Writer("rearchive", f) \/ Writer("migrate", f) => sha[f] # None
        /\ Listed("annual", f) => f \in Annual /\ sha[f] # None

OneWriter == \A f \in Sure : \A v, w \in Program : Writer(v, f) /\ Writer(w, f) => v = w

\* What a writer saw of a filing that is not in doubt.
WritersSeeTruth ==
    \A f \in Sure :
        /\ ByArchiver(f) => sha[f] = None
        /\ at["rearchive"] = f /\ ~putDone["rearchive"] => r2[f] = None
        /\ \A e \in todo["migrate"] : e[1] = f => e[2] = sha[f]
        /\ \A w \in Program : at[w] = f /\ putDone[w] => r2[f] = got[w]

\* A filing without an object is as it was before the move.
MissingIsOld == \A f \in Filing : r2[f] = None => sha[f] = old[f]

ReadIsRecorded == \A f \in Filing : rows[f] # None => sha[f] # None

IInv ==
    /\ TypeOK
    /\ HandsAreOffLists
    /\ HandsAreFull
    /\ ListsStayTrue
    /\ OneWriter
    /\ WritersSeeTruth
    /\ MissingIsOld
    /\ ReadIsRecorded
    /\ ChecksumIsTrue
    /\ RowsAreArchived

-----------------------------------------------------------------------------
(***************************************************************************)
(* What the conjuncts say together.                                        *)
(***************************************************************************)

\* Only the archivers, the Senate parser and the re-archive ever have bytes in hand.
LEMMA Holders ==
  ASSUME IInv, NEW w \in Program, at[w] # None
  PROVE  /\ w \in Archiver \cup {"senate", "rearchive"}
         /\ at[w] \in Filing /\ got[w] \in Content /\ got[w] # None
         /\ Writer(w, at[w]) /\ ~Listed(w, at[w])
  <1>1. w \in Archiver \cup {"senate", "rearchive"}
    BY DEF IInv, HandsAreFull, Program, Collector, Archiver, ByArchiver
  <1>2. at[w] \in Filing /\ got[w] \in Content /\ got[w] # None
    BY DEF IInv, TypeOK, HandsAreFull, Bytes
  <1> QED
    BY <1>1, <1>2 DEF IInv, HandsAreOffLists, Writer, Archiver

\* Who writes a filing that is not in doubt writes it alone.
LEMMA Alone ==
  ASSUME IInv, NEW f \in Sure, NEW v \in Program, NEW w \in Program, Writer(v, f), Writer(w, f)
  PROVE  v = w
  BY DEF IInv, OneWriter

\* What the collector lists it has not recorded.
LEMMA CollectorsRecordFirst ==
  ASSUME IInv, NEW f \in Sure, ByArchiver(f) \/ Writer("senate", f)
  PROVE  sha[f] = None /\ rows[f] = None
  <1>1. f \in Filing
    BY DEF Sure
  <1>2. CASE ByArchiver(f)
    BY <1>1, <1>2 DEF IInv, WritersSeeTruth, ReadIsRecorded
  <1>3. CASE Writer("senate", f)
    BY <1>1, <1>3 DEF IInv, ListsStayTrue, RowsAreArchived, ReadIsRecorded
  <1> QED
    BY <1>2, <1>3

\* The initial states: no object, no list.
LEMMA InitIInv == Init => IInv
  <1> SUFFICES ASSUME Init PROVE IInv
    OBVIOUS
  <1>1. old \in [Filing -> Bytes] /\ site \in [Filing -> Bytes]
    BY ArchiveAssumption DEF Init, Bytes
  <1>2. TypeOK
    <2>1. faults \in 0..MaxFaults
      <3>1. faults = 0
        BY DEF Init
      <3>2. MaxFaults \in Nat
        BY ArchiveAssumption
      <3> QED
        BY <3>1, <3>2
    <2>2. /\ r2 \in [Filing -> Bytes] /\ sha \in [Filing -> Bytes]
          /\ at \in [Program -> Filing \cup {None}] /\ got \in [Program -> Bytes]
          /\ putDone \in [Program -> BOOLEAN]
      BY <1>1 DEF Init, Bytes
    <2>3. todo \in [Program -> SUBSET (Filing \X Bytes)]
      BY DEF Init
    <2>4. status \in [Filing -> {"pending", "parsed", "paper_deferred", "failed"}]
      BY DEF Init
    <2>5. rows \in [Filing -> Bytes]
      BY <1>1 DEF Init, Bytes
    <2> QED
      BY <1>1, <2>1, <2>2, <2>3, <2>4, <2>5 DEF Init, TypeOK
  <1>3. \A w \in Program : at[w] = None /\ ~putDone[w] /\ todo[w] = {}
    BY DEF Init
  <1>4. HandsAreOffLists /\ HandsAreFull
    BY <1>3 DEF HandsAreOffLists, HandsAreFull, Program, Collector, Archiver, ByArchiver
  <1>5. \A w \in Program, f \in Filing : ~Writer(w, f) /\ ~Listed(w, f)
    BY <1>3, ArchiveAssumption DEF Writer, Listed
  <1>6. ListsStayTrue
    BY <1>5 DEF ListsStayTrue, Program, Collector, Archiver, ByArchiver
  <1>7. OneWriter
    BY <1>5 DEF OneWriter, Sure
  <1>8. WritersSeeTruth
    BY <1>3, <1>5, ArchiveAssumption DEF WritersSeeTruth, Sure, Program, Collector, Archiver, ByArchiver
  <1>9. MissingIsOld /\ ReadIsRecorded /\ ChecksumIsTrue /\ RowsAreArchived
    BY <1>1, ArchiveAssumption
    DEF Init, MissingIsOld, ReadIsRecorded, ChecksumIsTrue, RowsAreArchived, Legacy, Filing
  <1> QED
    BY <1>2, <1>4, <1>6, <1>7, <1>8, <1>9 DEF IInv

\* Where lists only get shorter and bytes are only released, there are no new
\* writers.
LEMMA NoNewWriters ==
  ASSUME \A v \in Program : todo'[v] \subseteq todo[v] /\ at'[v] \in {at[v], None}
  PROVE  \A v \in Program, f \in Filing :
            /\ Listed(v, f)' => Listed(v, f)
            /\ Writer(v, f)' => Writer(v, f)
  <1>1. \A v \in Program, f \in Filing : Listed(v, f)' => Listed(v, f)
    BY DEF Listed
  <1> QED
    BY <1>1, ArchiveAssumption DEF Writer

\* Then what was true of the writers stays true as long as no object and no
\* checksum changes.
LEMMA WritersLeave ==
  ASSUME IInv,
         \A v \in Program :
            /\ todo'[v] \subseteq todo[v]
            /\ \/ at'[v] = at[v] /\ got'[v] = got[v] /\ putDone'[v] = putDone[v]
               \/ at'[v] = None /\ ~putDone'[v],
         UNCHANGED <<r2, sha, old>>, doubt \subseteq doubt'
  PROVE  /\ HandsAreOffLists' /\ HandsAreFull' /\ OneWriter' /\ WritersSeeTruth' /\ MissingIsOld'
         /\ \A v \in Program, f \in Filing :
               /\ Listed(v, f)' => Listed(v, f)
               /\ Writer(v, f)' => Writer(v, f)
  <1>1. \A v \in Program, f \in Filing :
            /\ Listed(v, f)' => Listed(v, f)
            /\ Writer(v, f)' => Writer(v, f)
    BY NoNewWriters
  <1>2. \A f \in Sure' : f \in Sure
    BY DEF Sure
  <1>3. HandsAreOffLists'
    BY <1>1 DEF IInv, TypeOK, HandsAreOffLists
  <1>4. HandsAreFull'
    BY DEF IInv, HandsAreFull, Program, Collector, Archiver, ByArchiver
  <1>5. OneWriter'
    BY <1>1, <1>2 DEF IInv, OneWriter, Sure
  <1>6. WritersSeeTruth'
    <2> SUFFICES ASSUME NEW f \in Sure'
                 PROVE  /\ ByArchiver(f)' => sha'[f] = None
                        /\ at'["rearchive"] = f /\ ~putDone'["rearchive"] => r2'[f] = None
                        /\ \A e \in todo'["migrate"] : e[1] = f => e[2] = sha'[f]
                        /\ \A w \in Program : at'[w] = f /\ putDone'[w] => r2'[f] = got'[w]
      BY DEF WritersSeeTruth
    <2>1. f \in Sure /\ f \in Filing /\ f # None
      BY <1>2, ArchiveAssumption DEF Sure
    <2> QED
      BY <1>1, <2>1 DEF IInv, WritersSeeTruth, Program, Collector, Archiver, ByArchiver
  <1>7. MissingIsOld'
    BY DEF IInv, MissingIsOld
  <1> QED
    BY <1>1, <1>3, <1>4, <1>5, <1>6, <1>7

\* Lists only get shorter, and bytes in hand are only released.
NoNewWork ==
    \A v \in Program :
        /\ todo'[v] \subseteq todo[v]
        /\ \/ at'[v] = at[v] /\ got'[v] = got[v] /\ putDone'[v] = putDone[v]
           \/ at'[v] = None /\ ~putDone'[v]

\* Objects and checksums stay, and a re-archive that lets go of bytes it has
\* put leaves a doubt.
StoresStand ==
    /\ UNCHANGED <<r2, sha, old>> /\ doubt \subseteq doubt'
    /\ at'["rearchive"] # at["rearchive"] /\ putDone["rearchive"] => at["rearchive"] \in doubt'

\* A Senate PTR may be given up that was not read and has left its list, and a
\* recorded annual report may be read.
GivenUpOrRead ==
    /\ \A f \in Senate :
          \/ status'[f] = status[f]
          \/ status[f] # "parsed" /\ status'[f] # "parsed" /\ ~Writer("senate", f)'
    /\ \A f \in Filing :
          rows'[f] = rows[f] \/ (f \in Annual /\ sha[f] # None /\ rows'[f] = r2[f])

\* Such a step keeps the invariant.
LEMMA LettingGo ==
  ASSUME IInv, TypeOK', NoNewWork, StoresStand, GivenUpOrRead
  PROVE  IInv'
  <1> USE DEF NoNewWork, StoresStand, GivenUpOrRead
  <1>1. /\ HandsAreOffLists' /\ HandsAreFull' /\ OneWriter' /\ WritersSeeTruth' /\ MissingIsOld'
        /\ \A v \in Program, f \in Filing :
              /\ Listed(v, f)' => Listed(v, f)
              /\ Writer(v, f)' => Writer(v, f)
    BY WritersLeave
  <1>2. \A f \in Sure' : f \in Sure /\ f \in Filing /\ f # None
    BY ArchiveAssumption DEF Sure
  <1>3. ListsStayTrue'
    <2> SUFFICES ASSUME NEW f \in Filing
                 PROVE  /\ ByArchiver(f)' => f \in Annual
                        /\ Writer("senate", f)' => f \in Senate /\ status'[f] = "pending"
                        /\ Writer("rearchive", f)' \/ Writer("migrate", f)' => sha'[f] # None
                        /\ Listed("annual", f)' => f \in Annual /\ sha'[f] # None
      BY DEF ListsStayTrue
    <2> QED
      BY <1>1 DEF IInv, ListsStayTrue, Program, Collector, Archiver, ByArchiver
  <1>4. ReadIsRecorded'
    BY DEF IInv, ReadIsRecorded
  <1>5. ChecksumIsTrue'
    <2> SUFFICES ASSUME NEW f \in Sure', sha[f] # None, r2[f] # None, sha[f] # r2[f]
                 PROVE  \E w \in Program : at'[w] = f /\ putDone'[w]
      BY DEF ChecksumIsTrue, Sure
    <2>1. PICK w \in Program : at[w] = f /\ putDone[w]
      BY <1>2 DEF IInv, ChecksumIsTrue, Sure
    <2>2. w \in Archiver \cup {"senate", "rearchive"} /\ Writer(w, f)
      BY <1>2, <2>1, Holders
    <2>3. w = "rearchive"
      BY <1>2, <2>2, CollectorsRecordFirst DEF ByArchiver
    <2>4. at'[w] = at[w]
      BY <2>1, <2>3 DEF Sure
    <2> QED
      BY <1>2, <2>1, <2>4
  <1>6. RowsAreArchived'
    <2>1. \A f \in Senate : sha'[f] # None <=> status'[f] = "parsed"
      BY DEF IInv, RowsAreArchived
    <2>2. \A f \in Filing \ (doubt' \cup (Senate \cap Legacy')) : rows'[f] # None => rows'[f] = r2'[f]
      BY DEF IInv, RowsAreArchived, Legacy
    <2>3. \A f \in Senate \cap Legacy' : rows'[f] = old'[f]
      BY ArchiveAssumption DEF IInv, RowsAreArchived, Legacy, Filing
    <2> QED
      BY <2>1, <2>2, <2>3 DEF RowsAreArchived
  <1> QED
    BY <1>1, <1>3, <1>4, <1>5, <1>6 DEF IInv

-----------------------------------------------------------------------------
(***************************************************************************)
(* Step by step.                                                           *)
(***************************************************************************)

\* Who is to do a filing lists it, and has nothing in hand.
LEMMA ToDoListed ==
  ASSUME IInv, NEW w \in Program, NEW f \in Filing, ToDo(w, f)
  PROVE  Listed(w, f) /\ at[w] = None /\ at[w] # f /\ ~putDone[w] /\ todo[w] # {}
  BY ArchiveAssumption DEF ToDo, Listed, IInv, HandsAreFull

\* What is taken off a list is no longer on it.
LEMMA Taken ==
  ASSUME IInv, NEW w \in Program, NEW f, TakeOff(w, f)
  PROVE  /\ todo' \in [Program -> SUBSET (Filing \X Bytes)]
         /\ \A v \in Program : todo'[v] \subseteq todo[v] /\ (v # w => todo'[v] = todo[v])
         /\ ~Listed(w, f)'
  BY DEF IInv, TypeOK, TakeOff, Listed

LEMMA FaultCounted ==
  ASSUME IInv, Fault
  PROVE  faults' \in 0..MaxFaults
  <1>1. MaxFaults \in Nat
    BY ArchiveAssumption
  <1>2. faults \in 0..MaxFaults
    BY DEF IInv, TypeOK
  <1> QED
    BY <1>1, <1>2 DEF Fault

LEMMA SkipIInv ==
  ASSUME IInv, NEW w \in Program, NEW f \in Filing, Skip(w, f)
  PROVE  IInv'
  <1>1. /\ todo' \in [Program -> SUBSET (Filing \X Bytes)]
        /\ \A v \in Program : todo'[v] \subseteq todo[v]
    BY Taken DEF Skip
  <1>2. TypeOK'
    BY <1>1 DEF IInv, TypeOK, Skip, storeVars, tableVars
  <1>3. NoNewWork
    BY <1>1 DEF Skip, NoNewWork
  <1>4. StoresStand
    BY DEF Skip, StoresStand, storeVars, tableVars
  <1>5. GivenUpOrRead
    BY DEF Skip, GivenUpOrRead, tableVars
  <1> QED
    BY <1>2, <1>3, <1>4, <1>5, LettingGo

LEMMA DieOnDateIInv ==
  ASSUME IInv, NEW w \in Program, NEW f \in Filing, DieOnDate(w, f)
  PROVE  IInv'
  <1>1. /\ todo' \in [Program -> SUBSET (Filing \X Bytes)]
        /\ \A v \in Program : todo'[v] \subseteq todo[v]
    BY DEF DieOnDate, IInv, TypeOK
  <1>2. TypeOK'
    BY <1>1 DEF IInv, TypeOK, DieOnDate, storeVars, tableVars
  <1>3. NoNewWork
    BY <1>1 DEF DieOnDate, NoNewWork
  <1>4. StoresStand
    BY DEF DieOnDate, StoresStand, storeVars, tableVars
  <1>5. GivenUpOrRead
    BY DEF DieOnDate, GivenUpOrRead, tableVars
  <1> QED
    BY <1>2, <1>3, <1>4, <1>5, LettingGo

LEMMA CopyFailsIInv ==
  ASSUME IInv, NEW f \in Filing, CopyFails(f)
  PROVE  IInv'
  <1>1. /\ todo' \in [Program -> SUBSET (Filing \X Bytes)]
        /\ \A v \in Program : todo'[v] \subseteq todo[v]
    BY Taken DEF CopyFails, Program
  <1>2. faults' \in 0..MaxFaults
    BY FaultCounted DEF CopyFails
  <1>3. TypeOK'
    BY <1>1, <1>2 DEF IInv, TypeOK, CopyFails, storeVars, tableVars
  <1>4. NoNewWork
    BY <1>1 DEF CopyFails, NoNewWork
  <1>5. StoresStand
    BY DEF CopyFails, StoresStand, storeVars, tableVars
  <1>6. GivenUpOrRead
    BY DEF CopyFails, GivenUpOrRead, tableVars
  <1> QED
    BY <1>3, <1>4, <1>5, <1>6, LettingGo

LEMMA OutsideIInv ==
  ASSUME IInv, SupabaseStops \/ \E f \in Filing : SiteChanges(f)
  PROVE  IInv'
  <1>1. UNCHANGED <<old, r2, tableVars, workVars, doubt>>
    BY DEF SupabaseStops, SiteChanges
  <1>2. faults' \in 0..MaxFaults
    BY FaultCounted DEF SupabaseStops, SiteChanges
  <1>3. site' \in [Filing -> Bytes]
    <2>1. CASE SupabaseStops
      BY <2>1 DEF SupabaseStops, IInv, TypeOK
    <2>2. CASE \E f \in Filing : SiteChanges(f)
      <3>1. PICK f \in Filing : SiteChanges(f)
        BY <2>2
      <3>2. PICK c \in Served[f] \cup {None} : site' = [site EXCEPT ![f] = c]
        BY <3>1 DEF SiteChanges
      <3>3. c \in Bytes
        BY ArchiveAssumption DEF Bytes
      <3> QED
        BY <3>2, <3>3 DEF IInv, TypeOK
    <2> QED
      BY <2>1, <2>2
  <1>4. TypeOK'
    BY <1>1, <1>2, <1>3 DEF IInv, TypeOK, tableVars, workVars
  <1>5. NoNewWork
    BY <1>1 DEF NoNewWork, workVars
  <1>6. StoresStand
    BY <1>1 DEF StoresStand, tableVars, workVars
  <1>7. GivenUpOrRead
    BY <1>1 DEF GivenUpOrRead, tableVars
  <1> QED
    BY <1>4, <1>5, <1>6, <1>7, LettingGo

LEMMA StutterIInv ==
  ASSUME IInv, UNCHANGED vars
  PROVE  IInv'
  <1>1. TypeOK'
    BY DEF IInv, TypeOK, vars, storeVars, tableVars, workVars
  <1>2. NoNewWork
    BY DEF NoNewWork, vars, workVars
  <1>3. StoresStand
    BY DEF StoresStand, vars, storeVars, tableVars, workVars
  <1>4. GivenUpOrRead
    BY DEF GivenUpOrRead, vars, tableVars
  <1> QED
    BY <1>1, <1>2, <1>3, <1>4, LettingGo

LEMMA FailSenateIInv ==
  ASSUME IInv, NEW w \in Program, NEW f \in Filing, FailSenate(w, f)
  PROVE  IInv'
  <1>1. w = "senate" /\ Listed(w, f) /\ at[w] = None /\ f # None
    BY ToDoListed, ArchiveAssumption DEF FailSenate
  <1>2. /\ todo' \in [Program -> SUBSET (Filing \X Bytes)]
        /\ \A v \in Program : todo'[v] \subseteq todo[v]
        /\ ~Listed(w, f)'
    BY Taken DEF FailSenate
  <1>3. status[f] = "pending"
    BY <1>1 DEF IInv, ListsStayTrue, Writer
  <1>4. /\ status' = [status EXCEPT ![f] = "failed"]
        /\ ticketed' = ticketed \cup {f}
        /\ UNCHANGED <<site, old, r2, sha, rows, at, got, putDone, doubt, faults>>
    BY DEF FailSenate, MarkFailed, storeVars
  <1>5. TypeOK'
    BY <1>2, <1>4 DEF IInv, TypeOK
  <1>6. ~Writer("senate", f)'
    BY <1>1, <1>2, <1>4 DEF Writer
  <1>7. \A g \in Senate :
            \/ status'[g] = status[g]
            \/ status[g] # "parsed" /\ status'[g] # "parsed" /\ ~Writer("senate", g)'
    BY <1>3, <1>4, <1>6 DEF IInv, TypeOK, Filing
  <1>8. NoNewWork
    BY <1>2, <1>4 DEF NoNewWork
  <1>9. StoresStand
    BY <1>4 DEF StoresStand
  <1>10. GivenUpOrRead
    BY <1>4, <1>7 DEF GivenUpOrRead
  <1> QED
    BY <1>5, <1>8, <1>9, <1>10, LettingGo

LEMMA ReadAnnualIInv ==
  ASSUME IInv, NEW w \in Program, NEW f \in Filing, ReadAnnual(w, f)
  PROVE  IInv'
  <1>1. w = "annual" /\ Listed("annual", f)
    BY ToDoListed DEF ReadAnnual
  <1>2. f \in Annual /\ f \notin Senate /\ sha[f] # None
    BY <1>1, ArchiveAssumption DEF IInv, ListsStayTrue
  <1>3. /\ todo' \in [Program -> SUBSET (Filing \X Bytes)]
        /\ \A v \in Program : todo'[v] \subseteq todo[v]
    BY Taken DEF ReadAnnual
  <1>4. /\ UNCHANGED <<site, old, r2, sha, at, got, putDone, doubt, faults>>
        /\ ticketed' \in {ticketed, ticketed \cup {f}}
        /\ \E c \in {"parsed", "paper_deferred", "failed"} : status' = [status EXCEPT ![f] = c]
        /\ \/ rows' = rows
           \/ rows' = [rows EXCEPT ![f] = r2[f]]
    BY DEF ReadAnnual, SaveHoldings, DeferPaper, MarkFailed, storeVars
  <1>5. TypeOK'
    BY <1>3, <1>4 DEF IInv, TypeOK
  <1>6. \A g \in Senate : status'[g] = status[g]
    BY <1>2, <1>4
  <1>7. \A g \in Filing : rows'[g] = rows[g] \/ (g = f /\ rows'[g] = r2[g])
    BY <1>4 DEF IInv, TypeOK
  <1>8. NoNewWork
    BY <1>3, <1>4 DEF NoNewWork
  <1>9. StoresStand
    BY <1>4 DEF StoresStand
  <1>10. GivenUpOrRead
    BY <1>2, <1>6, <1>7 DEF GivenUpOrRead
  <1> QED
    BY <1>5, <1>8, <1>9, <1>10, LettingGo

LEMMA UploadFailsIInv ==
  ASSUME IInv, NEW w \in Program, UploadFails(w)
  PROVE  IInv'
  <1>0. PICK f \in Filing : f = at[w]
    BY Holders DEF UploadFails
  <1>1. f # None /\ Writer(w, f) /\ ~Listed(w, f)
    BY <1>0, Holders DEF UploadFails
  <1>2. /\ UNCHANGED <<site, old, r2, sha, rows, todo>>
        /\ at' = [at EXCEPT ![w] = None] /\ got' = [got EXCEPT ![w] = None]
        /\ putDone' = [putDone EXCEPT ![w] = FALSE]
    BY DEF UploadFails, MarkFailed, tableVars, storeVars, Release
  <1>3. /\ doubt \subseteq doubt' /\ doubt' \subseteq Filing
        /\ w = "rearchive" /\ putDone[w] => at[w] \in doubt'
    BY <1>0 DEF UploadFails, LeaveInDoubt, IInv, TypeOK
  <1>4. faults' \in 0..MaxFaults
    BY FaultCounted DEF UploadFails
  <1>5. \/ UNCHANGED <<status, ticketed>>
        \/ /\ w = "senate"
           /\ status' = [status EXCEPT ![f] = "failed"] /\ ticketed' = ticketed \cup {f}
    BY <1>0 DEF UploadFails, MarkFailed, tableVars
  <1>6. TypeOK'
    <2>1. status' \in [Filing -> {"pending", "parsed", "paper_deferred", "failed"}] /\ ticketed' \subseteq Filing
      BY <1>1, <1>5 DEF IInv, TypeOK
    <2>2. /\ at' \in [Program -> Filing \cup {None}] /\ got' \in [Program -> Bytes]
          /\ putDone' \in [Program -> BOOLEAN]
      BY <1>2 DEF IInv, TypeOK, Bytes
    <2> QED
      BY <1>2, <1>3, <1>4, <2>1, <2>2 DEF IInv, TypeOK
  <1>7. NoNewWork
    BY <1>2 DEF NoNewWork, IInv, TypeOK
  <1>8. \A g \in Senate :
            \/ status'[g] = status[g]
            \/ status[g] # "parsed" /\ status'[g] # "parsed" /\ ~Writer("senate", g)'
    <2>1. CASE UNCHANGED <<status, ticketed>>
      BY <2>1
    <2>2. CASE w = "senate" /\ status' = [status EXCEPT ![f] = "failed"]
      <3>1. status[f] = "pending"
        BY <1>1, <2>2 DEF IInv, ListsStayTrue
      <3>2. at'["senate"] = None
        BY <1>2, <2>2 DEF IInv, TypeOK
      <3>3. ~Writer("senate", f)'
        BY <1>1, <1>2, <2>2, <3>2 DEF Writer, Listed
      <3> QED
        BY <2>2, <3>1, <3>3 DEF IInv, TypeOK, Filing
    <2> QED
      BY <1>5, <2>1, <2>2
  <1>9. at'["rearchive"] # at["rearchive"] /\ putDone["rearchive"] => at["rearchive"] \in doubt'
    BY <1>2, <1>3 DEF IInv, TypeOK, Program
  <1>10. StoresStand
    BY <1>2, <1>3, <1>9 DEF StoresStand
  <1>11. GivenUpOrRead
    BY <1>2, <1>8 DEF GivenUpOrRead
  <1> QED
    BY <1>6, <1>7, <1>10, <1>11, LettingGo

LEMMA KillIInv ==
  ASSUME IInv, NEW w \in Program, Kill(w)
  PROVE  IInv'
  <1>1. /\ UNCHANGED <<site, old, r2, tableVars>>
        /\ at' = [at EXCEPT ![w] = None] /\ got' = [got EXCEPT ![w] = None]
        /\ putDone' = [putDone EXCEPT ![w] = FALSE]
        /\ todo' = [todo EXCEPT ![w] = {}]
    BY DEF Kill, storeVars, Release
  <1>2. putDone[w] => at[w] \in Filing
    BY Holders DEF IInv, HandsAreFull
  <1>3. /\ doubt \subseteq doubt' /\ doubt' \subseteq Filing
        /\ w = "rearchive" /\ putDone[w] => at[w] \in doubt'
    BY <1>2 DEF Kill, LeaveInDoubt, IInv, TypeOK
  <1>4. faults' \in 0..MaxFaults
    BY FaultCounted DEF Kill
  <1>5. /\ at' \in [Program -> Filing \cup {None}] /\ got' \in [Program -> Bytes]
        /\ putDone' \in [Program -> BOOLEAN] /\ todo' \in [Program -> SUBSET (Filing \X Bytes)]
    BY <1>1 DEF IInv, TypeOK, Bytes
  <1>6. TypeOK'
    BY <1>1, <1>3, <1>4, <1>5 DEF IInv, TypeOK, tableVars
  <1>7. NoNewWork
    BY <1>1 DEF NoNewWork, IInv, TypeOK
  <1>8. at'["rearchive"] # at["rearchive"] /\ putDone["rearchive"] => at["rearchive"] \in doubt'
    BY <1>1, <1>3 DEF IInv, TypeOK, Program
  <1>9. StoresStand
    BY <1>1, <1>3, <1>8 DEF StoresStand, tableVars
  <1>10. GivenUpOrRead
    BY <1>1 DEF GivenUpOrRead, tableVars
  <1> QED
    BY <1>6, <1>7, <1>9, <1>10, LettingGo

\* A program's SELECT: what it lists is so at the time, and a filing that
\* another writer has still to come to is in doubt from now on.
LEMMA StartIInv ==
  ASSUME IInv, NEW w \in Program, Start(w)
  PROVE  IInv'
  <1>1. /\ todo[w] = {} /\ at[w] = None
        /\ todo' = [todo EXCEPT ![w] = {Entry(w, f) : f \in Selected(w)}]
        /\ UNCHANGED <<site, old, r2, sha, status, rows, ticketed, at, got, putDone, faults>>
    BY DEF Start, Idle, storeVars, tableVars
  <1>2. Selected(w) \subseteq Filing
    BY DEF Selected, Filing
  <1>3. \A f \in Selected(w) : Entry(w, f) \in Filing \X Bytes /\ Entry(w, f)[1] = f
    BY <1>2 DEF Entry, IInv, TypeOK, Bytes
  <1>4. todo'[w] = {Entry(w, f) : f \in Selected(w)} /\ \A v \in Program \ {w} : todo'[v] = todo[v]
    BY <1>1 DEF IInv, TypeOK
  <1>5. \A f : Listed(w, f)' <=> f \in Selected(w)
    BY <1>3, <1>4 DEF Listed
  <1>6. \A v \in Program \ {w} : \A f : (Listed(v, f)' <=> Listed(v, f)) /\ (Writer(v, f)' <=> Writer(v, f))
    BY <1>1, <1>4 DEF Writer, Listed
  <1>7. \A f \in Filing : Writer(w, f)' => w # "annual" /\ f \in Selected(w)
    BY <1>1, <1>5, ArchiveAssumption DEF Writer
  <1>8. doubt \subseteq doubt' /\ doubt' \subseteq Filing
    BY <1>2 DEF Start, IInv, TypeOK
  <1>9. TypeOK'
    <2>1. todo' \in [Program -> SUBSET (Filing \X Bytes)]
      BY <1>1, <1>3 DEF IInv, TypeOK
    <2> QED
      BY <1>1, <1>8, <2>1 DEF IInv, TypeOK
  <1>10. HandsAreOffLists'
    BY <1>1, <1>6 DEF IInv, HandsAreOffLists
  <1>11. HandsAreFull'
    BY <1>1 DEF IInv, HandsAreFull
  <1>12. ListsStayTrue'
    <2> SUFFICES ASSUME NEW f \in Filing
                 PROVE  /\ ByArchiver(f)' => f \in Annual
                        /\ Writer("senate", f)' => f \in Senate /\ status[f] = "pending"
                        /\ Writer("rearchive", f)' \/ Writer("migrate", f)' => sha[f] # None
                        /\ Listed("annual", f)' => f \in Annual /\ sha[f] # None
      BY <1>1 DEF ListsStayTrue
    <2>1. ByArchiver(f)' => f \in Annual
      BY <1>6, <1>7 DEF IInv, ListsStayTrue, Program, Collector, Archiver, ByArchiver, Selected
    <2>2. Writer("senate", f)' => f \in Senate /\ status[f] = "pending"
      BY <1>6, <1>7 DEF IInv, ListsStayTrue, Program, Collector, Archiver, ByArchiver, Selected
    <2>3. Writer("rearchive", f)' => sha[f] # None
      BY <1>6, <1>7 DEF IInv, ListsStayTrue, Program, Archiver, Selected
    <2>4. Writer("migrate", f)' => sha[f] # None
      BY <1>6, <1>7 DEF IInv, ListsStayTrue, Program, Archiver, Selected
    <2>5. Listed("annual", f)' => f \in Annual /\ sha[f] # None
      BY <1>5, <1>6 DEF IInv, ListsStayTrue, Program, Collector, Archiver, ByArchiver, Selected
    <2> QED
      BY <2>1, <2>2, <2>3, <2>4, <2>5
  <1>13. OneWriter'
    <2> SUFFICES ASSUME NEW f \in Sure', NEW v \in Program, NEW u \in Program,
                        Writer(v, f)', Writer(u, f)', v # u
                 PROVE  FALSE
      BY DEF OneWriter
    <2>1. f \in Sure /\ f \in Filing /\ f \notin doubt'
      BY <1>8 DEF Sure
    <2>2. ASSUME NEW x \in Program \ {w}, Writer(w, f)', Writer(x, f)'
          PROVE  FALSE
      <3>1. Writer(x, f) /\ f \in Selected(w) /\ w # "annual"
        BY <1>6, <1>7, <2>1, <2>2
      <3>2. Contended(w, f)
        BY <3>1 DEF Contended, Writer, Listed
      <3> QED
        BY <2>1, <3>1, <3>2 DEF Start
    <2>3. CASE v # w /\ u # w
      BY <1>6, <2>1, <2>3 DEF IInv, OneWriter
    <2> QED
      BY <2>2, <2>3
  <1>14. WritersSeeTruth'
    <2> SUFFICES ASSUME NEW f \in Sure'
                 PROVE  /\ ByArchiver(f)' => sha[f] = None
                        /\ at["rearchive"] = f /\ ~putDone["rearchive"] => r2[f] = None
                        /\ \A e \in todo'["migrate"] : e[1] = f => e[2] = sha[f]
                        /\ \A v \in Program : at[v] = f /\ putDone[v] => r2[f] = got[v]
      BY <1>1 DEF WritersSeeTruth
    <2>1. f \in Sure /\ f \in Filing
      BY <1>8 DEF Sure
    <2>2. ByArchiver(f)' => sha[f] = None
      BY <1>6, <1>7, <2>1 DEF IInv, WritersSeeTruth, Program, Collector, Archiver, ByArchiver, Selected
    <2>3. \A e \in todo'["migrate"] : e[1] = f => e[2] = sha[f]
      BY <1>4, <2>1 DEF IInv, WritersSeeTruth, Program, Entry
    <2> QED
      BY <2>1, <2>2, <2>3 DEF IInv, WritersSeeTruth
  <1>15. MissingIsOld' /\ ReadIsRecorded'
    BY <1>1 DEF IInv, MissingIsOld, ReadIsRecorded
  <1>16. ChecksumIsTrue' /\ RowsAreArchived'
    BY <1>1, <1>8 DEF IInv, ChecksumIsTrue, RowsAreArchived, Legacy
  <1> QED
    BY <1>9, <1>10, <1>11, <1>12, <1>13, <1>14, <1>15, <1>16 DEF IInv

\* The bytes come into the program's hands: it goes on being the writer.
LEMMA FetchIInv ==
  ASSUME IInv, NEW w \in Program, NEW f \in Filing, Fetch(w, f)
  PROVE  IInv'
  <1>1. /\ w \in Archiver \cup {"senate", "rearchive"} /\ site[f] # None
        /\ w = "rearchive" => r2[f] = None
    BY DEF Fetch, Wanted, Present, Archiver
  <1>2. /\ Listed(w, f) /\ at[w] = None /\ at[w] # f /\ ~putDone[w] /\ Writer(w, f) /\ f # None
    BY <1>1, ToDoListed, ArchiveAssumption DEF Fetch, Writer, Archiver
  <1>3. /\ at' = [at EXCEPT ![w] = f] /\ got' = [got EXCEPT ![w] = site[f]]
        /\ UNCHANGED <<site, old, r2, sha, status, rows, ticketed, putDone, doubt, faults>>
    BY DEF Fetch, Hold, storeVars, tableVars
  <1>4. /\ todo' \in [Program -> SUBSET (Filing \X Bytes)]
        /\ \A v \in Program : todo'[v] \subseteq todo[v]
        /\ ~Listed(w, f)'
    BY Taken DEF Fetch, Hold
  <1>5. /\ at'[w] = f /\ got'[w] = site[f]
        /\ \A v \in Program \ {w} : at'[v] = at[v] /\ got'[v] = got[v]
    BY <1>3 DEF IInv, TypeOK
  <1>6. \A v \in Program, g \in Filing : (Listed(v, g)' => Listed(v, g)) /\ (Writer(v, g)' => Writer(v, g))
    <2>1. \A v \in Program, g \in Filing : Listed(v, g)' => Listed(v, g)
      BY <1>4 DEF Listed
    <2> QED
      BY <1>2, <1>5, <2>1 DEF Writer
  <1>7. TypeOK'
    BY <1>3, <1>4 DEF IInv, TypeOK
  <1>8. HandsAreOffLists'
    <2> SUFFICES ASSUME NEW v \in Program, at'[v] # None, Listed(v, at[v])'
                 PROVE  FALSE
      BY DEF HandsAreOffLists
    <2>1. v # w
      BY <1>4, <1>5
    <2>2. at'[v] = at[v] /\ at[v] \in Filing
      BY <1>5, <2>1 DEF IInv, TypeOK
    <2>3. Listed(v, at[v])
      BY <1>4, <2>2 DEF Listed
    <2> QED
      BY <2>2, <2>3 DEF IInv, HandsAreOffLists
  <1>9. HandsAreFull'
    BY <1>1, <1>2, <1>3, <1>5 DEF IInv, HandsAreFull, Program, Collector, Archiver, ByArchiver
  <1>10. ListsStayTrue'
    BY <1>3, <1>6 DEF IInv, ListsStayTrue, Program, Collector, Archiver, ByArchiver
  <1>11. OneWriter'
    BY <1>3, <1>6 DEF IInv, OneWriter, Sure
  <1>12. WritersSeeTruth'
    <2> SUFFICES ASSUME NEW g \in Sure'
                 PROVE  /\ ByArchiver(g)' => sha[g] = None
                        /\ at'["rearchive"] = g /\ ~putDone["rearchive"] => r2[g] = None
                        /\ \A e \in todo'["migrate"] : e[1] = g => e[2] = sha[g]
                        /\ \A v \in Program : at'[v] = g /\ putDone[v] => r2[g] = got'[v]
      BY <1>3 DEF WritersSeeTruth
    <2>1. g \in Sure /\ g \in Filing
      BY <1>3 DEF Sure
    <2>2. ByArchiver(g)' => sha[g] = None
      BY <1>6, <2>1 DEF IInv, WritersSeeTruth, Program, Collector, Archiver, ByArchiver
    <2>3. at'["rearchive"] = g /\ ~putDone["rearchive"] => r2[g] = None
      BY <1>1, <1>5, <2>1 DEF IInv, WritersSeeTruth, Program
    <2>4. \A e \in todo'["migrate"] : e[1] = g => e[2] = sha[g]
      BY <1>4, <2>1 DEF IInv, WritersSeeTruth, Program
    <2>5. \A v \in Program : at'[v] = g /\ putDone[v] => r2[g] = got'[v]
      BY <1>2, <1>5, <2>1 DEF IInv, WritersSeeTruth
    <2> QED
      BY <2>2, <2>3, <2>4, <2>5
  <1>13. MissingIsOld' /\ ReadIsRecorded' /\ RowsAreArchived'
    BY <1>3 DEF IInv, MissingIsOld, ReadIsRecorded, RowsAreArchived, Legacy
  <1>14. ChecksumIsTrue'
    BY <1>2, <1>3, <1>5 DEF IInv, ChecksumIsTrue
  <1> QED
    BY <1>7, <1>8, <1>9, <1>10, <1>11, <1>12, <1>13, <1>14 DEF IInv

\* The migration puts what Supabase has under a filing that has no object, or,
\* in doubt, over another one.
LEMMA CopyOldIInv ==
  ASSUME IInv, NEW w \in Program, NEW f \in Filing, CopyOld(w, f)
  PROVE  IInv'
  <1>1. /\ w = "migrate" /\ r2[f] # Expected("migrate", f) /\ old[f] # None
        /\ r2' = [r2 EXCEPT ![f] = old[f]]
        /\ UNCHANGED <<site, old, sha, status, rows, ticketed, at, got, putDone, doubt, faults>>
    BY DEF CopyOld, Migrated, tableVars
  <1>2. Listed("migrate", f) /\ Writer("migrate", f) /\ at["migrate"] = None /\ f # None
    BY <1>1, ToDoListed, ArchiveAssumption DEF CopyOld, Writer
  <1>3. /\ todo' \in [Program -> SUBSET (Filing \X Bytes)]
        /\ \A v \in Program : todo'[v] \subseteq todo[v]
    BY Taken DEF CopyOld
  <1>4. \A v \in Program, g \in Filing : (Listed(v, g)' => Listed(v, g)) /\ (Writer(v, g)' => Writer(v, g))
    BY <1>1, <1>3 DEF Listed, Writer
  <1>5. r2' \in [Filing -> Bytes] /\ r2'[f] = old[f] /\ \A g \in Filing \ {f} : r2'[g] = r2[g]
    BY <1>1 DEF IInv, TypeOK
  <1>6. ASSUME f \in Sure, NEW v \in Program, Writer(v, f)
        PROVE  v = "migrate"
    BY <1>2, <1>6, Alone DEF Program
  <1>7. ASSUME f \in Sure
        PROVE  r2[f] = None /\ sha[f] = old[f]
    <2>1. Expected("migrate", f) = sha[f]
      BY <1>2, <1>7 DEF Expected, Listed, IInv, WritersSeeTruth, Program
    <2>2. sha[f] # None
      BY <1>2 DEF IInv, ListsStayTrue
    <2>3. r2[f] = None
      <3> SUFFICES ASSUME r2[f] # None PROVE FALSE
        OBVIOUS
      <3>1. PICK v \in Program : at[v] = f /\ putDone[v]
        BY <1>1, <1>7, <2>1, <2>2 DEF IInv, ChecksumIsTrue, Sure
      <3>2. Writer(v, f)
        BY <1>2, <3>1, Holders
      <3> QED
        BY <1>2, <1>6, <1>7, <3>1, <3>2
    <2> QED
      BY <2>3 DEF IInv, MissingIsOld
  <1>8. TypeOK'
    BY <1>1, <1>3, <1>5 DEF IInv, TypeOK
  <1>9. HandsAreOffLists'
    BY <1>1, <1>4 DEF IInv, TypeOK, HandsAreOffLists
  <1>10. HandsAreFull'
    BY <1>1, <1>5 DEF IInv, TypeOK, HandsAreFull
  <1>11. ListsStayTrue'
    BY <1>1, <1>4 DEF IInv, ListsStayTrue, Program, Collector, Archiver, ByArchiver
  <1>12. OneWriter'
    BY <1>1, <1>4 DEF IInv, OneWriter, Sure
  <1>13. WritersSeeTruth'
    <2> SUFFICES ASSUME NEW g \in Sure
                 PROVE  /\ ByArchiver(g)' => sha[g] = None
                        /\ at["rearchive"] = g /\ ~putDone["rearchive"] => r2'[g] = None
                        /\ \A e \in todo'["migrate"] : e[1] = g => e[2] = sha[g]
                        /\ \A v \in Program : at[v] = g /\ putDone[v] => r2'[g] = got[v]
      BY <1>1 DEF WritersSeeTruth, Sure
    <2>1. g \in Filing
      BY DEF Sure
    <2>2. ByArchiver(g)' => sha[g] = None
      BY <1>4, <2>1 DEF IInv, WritersSeeTruth, Program, Collector, Archiver, ByArchiver
    <2>3. \A e \in todo'["migrate"] : e[1] = g => e[2] = sha[g]
      BY <1>3 DEF IInv, WritersSeeTruth, Program
    <2>4. \A v \in Program : at[v] = g => g # f
      BY <1>2, <1>6, Holders
    <2>5. at["rearchive"] = g /\ ~putDone["rearchive"] => r2'[g] = None
      BY <1>5, <2>1, <2>4 DEF IInv, WritersSeeTruth, Program
    <2>6. \A v \in Program : at[v] = g /\ putDone[v] => r2'[g] = got[v]
      BY <1>5, <2>1, <2>4 DEF IInv, WritersSeeTruth
    <2> QED
      BY <2>2, <2>3, <2>5, <2>6
  <1>14. MissingIsOld' /\ ReadIsRecorded'
    BY <1>1, <1>5 DEF IInv, MissingIsOld, ReadIsRecorded
  <1>15. ChecksumIsTrue'
    BY <1>1, <1>5, <1>7 DEF IInv, ChecksumIsTrue, Sure
  <1>16. RowsAreArchived'
    BY <1>1, <1>5, <1>7 DEF IInv, RowsAreArchived, Legacy, Sure
  <1> QED
    BY <1>8, <1>9, <1>10, <1>11, <1>12, <1>13, <1>14, <1>15, <1>16 DEF IInv

\* The writer of a filing puts its object: of the collector nothing is recorded
\* yet, and the re-archive has found nothing there.
LEMMA PutObjectIInv ==
  ASSUME IInv, NEW w \in Program, PutObject(w)
  PROVE  IInv'
  <1>1. PICK f \in Filing : f = at[w]
    BY Holders DEF PutObject
  <1>2. /\ w \in Archiver \cup {"senate", "rearchive"}
        /\ got[w] # None /\ got[w] \in Bytes /\ Writer(w, f) /\ f # None /\ ~putDone[w]
    BY <1>1, Holders DEF PutObject, Bytes
  <1>3. /\ r2' = [r2 EXCEPT ![f] = got[w]] /\ putDone' = [putDone EXCEPT ![w] = TRUE]
        /\ UNCHANGED <<site, old, sha, status, rows, ticketed, todo, at, got, doubt, faults>>
    BY <1>1 DEF PutObject, tableVars
  <1>4. r2'[f] = got[w] /\ \A g \in Filing \ {f} : r2'[g] = r2[g]
    BY <1>3 DEF IInv, TypeOK
  <1>5. putDone'[w] /\ \A v \in Program \ {w} : putDone'[v] = putDone[v]
    BY <1>3 DEF IInv, TypeOK
  <1>6. ASSUME f \in Sure, NEW v \in Program, at[v] = f
        PROVE  v = w
    BY <1>2, <1>6, Alone DEF Writer, Program, IInv, HandsAreFull
  <1>7. f \in Sure => rows[f] = None \/ f \in Senate \cap Legacy
    <2>1. CASE w \in Archiver \cup {"senate"}
      BY <1>2, <2>1, CollectorsRecordFirst DEF ByArchiver
    <2>2. CASE w = "rearchive"
      <3>1. f \in Sure => r2[f] = None
        BY <1>1, <1>2, <2>2 DEF IInv, WritersSeeTruth
      <3> QED
        BY <3>1 DEF IInv, RowsAreArchived, Sure
    <2> QED
      BY <1>2, <2>1, <2>2
  <1>8. \A v \in Program, g \in Filing : (Listed(v, g)' <=> Listed(v, g)) /\ (Writer(v, g)' <=> Writer(v, g))
    BY <1>3 DEF Listed, Writer
  <1>9. TypeOK'
    BY <1>2, <1>3 DEF IInv, TypeOK
  <1>10. HandsAreOffLists' /\ ListsStayTrue'
    BY <1>3, <1>8 DEF IInv, TypeOK, HandsAreOffLists, ListsStayTrue, Program, Collector, Archiver, ByArchiver
  <1>11. HandsAreFull'
    <2>1. \A v \in Program : at[v] # None /\ putDone'[v] => r2'[at[v]] # None
      BY <1>1, <1>2, <1>4, <1>5 DEF IInv, TypeOK, HandsAreFull
    <2>2. \A v \in Program : at[v] = None => ~putDone'[v]
      BY <1>1, <1>2, <1>5 DEF IInv, HandsAreFull
    <2> QED
      BY <1>3, <2>1, <2>2 DEF IInv, HandsAreFull
  <1>12. OneWriter'
    BY <1>3, <1>8 DEF IInv, OneWriter, Sure
  <1>13. WritersSeeTruth'
    <2> SUFFICES ASSUME NEW g \in Sure
                 PROVE  /\ ByArchiver(g)' => sha[g] = None
                        /\ at["rearchive"] = g /\ ~putDone'["rearchive"] => r2'[g] = None
                        /\ \A e \in todo["migrate"] : e[1] = g => e[2] = sha[g]
                        /\ \A v \in Program : at[v] = g /\ putDone'[v] => r2'[g] = got[v]
      BY <1>3 DEF WritersSeeTruth, Sure
    <2>1. g \in Filing
      BY DEF Sure
    <2>2. ByArchiver(g)' => sha[g] = None
      BY <1>8, <2>1 DEF IInv, WritersSeeTruth, Program, Collector, Archiver, ByArchiver
    <2>3. \A e \in todo["migrate"] : e[1] = g => e[2] = sha[g]
      BY DEF IInv, WritersSeeTruth
    <2>4. CASE g = f
      BY <1>4, <1>5, <1>6, <2>2, <2>3, <2>4 DEF Program
    <2>5. CASE g # f
      <3>1. \A v \in Program : at[v] = g => v # w
        BY <1>1, <2>5
      <3> QED
        BY <1>4, <1>5, <2>1, <2>2, <2>3, <2>5, <3>1 DEF IInv, WritersSeeTruth, Program
    <2> QED
      BY <2>4, <2>5
  <1>14. MissingIsOld' /\ ReadIsRecorded'
    BY <1>2, <1>3, <1>4 DEF IInv, MissingIsOld, ReadIsRecorded
  <1>15. ChecksumIsTrue'
    <2> SUFFICES ASSUME NEW g \in Sure, sha[g] # None, r2'[g] # None
                 PROVE  sha[g] = r2'[g] \/ \E v \in Program : at[v] = g /\ putDone'[v]
      BY <1>3 DEF ChecksumIsTrue, Sure
    <2>1. CASE g = f
      BY <1>1, <1>5, <2>1
    <2>2. CASE g # f
      BY <1>4, <1>5, <2>2 DEF IInv, ChecksumIsTrue, Sure
    <2> QED
      BY <2>1, <2>2
  <1>16. RowsAreArchived'
    BY <1>3, <1>4, <1>7 DEF IInv, RowsAreArchived, Legacy, Sure
  <1> QED
    BY <1>9, <1>10, <1>11, <1>12, <1>13, <1>14, <1>15, <1>16 DEF IInv

\* The writer records what it has put, and leaves.
LEMMA RecordIInv ==
  ASSUME IInv, NEW w \in Program, Record(w)
  PROVE  IInv'
  <1>1. PICK f \in Filing : f = at[w]
    BY Holders DEF Record
  <1>2. /\ w \in Archiver \cup {"senate", "rearchive"}
        /\ got[w] # None /\ got[w] \in Bytes /\ Writer(w, f) /\ ~Listed(w, f) /\ f # None /\ putDone[w]
    BY <1>1, Holders DEF Record, Bytes
  <1>3. /\ UNCHANGED <<site, old, r2, ticketed, todo, doubt, faults>>
        /\ sha' = [sha EXCEPT ![f] = got[w]]
        /\ at' = [at EXCEPT ![w] = None] /\ got' = [got EXCEPT ![w] = None]
        /\ putDone' = [putDone EXCEPT ![w] = FALSE]
    BY <1>1 DEF Record, SetSha, Release, storeVars
  <1>4. IF w = "senate"
        THEN status' = [status EXCEPT ![f] = "parsed"] /\ rows' = [rows EXCEPT ![f] = got[w]]
        ELSE UNCHANGED <<status, rows>>
    BY <1>1 DEF Record
  <1>5. sha'[f] = got[w] /\ \A g \in Filing \ {f} : sha'[g] = sha[g]
    BY <1>3 DEF IInv, TypeOK
  <1>6. /\ at'[w] = None /\ ~putDone'[w]
        /\ \A v \in Program \ {w} : at'[v] = at[v] /\ got'[v] = got[v] /\ putDone'[v] = putDone[v]
    BY <1>3 DEF IInv, TypeOK
  <1>7. \A g \in Filing \ {f} : status'[g] = status[g] /\ rows'[g] = rows[g]
    BY <1>4 DEF IInv, TypeOK
  <1>8. IF w = "senate" THEN status'[f] = "parsed" /\ rows'[f] = got[w]
                        ELSE status'[f] = status[f] /\ rows'[f] = rows[f]
    BY <1>4 DEF IInv, TypeOK
  <1>9. \A v \in Program, g \in Filing : (Listed(v, g)' <=> Listed(v, g)) /\ (Writer(v, g)' => Writer(v, g))
    BY <1>3, <1>6, ArchiveAssumption DEF Listed, Writer
  <1>10. ~Writer(w, f)'
    BY <1>2, <1>6, <1>9 DEF Writer
  <1>11. ASSUME f \in Sure, NEW v \in Program
         PROVE  ~Writer(v, f)'
    BY <1>2, <1>9, <1>10, <1>11, Alone DEF Program
  <1>12. f \in Sure => r2[f] = got[w]
    BY <1>1, <1>2 DEF IInv, WritersSeeTruth
  <1>13. TypeOK'
    <2>1. sha' \in [Filing -> Bytes]
      BY <1>2, <1>3 DEF IInv, TypeOK
    <2>2. /\ at' \in [Program -> Filing \cup {None}] /\ got' \in [Program -> Bytes]
          /\ putDone' \in [Program -> BOOLEAN]
      BY <1>3 DEF IInv, TypeOK, Bytes
    <2>3. /\ status' \in [Filing -> {"pending", "parsed", "paper_deferred", "failed"}]
          /\ rows' \in [Filing -> Bytes]
      BY <1>2, <1>4 DEF IInv, TypeOK
    <2> QED
      BY <1>3, <2>1, <2>2, <2>3 DEF IInv, TypeOK
  <1>14. HandsAreOffLists'
    BY <1>3, <1>6, <1>9 DEF IInv, TypeOK, HandsAreOffLists
  <1>15. HandsAreFull'
    BY <1>3, <1>6 DEF IInv, HandsAreFull, Program, Collector, Archiver, ByArchiver
  <1>16. ListsStayTrue'
    <2> SUFFICES ASSUME NEW g \in Filing
                 PROVE  /\ ByArchiver(g)' => g \in Annual
                        /\ Writer("senate", g)' => g \in Senate /\ status'[g] = "pending"
                        /\ Writer("rearchive", g)' \/ Writer("migrate", g)' => sha'[g] # None
                        /\ Listed("annual", g)' => g \in Annual /\ sha'[g] # None
      BY DEF ListsStayTrue
    <2>1. /\ ByArchiver(g)' => g \in Annual
          /\ Writer("senate", g)' => g \in Senate /\ status[g] = "pending"
          /\ Writer("rearchive", g)' \/ Writer("migrate", g)' => sha[g] # None
          /\ Listed("annual", g)' => g \in Annual /\ sha[g] # None
      BY <1>9 DEF IInv, ListsStayTrue, Program, Collector, Archiver, ByArchiver
    <2>2. sha[g] # None => sha'[g] # None
      BY <1>2, <1>5
    <2>3. Writer("senate", g)' => status'[g] = status[g]
      BY <1>7, <1>8, <1>10
    <2> QED
      BY <2>1, <2>2, <2>3
  <1>17. OneWriter'
    BY <1>3, <1>9 DEF IInv, OneWriter, Sure
  <1>18. WritersSeeTruth'
    <2> SUFFICES ASSUME NEW g \in Sure
                 PROVE  /\ ByArchiver(g)' => sha'[g] = None
                        /\ at'["rearchive"] = g /\ ~putDone'["rearchive"] => r2[g] = None
                        /\ \A e \in todo["migrate"] : e[1] = g => e[2] = sha'[g]
                        /\ \A v \in Program : at'[v] = g /\ putDone'[v] => r2[g] = got'[v]
      BY <1>3 DEF WritersSeeTruth, Sure
    <2>1. g \in Filing /\ g # None
      BY ArchiveAssumption DEF Sure
    <2>2. CASE g = f
      <3>1. \A v \in Program : ~Writer(v, g)'
        BY <1>11, <2>2
      <3>2. \A v \in Program : v # "annual" => at'[v] # g /\ ~\E e \in todo'[v] : e[1] = g
        BY <3>1 DEF Writer, Listed
      <3>3. at'["annual"] # g
        BY <1>2, <1>6, <2>1 DEF IInv, HandsAreFull, Program, Collector, Archiver, ByArchiver
      <3> QED
        BY <1>3, <3>1, <3>2, <3>3 DEF Program, Collector, Archiver, ByArchiver
    <2>3. CASE g # f
      <3>1. ByArchiver(g)' => sha'[g] = None
        BY <1>5, <1>9, <2>1, <2>3 DEF IInv, WritersSeeTruth, Program, Collector, Archiver, ByArchiver
      <3>2. at'["rearchive"] = g /\ ~putDone'["rearchive"] => r2[g] = None
        BY <1>6, <2>1 DEF IInv, WritersSeeTruth, Program
      <3>3. \A e \in todo["migrate"] : e[1] = g => e[2] = sha'[g]
        BY <1>5, <2>1, <2>3 DEF IInv, WritersSeeTruth
      <3>4. \A v \in Program : at'[v] = g /\ putDone'[v] => r2[g] = got'[v]
        BY <1>6, <2>1 DEF IInv, WritersSeeTruth
      <3> QED
        BY <3>1, <3>2, <3>3, <3>4
    <2> QED
      BY <2>2, <2>3
  <1>19. MissingIsOld'
    <2>1. r2[f] # None
      BY <1>1, <1>2 DEF IInv, HandsAreFull
    <2> QED
      BY <1>3, <1>5, <2>1 DEF IInv, MissingIsOld
  <1>20. ReadIsRecorded'
    BY <1>2, <1>5, <1>7, <1>8 DEF IInv, ReadIsRecorded
  <1>21. ChecksumIsTrue'
    <2> SUFFICES ASSUME NEW g \in Sure, sha'[g] # None, r2[g] # None
                 PROVE  sha'[g] = r2[g] \/ \E v \in Program : at'[v] = g /\ putDone'[v]
      BY <1>3 DEF ChecksumIsTrue, Sure
    <2>1. CASE g = f
      BY <1>5, <1>12, <2>1
    <2>2. CASE g # f
      BY <1>1, <1>5, <1>6, <2>2 DEF IInv, ChecksumIsTrue, Sure
    <2> QED
      BY <2>1, <2>2
  <1>22. RowsAreArchived'
    <2>1. ASSUME NEW g \in Filing \ (doubt \cup (Senate \cap Legacy)), rows'[g] # None
          PROVE  rows'[g] = r2[g]
      <3>1. g \in Sure
        BY DEF Sure
      <3>2. CASE g = f /\ w = "senate"
        BY <1>8, <1>12, <3>1, <3>2
      <3>3. CASE g # f \/ w # "senate"
        BY <1>7, <1>8, <2>1, <3>3 DEF IInv, RowsAreArchived
      <3> QED
        BY <3>2, <3>3
    <2>2. ASSUME NEW g \in Senate
          PROVE  sha'[g] # None <=> status'[g] = "parsed"
      <3>1. CASE g # f
        BY <1>5, <1>7, <3>1 DEF IInv, RowsAreArchived, Filing
      <3>2. CASE g = f /\ w = "senate"
        BY <1>2, <1>5, <1>8, <3>2
      <3>3. CASE g = f /\ w = "rearchive"
        BY <1>2, <1>5, <1>8, <3>3 DEF IInv, RowsAreArchived, ListsStayTrue
      <3>4. CASE g = f /\ w \in Archiver
        BY <1>2, <3>4, ArchiveAssumption DEF IInv, ListsStayTrue, ByArchiver
      <3> QED
        BY <1>2, <3>1, <3>2, <3>3, <3>4
    <2>3. ASSUME NEW g \in Senate \cap Legacy
          PROVE  rows'[g] = old[g]
      <3>1. g \in Filing /\ rows[g] = old[g] /\ old[g] # None
        BY DEF IInv, RowsAreArchived, Legacy
      <3>2. status[g] = "parsed"
        BY <3>1 DEF IInv, ReadIsRecorded, RowsAreArchived
      <3>3. w = "senate" => g # f
        BY <1>2, <3>2 DEF IInv, ListsStayTrue
      <3> QED
        BY <1>7, <1>8, <3>1, <3>3
    <2> QED
      BY <1>3, <2>1, <2>2, <2>3 DEF RowsAreArchived, Legacy
  <1> QED
    BY <1>13, <1>14, <1>15, <1>16, <1>17, <1>18, <1>19, <1>20, <1>21, <1>22 DEF IInv

\* Every step keeps the invariant.
LEMMA NextIInv == IInv /\ [Next]_vars => IInv'
  <1> SUFFICES ASSUME IInv, [Next]_vars PROVE IInv'
    OBVIOUS
  <1>1. ASSUME NEW w \in Program, NEW f \in Filing, Handle(w, f)
        PROVE  IInv'
    BY <1>1, FetchIInv, CopyOldIInv, SkipIInv, FailSenateIInv, DieOnDateIInv, ReadAnnualIInv DEF Handle
  <1>2. ASSUME NEW w \in Program, Work(w) \/ Start(w) \/ UploadFails(w) \/ Kill(w)
        PROVE  IInv'
    BY <1>1, <1>2, PutObjectIInv, RecordIInv, StartIInv, UploadFailsIInv, KillIInv DEF Work
  <1>3. ASSUME NEW f \in Filing, CopyFails(f)
        PROVE  IInv'
    BY <1>3, CopyFailsIInv
  <1>4. CASE SupabaseStops \/ \E f \in Filing : SiteChanges(f)
    BY <1>4, OutsideIInv
  <1>5. CASE UNCHANGED vars
    BY <1>5, StutterIInv
  <1> QED
    BY <1>2, <1>3, <1>4, <1>5 DEF Next

LEMMA Invariance == Spec => []IInv
  BY InitIInv, NextIInv, PTL DEF Spec

-----------------------------------------------------------------------------
\* Lists name filings, and only who has a filing in hand has bytes in hand.
THEOREM TypeCorrect == Spec => []TypeOK
  <1>1. IInv => TypeOK
    BY DEF IInv
  <1> QED
    BY <1>1, Invariance, PTL

\* Whatever the collector, the two recoveries, the sources and Supabase do and
\* wherever they are cut, a filing's recorded checksum is that of its object,
\* except while a program is about to record it and where two of them overlapped
\* on the filing or a re-archive was cut before _update_sha256.
THEOREM ChecksumTrue == Spec => []ChecksumIsTrue
  <1>1. IInv => ChecksumIsTrue
    BY DEF IInv
  <1> QED
    BY <1>1, Invariance, PTL

\* Nobody exchanges an object under rows that were read from it, unless two programs
\* overlapped on the filing or a re-archive was cut before _update_sha256: house_fds.py
\* reads only what is recorded, the collector records only what had no key, and the
\* recoveries put only what is missing.  Of a Senate PTR that was parsed before the
\* move no more is claimed than that its rows stay the old archive's, whatever the
\* recoveries put; and a Senate PTR has a key exactly if it was read.
THEOREM RowsArchived == Spec => []RowsAreArchived
  <1>1. IInv => RowsAreArchived
    BY DEF IInv
  <1> QED
    BY <1>1, Invariance, PTL

==============================================================================
