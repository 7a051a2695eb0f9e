-------------------------- MODULE AmendmentsProofs --------------------------
(***************************************************************************)
(* Proofs about Amendments, for any rows, filings and order of filing.     *)
(*                                                                         *)
(* That every group keeps a current row is not inductive: a commit makes   *)
(* true what the linker saw, so the same must hold of that view all along, *)
(* and a row that joins a group later must not be one that was cleared.    *)
(* That a resolved group is left alone needs the same of resolved groups:  *)
(* the linker sees them as the table has them.                             *)
(***************************************************************************)
EXTENDS Amendments, TLAPS

\* Only rows with an id are ever cleared.
Untouched == \A t \in Tx : t \notin identified => current[t] /\ t \notin cleared

\* What the linker would commit now leaves every group a current row.
GroupSeenCurrent ==
    \A id \in SourceId : Group(id) # {} => \E t \in Group(id) : SeenCurrent(t)

PointsBack(pointer) ==
    \A f \in Filing : pointer[f] # None =>
        pointer[f] # f /\ FiledRank[pointer[f]] <= FiledRank[f]

IInv ==
    /\ TypeOK
    /\ Untouched
    /\ GroupHasCurrent
    /\ GroupSeenCurrent
    /\ SupersedesPointsBack
    /\ PointsBack(pointed)

-----------------------------------------------------------------------------
\* An empty table satisfies the invariant.
LEMMA InitIInv == Init => IInv
  BY AmendmentAssumption DEF Init, IInv, TypeOK, NoPointers, Untouched, GroupHasCurrent,
     GroupSeenCurrent, SupersedesPointsBack, PointsBack, Group

\* A row that joins a group is current and not cleared, whether it is new or
\* only got its id now.
LEMMA JoinKeepsIInv ==
    ASSUME IInv, NEW t \in Tx, SaveRow(t) \/ BackfillId(t)
    PROVE  IInv'
  <1>1. /\ identified' \in {identified, identified \cup {t}}
        /\ saved' \in {saved, saved \cup {t}}
        /\ t \in saved'
        /\ UNCHANGED <<current, supersedes, linking, todo, cleared, set, pointed>>
    BY DEF SaveRow, BackfillId, linkVars
  <1>2. TypeOK'
    BY <1>1 DEF IInv, TypeOK
  <1>3. \A u \in identified' \ identified : current'[u] /\ SeenCurrent(u)'
    BY <1>1 DEF IInv, Untouched, SeenCurrent
  <1>4. \A u \in identified : current'[u] = current[u] /\ SeenCurrent(u)' = SeenCurrent(u)
    BY <1>1 DEF SeenCurrent
  <1>5. \A id \in SourceId : \A u \in Group(id)' : u \in identified' \ identified \/ u \in Group(id)
    BY DEF Group
  <1>6. \A id \in SourceId : Group(id) \subseteq Group(id)'
    BY <1>1 DEF Group
  <1>7. GroupHasCurrent'
    BY <1>3, <1>4, <1>5, <1>6 DEF IInv, GroupHasCurrent, Group
  <1>8. GroupSeenCurrent'
    BY <1>3, <1>4, <1>5, <1>6 DEF IInv, GroupSeenCurrent, Group
  <1>9. Untouched' /\ SupersedesPointsBack' /\ PointsBack(pointed)'
    BY <1>1 DEF IInv, Untouched, SupersedesPointsBack, PointsBack
  <1> QED
    BY <1>2, <1>7, <1>8, <1>9 DEF IInv

\* Resolving a group leaves its newest row current and every other group as
\* it was seen.
LEMMA ResolveKeepsIInv ==
    ASSUME IInv, NEW id \in SourceId, ResolveGroup(id)
    PROVE  IInv'
  <1> DEFINE T == Group(id)
  <1>1. PICK n \in Newest(T), o \in Oldest(T) :
          /\ n # o
          /\ SetCurrent(T, n)
          /\ PointBack(FilingOf[n], FilingOf[o])
    BY DEF ResolveGroup
  <1>2. todo' = todo \ {id} /\ UNCHANGED <<saved, identified, current, supersedes, linking>>
    BY DEF ResolveGroup, tableVars
  <1>3. n \in T /\ o \in T /\ FiledRank[FilingOf[o]] <= FiledRank[FilingOf[n]]
    BY <1>1 DEF Newest, Oldest
  <1>4. T \subseteq identified /\ T \subseteq Tx
    BY DEF Group, IInv, TypeOK
  <1>5. pointed' \in [Filing -> Filing \cup {None}] /\ PointsBack(pointed)'
    BY <1>1, <1>3, <1>4, AmendmentAssumption DEF PointBack, IInv, TypeOK, PointsBack
  <1>6. cleared' \subseteq cleared \cup T /\ set' \subseteq set \cup T
    BY <1>1, <1>3 DEF SetCurrent
  <1>7. TypeOK'
    BY <1>2, <1>4, <1>5, <1>6 DEF IInv, TypeOK
  <1>8. Untouched'
    BY <1>2, <1>4, <1>6 DEF IInv, Untouched
  <1>9. SeenCurrent(n)'
    BY <1>1, <1>2, <1>3 DEF SetCurrent, SeenCurrent
  <1>10. \A t \in Tx \ T : SeenCurrent(t)' = SeenCurrent(t)
    BY <1>1, <1>2, <1>3 DEF SetCurrent, SeenCurrent
  <1>11. GroupSeenCurrent'
    <2> SUFFICES ASSUME NEW i \in SourceId, Group(i)' # {}
                 PROVE  \E t \in Group(i)' : SeenCurrent(t)'
      BY DEF GroupSeenCurrent
    <2>1. Group(i)' = Group(i)
      BY <1>2 DEF Group
    <2>2. CASE i = id
      BY <1>3, <1>9, <2>1, <2>2
    <2>3. CASE i # id
      <3>1. PICK t \in Group(i) : SeenCurrent(t)
        BY <2>1 DEF IInv, GroupSeenCurrent
      <3>2. t \in Tx \ T
        BY <2>3, <3>1 DEF Group, IInv, TypeOK
      <3> QED
        BY <1>10, <2>1, <3>1, <3>2
    <2> QED
      BY <2>2, <2>3
  <1>12. GroupHasCurrent' /\ SupersedesPointsBack'
    BY <1>2 DEF IInv, GroupHasCurrent, SupersedesPointsBack, Group
  <1> QED
    BY <1>5, <1>7, <1>8, <1>11, <1>12 DEF IInv

\* A commit turns the linker's view into the table.
LEMMA CommitKeepsIInv == ASSUME IInv, Commit PROVE IInv'
  <1>1. /\ current' = [t \in Tx |-> SeenCurrent(t)]
        /\ supersedes' = [f \in Filing |-> SeenPointer(f)]
        /\ cleared' = {} /\ set' = {} /\ pointed' = NoPointers
        /\ linking' = FALSE /\ todo' = {}
        /\ UNCHANGED <<saved, identified>>
    BY DEF Commit, EndLink
  <1>2. \A t \in Tx : SeenCurrent(t) \in BOOLEAN
    BY DEF SeenCurrent, IInv, TypeOK
  <1>3. supersedes' \in [Filing -> Filing \cup {None}]
    BY <1>1 DEF SeenPointer, IInv, TypeOK
  <1>4. TypeOK'
    BY <1>1, <1>2, <1>3 DEF IInv, TypeOK, NoPointers
  <1>5. \A i \in SourceId : Group(i)' = Group(i) /\ Group(i) \subseteq Tx
    BY <1>1 DEF Group, IInv, TypeOK
  <1>6. \A t \in Tx : current'[t] = SeenCurrent(t) /\ SeenCurrent(t)' = current'[t]
    BY <1>1, <1>2 DEF SeenCurrent
  <1>7. GroupHasCurrent'
    BY <1>5, <1>6 DEF IInv, GroupSeenCurrent, GroupHasCurrent
  <1>8. GroupSeenCurrent'
    BY <1>5, <1>6 DEF IInv, GroupSeenCurrent
  <1>9. Untouched'
    BY <1>1, <1>6 DEF IInv, Untouched, SeenCurrent
  <1>10. SupersedesPointsBack'
    BY <1>1 DEF IInv, SupersedesPointsBack, PointsBack, SeenPointer
  <1>11. PointsBack(pointed)'
    BY <1>1 DEF PointsBack, NoPointers
  <1> QED
    BY <1>4, <1>7, <1>8, <1>9, <1>10, <1>11 DEF IInv

\* A rollback forgets the linker's writes; the table had its current rows.
LEMMA RollBackKeepsIInv == ASSUME IInv, RollBack PROVE IInv'
  <1>1. /\ cleared' = {} /\ set' = {} /\ pointed' = NoPointers
        /\ linking' = FALSE /\ todo' = {}
        /\ UNCHANGED <<saved, identified, current, supersedes>>
    BY DEF RollBack, EndLink, tableVars
  <1>2. TypeOK' /\ Untouched' /\ SupersedesPointsBack' /\ PointsBack(pointed)'
    BY <1>1 DEF IInv, TypeOK, NoPointers, Untouched, SupersedesPointsBack, PointsBack
  <1>3. GroupHasCurrent' /\ GroupSeenCurrent'
    BY <1>1 DEF IInv, GroupHasCurrent, GroupSeenCurrent, Group, SeenCurrent
  <1> QED
    BY <1>2, <1>3 DEF IInv

\* The invariant is inductive: no writer and no linker step breaks it.
LEMMA NextIInv == IInv /\ [Next]_vars => IInv'
  <1> SUFFICES ASSUME IInv, [Next]_vars PROVE IInv'
    OBVIOUS
  <1>1. CASE BeginLink
    BY <1>1 DEF BeginLink, AmendedSourceIds, tableVars, IInv, TypeOK, Untouched,
       GroupHasCurrent, GroupSeenCurrent, SupersedesPointsBack, PointsBack, Group, SeenCurrent
  <1>2. CASE UNCHANGED vars
    BY <1>2 DEF vars, IInv, TypeOK, Untouched, GroupHasCurrent, GroupSeenCurrent,
       SupersedesPointsBack, PointsBack, Group, SeenCurrent
  <1> QED
    BY <1>1, <1>2, JoinKeepsIInv, ResolveKeepsIInv, CommitKeepsIInv, RollBackKeepsIInv DEF Next

\* The inductive invariant holds in every reachable state.
THEOREM Invariance == Spec => []IInv
  BY InitIInv, NextIInv, PTL DEF Spec

\* Every column and the linker's buffer keep their types.
THEOREM TypeCorrect == Spec => []TypeOK
  <1>1. IInv => TypeOK
    BY DEF IInv
  <1> QED
    BY <1>1, Invariance, PTL

\* No amended transaction ever loses its last current version, whatever is
\* saved or given an id while a linker works, also when filing dates tie.
THEOREM NeverAmendedAway == Spec => []GroupHasCurrent
  <1>1. IInv => GroupHasCurrent
    BY DEF IInv
  <1> QED
    BY <1>1, Invariance, PTL

\* A filing only ever supersedes another one that was not filed later.
THEOREM PointersLeadBack == Spec => []SupersedesPointsBack
  <1>1. IInv => SupersedesPointsBack
    BY DEF IInv
  <1> QED
    BY <1>1, Invariance, PTL

-----------------------------------------------------------------------------
(***************************************************************************)
(* A group that is resolved is left alone, where no filing dates tie: of   *)
(* two newest rows a later run may take the other.  A linker's view of a   *)
(* resolved group is the table itself, whatever it wrote for the group     *)
(* while it was smaller: the newest row then is no longer the newest, or   *)
(* nothing current joined.                                                 *)
(***************************************************************************)
\* Versions of one transaction are filed at different times.
NoTies ==
    \A t, u \in Tx : IdOf[t] = IdOf[u] /\ t # u =>
        FiledRank[FilingOf[t]] # FiledRank[FilingOf[u]]

ResolvedIsSeen ==
    \A id \in SourceId : Resolved(id) =>
        \A t \in Group(id) : SeenCurrent(t) = current[t]

\* The empty table has no groups.
LEMMA InitResolvedIsSeen == Init => ResolvedIsSeen
  BY DEF Init, ResolvedIsSeen, Group

\* A row joins as a current one, so the only group it leaves resolved is one
\* that it is alone in.
LEMMA JoinKeepsResolvedIsSeen ==
    ASSUME IInv, ResolvedIsSeen, NEW t \in Tx, SaveRow(t) \/ BackfillId(t)
    PROVE  ResolvedIsSeen'
  <1>1. /\ identified' \in {identified, identified \cup {t}}
        /\ UNCHANGED <<current, cleared, set>>
    BY DEF SaveRow, BackfillId, linkVars
  <1>2. \A u \in Tx : SeenCurrent(u)' = SeenCurrent(u) /\ current'[u] = current[u]
    BY <1>1 DEF SeenCurrent
  <1> SUFFICES ASSUME NEW id \in SourceId, Resolved(id)', NEW u \in Group(id)'
               PROVE  SeenCurrent(u)' = current'[u]
    BY DEF ResolvedIsSeen
  <1>3. Group(id)' \subseteq Tx /\ Group(id) \subseteq Tx
    BY <1>1 DEF Group, IInv, TypeOK
  <1>4. CASE Group(id)' = Group(id)
    <2>1. Resolved(id)
      BY <1>1, <1>4 DEF Resolved, Newest
    <2> QED
      BY <1>2, <1>3, <1>4, <2>1 DEF ResolvedIsSeen
  <1>5. CASE Group(id)' # Group(id)
    <2>1. t \notin identified /\ Group(id)' = Group(id) \cup {t}
      BY <1>1, <1>5 DEF Group
    <2>2. current[t] /\ t \notin cleared
      BY <2>1 DEF IInv, Untouched
    <2>3. PICK n : {v \in Group(id)' : current'[v]} = {n}
      BY DEF Resolved
    <2>4. n = t
      BY <1>2, <2>1, <2>2, <2>3
    <2>5. \A v \in Group(id) : ~current[v]
      BY <1>2, <1>3, <2>1, <2>3, <2>4 DEF Group
    <2>6. Group(id) = {}
      BY <2>5 DEF IInv, GroupHasCurrent
    <2>7. u = t
      BY <2>1, <2>6
    <2> QED
      BY <1>2, <2>2, <2>7 DEF SeenCurrent, IInv, TypeOK
  <1> QED
    BY <1>4, <1>5

\* The row that resolving picks for a resolved group is the one it has.
LEMMA ResolveKeepsResolvedIsSeen ==
    ASSUME NoTies, IInv, ResolvedIsSeen, NEW id \in SourceId, ResolveGroup(id)
    PROVE  ResolvedIsSeen'
  <1> DEFINE T == Group(id)
  <1>1. UNCHANGED <<saved, identified, current, supersedes>>
    BY DEF ResolveGroup, tableVars
  <1>2. PICK n \in Newest(T) : SetCurrent(T, n)
    BY DEF ResolveGroup
  <1>3. n \in T /\ T \subseteq Tx
    BY <1>2 DEF Newest, Group, IInv, TypeOK
  <1> SUFFICES ASSUME NEW i \in SourceId, Resolved(i), NEW t \in Group(i)
               PROVE  SeenCurrent(t)' = current[t]
    BY <1>1 DEF ResolvedIsSeen, Resolved, Newest, Group
  <1>4. SeenCurrent(t) = current[t]
    BY DEF ResolvedIsSeen
  <1>5. CASE i # id
    <2>1. t \notin T
      BY <1>5 DEF Group
    <2> QED
      BY <1>1, <1>2, <1>3, <1>4, <2>1 DEF SetCurrent, SeenCurrent
  <1>6. CASE i = id
    <2>1. PICK m \in Newest(T) : {u \in T : current[u]} = {m}
      BY <1>6 DEF Resolved
    <2>2. m = n
      <3>1. m \in T
        BY DEF Newest
      <3>2. m \in Tx /\ n \in Tx /\ IdOf[m] = IdOf[n]
        BY <1>3, <3>1 DEF Group
      <3>3. /\ FiledRank[FilingOf[m]] <= FiledRank[FilingOf[n]]
            /\ FiledRank[FilingOf[n]] <= FiledRank[FilingOf[m]]
        BY <1>3, <3>1, <1>2 DEF Newest
      <3>4. FiledRank[FilingOf[m]] \in Nat /\ FiledRank[FilingOf[n]] \in Nat
        BY <3>2, AmendmentAssumption
      <3> QED
        BY <3>2, <3>3, <3>4 DEF NoTies
    <2>3. CASE t = n
      <3>1. SeenCurrent(t) /\ current[t]
        BY <1>4, <2>1, <2>2, <2>3
      <3> QED
        BY <1>1, <1>2, <2>3, <3>1 DEF SetCurrent, SeenCurrent
    <2>4. CASE t # n
      <3>1. ~current[t]
        BY <1>6, <2>1, <2>2, <2>4
      <3>2. t \notin set'
        BY <1>2, <1>4, <1>6, <2>4, <3>1 DEF SetCurrent, SeenCurrent
      <3> QED
        BY <1>1, <1>4, <3>1, <3>2 DEF SeenCurrent
    <2> QED
      BY <2>3, <2>4
  <1> QED
    BY <1>5, <1>6

\* A commit or a rollback leaves the next linker nothing of its own to see.
LEMMA EndKeepsResolvedIsSeen ==
    ASSUME IInv, Commit \/ RollBack PROVE ResolvedIsSeen'
  <1>1. cleared' = {} /\ set' = {} /\ current' \in [Tx -> BOOLEAN]
    BY DEF Commit, RollBack, EndLink, tableVars, SeenCurrent, IInv, TypeOK
  <1>2. \A id \in SourceId : Group(id)' \subseteq Tx
    BY DEF Commit, RollBack, tableVars, Group, IInv, TypeOK
  <1> QED
    BY <1>1, <1>2 DEF ResolvedIsSeen, SeenCurrent

\* No step comes between the table's resolved groups and the linker's view.
LEMMA NextResolvedIsSeen ==
    ASSUME NoTies PROVE IInv /\ ResolvedIsSeen /\ [Next]_vars => ResolvedIsSeen'
  <1> SUFFICES ASSUME IInv, ResolvedIsSeen, [Next]_vars PROVE ResolvedIsSeen'
    OBVIOUS
  <1>1. CASE BeginLink \/ UNCHANGED vars
    BY <1>1 DEF BeginLink, tableVars, vars, ResolvedIsSeen, Resolved, Newest, Group, SeenCurrent
  <1> QED
    BY <1>1, JoinKeepsResolvedIsSeen, ResolveKeepsResolvedIsSeen, EndKeepsResolvedIsSeen DEF Next

\* Only a commit writes is_current, and what it writes is what it saw.
LEMMA StepLeavesResolved ==
    ASSUME IInv, ResolvedIsSeen, [Next]_vars, NEW id \in SourceId, Resolved(id),
           NEW t \in Group(id)
    PROVE  current'[t] = current[t]
  <1>1. CASE Commit
    BY <1>1 DEF Commit, ResolvedIsSeen, Group, IInv, TypeOK
  <1>2. CASE ~Commit
    BY <1>2 DEF Next, vars, SaveRow, BackfillId, BeginLink, RollBack, ResolveGroup, tableVars
  <1> QED
    BY <1>1, <1>2

\* Where no filing dates tie, a linker never rewrites a group that is already
\* resolved, however old the view is that it began with: amendments.py's
\* "cheap no-op".
THEOREM SettledGroupsStay == ASSUME NoTies PROVE Spec => ResolvedIsLeftAlone
  <1>1. Spec => []ResolvedIsSeen
    BY InitResolvedIsSeen, NextResolvedIsSeen, Invariance, PTL DEF Spec
  <1>2. IInv /\ ResolvedIsSeen /\ [Next]_vars =>
          [\A id \in SourceId : Resolved(id) /\ Group(id)' = Group(id) =>
              \A t \in Group(id) : current'[t] = current[t]]_vars
    BY StepLeavesResolved
  <1> QED
    BY <1>1, <1>2, Invariance, PTL DEF Spec, ResolvedIsLeftAlone

=============================================================================
