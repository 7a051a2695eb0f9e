------------------------ MODULE PoliticianLinksProofs ------------------------
(***************************************************************************)
(* Proofs about PoliticianLinks, for any number of linkers and filings, any*)
(* scores and any versions of the source.                                  *)
(*                                                                         *)
(* A link is written by a Commit that looks at nothing, so what makes it   *)
(* right must be true of the linker's buffer: the invariant says that a    *)
(* buffered link is an override's, a clear match of some version, or was   *)
(* made on a table in parts, and that this stays so while overrides come   *)
(* in and terms go.  While the sync fills the table, what is there and what  *)
(* is still to come make up one version.                                   *)
(***************************************************************************)
EXTENDS PoliticianLinks, FiniteSetTheorems, TLAPS

\* What may stand behind a link.
Supported(f, p) ==
    \/ f \in overridden /\ p = Override[f]
    \/ \E v \in Version : ClearMatch(f, Candidates(f, v), p)

BuffersAreSupported ==
    \A l \in Linker :
        /\ overrides[l] \subseteq overridden
        /\ \A f \in Filing : newLinks[l][f] # NoOne =>
              Supported(f, newLinks[l][f]) \/ f \in torn[l]

TermsFillUp == sync = "inserting" => terms \cup unsent \in Version

IInv ==
    /\ TypeOK
    /\ TermsFillUp
    /\ TermsAreOneVersion
    /\ BuffersAreSupported
    /\ LinkIsNoGuess

\* The candidates are politicians, whatever rows are looked at.
LEMMA CandidatesArePoliticians ==
    ASSUME NEW f \in Filing, NEW T \in SUBSET Term
    PROVE  Candidates(f, T) \subseteq Politician
  BY LinkAssumption DEF Candidates

\* What best_match accepts is what the README calls a clear match.
LEMMA MatchIsClear ==
    ASSUME NEW f \in Filing, NEW C \in SUBSET Politician, NEW p, Matches(f, C, p)
    PROVE  ClearMatch(f, C, p)
  <1>1. p \in C /\ \A q \in C : Score[f][q] <= Score[f][p]
    BY DEF Matches, Top
  <1>2. \A q \in C : Score[f][q] \in Int
    <2>1. Score[f] \in [Politician -> 0 .. 100]
      BY LinkAssumption
    <2>2. \A q \in C : Score[f][q] \in 0 .. 100
      BY <2>1
    <2> QED
      BY <2>2
  <1>3. Score[f][p] >= 80
    BY DEF Matches, ReviewThreshold
  <1>4. CASE Score[f][p] >= 92
    BY <1>1, <1>4 DEF ClearMatch
  <1>5. CASE \A q \in C \ {p} : Score[f][p] - Score[f][q] >= 5
    BY <1>1, <1>2, <1>3, <1>5 DEF ClearMatch
  <1> QED
    BY <1>4, <1>5 DEF Matches, HighConfidence, TieMargin

\* The first linker finds no buffers, and a table of one version.
LEMMA InitIInv == Init => IInv
  <1> SUFFICES ASSUME Init PROVE IInv
    OBVIOUS
  <1>1. TypeOK
    BY LinkAssumption DEF Init, TypeOK, NoLinks
  <1>2. TermsFillUp /\ TermsAreOneVersion /\ BuffersAreSupported /\ LinkIsNoGuess
    BY DEF Init, TermsFillUp, TermsAreOneVersion, Whole, BuffersAreSupported, LinkIsNoGuess, NoLinks
  <1> QED
    BY <1>1, <1>2 DEF IInv

\* Filings and overrides only add what a link may rest on.
LEMMA SourceKeepsIInv ==
    ASSUME IInv, NEW g \in Filing, Index(g) \/ AddOverride(g)
    PROVE  IInv'
  <1>1. /\ known \subseteq known' /\ known' \subseteq Filing
        /\ overridden \subseteq overridden' /\ overridden' \subseteq Filing
        /\ UNCHANGED <<link, issues, guessed, terms, sync, unsent, phase, overrides,
                       flagged, todo, newLinks, newFlags, torn>>
    BY DEF Index, AddOverride, IInv, TypeOK, syncVars, linkerVars
  <1>2. TypeOK'
    BY <1>1 DEF IInv, TypeOK
  <1>3. TermsFillUp' /\ TermsAreOneVersion'
    BY <1>1 DEF IInv, TermsFillUp, TermsAreOneVersion, Whole
  <1>4. BuffersAreSupported'
    BY <1>1 DEF IInv, BuffersAreSupported, Supported
  <1>5. LinkIsNoGuess'
    BY <1>1 DEF IInv, LinkIsNoGuess
  <1> QED
    BY <1>2, <1>3, <1>4, <1>5 DEF IInv

\* The sync touches no link; it ends with all rows of one version.
LEMMA SyncKeepsIInv ==
    ASSUME IInv, SyncStep
    PROVE  IInv'
  <1>1. UNCHANGED <<tableVars, linkerVars>>
    BY DEF SyncStep, DeleteTerms, BeginReplace, InsertChunk, EndSync, SyncDies
  <1>2. BuffersAreSupported' /\ LinkIsNoGuess'
    BY <1>1 DEF IInv, BuffersAreSupported, Supported, LinkIsNoGuess, tableVars, linkerVars
  <1>3. CASE \E v \in Version : DeleteTerms(v)
    <2>1. PICK v \in Version : terms' = {} /\ unsent' = v /\ sync' = "inserting"
      BY <1>3 DEF DeleteTerms, BeginReplace
    <2>2. TypeOK'
      BY <1>1, <2>1, LinkAssumption DEF IInv, TypeOK, tableVars, linkerVars
    <2>3. TermsFillUp' /\ TermsAreOneVersion'
      BY <2>1 DEF TermsFillUp, TermsAreOneVersion
    <2> QED
      BY <1>2, <2>2, <2>3 DEF IInv
  <1>4. CASE InsertChunk
    <2>1. PICK chunk \in SUBSET unsent :
            terms' = terms \cup chunk /\ unsent' = unsent \ chunk
      BY <1>4 DEF InsertChunk
    <2>2. sync = "inserting" /\ sync' = sync
      BY <1>4 DEF InsertChunk
    <2>3. terms' \cup unsent' = terms \cup unsent
      BY <2>1
    <2>4. TypeOK'
      BY <1>1, <2>1, <2>2 DEF IInv, TypeOK, tableVars, linkerVars
    <2>5. TermsFillUp' /\ TermsAreOneVersion'
      BY <2>2, <2>3 DEF IInv, TermsFillUp, TermsAreOneVersion
    <2> QED
      BY <1>2, <2>4, <2>5 DEF IInv
  <1>5. CASE EndSync
    <2>1. terms \in Version
      <3>1. terms \cup unsent \in Version /\ unsent = {}
        BY <1>5 DEF EndSync, IInv, TermsFillUp
      <3> QED
        BY <3>1
    <2>2. TypeOK' /\ TermsFillUp' /\ TermsAreOneVersion'
      BY <1>1, <1>5, <2>1 DEF EndSync, IInv, TypeOK, TermsFillUp, TermsAreOneVersion, Whole,
         tableVars, linkerVars
    <2> QED
      BY <1>2, <2>2 DEF IInv
  <1>6. CASE SyncDies
    <2>1. TypeOK' /\ TermsFillUp' /\ TermsAreOneVersion'
      BY <1>1, <1>6 DEF SyncDies, IInv, TypeOK, TermsFillUp, TermsAreOneVersion,
         tableVars, linkerVars
    <2> QED
      BY <1>2, <2>1 DEF IInv
  <1> QED
    BY <1>3, <1>4, <1>5, <1>6 DEF SyncStep

\* The steps of a linker before its commit leave the tables alone.
LEMMA BeginKeepsIInv ==
    ASSUME IInv, NEW l \in Linker, BeginLink(l) \/ SelectPending(l)
    PROVE  IInv'
  <1>1. UNCHANGED <<tableVars, syncVars, newLinks, newFlags, torn>>
    BY DEF BeginLink, SelectPending
  <1>2. overrides' = [overrides EXCEPT ![l] = overridden] \/ overrides' = overrides
    BY DEF BeginLink, SelectPending
  <1>3. TypeOK'
    <2>1. CASE BeginLink(l)
      BY <1>1, <2>1 DEF BeginLink, IInv, TypeOK, tableVars, syncVars
    <2>2. CASE SelectPending(l)
      <3>1. PICK batch \in SUBSET Pending : todo' = [todo EXCEPT ![l] = batch]
        BY <2>2 DEF SelectPending
      <3>2. batch \subseteq known
        BY DEF Pending
      <3>3. phase' = [phase EXCEPT ![l] = "batch"] /\ UNCHANGED <<overrides, flagged>>
        BY <2>2 DEF SelectPending
      <3> QED
        BY <1>1, <3>1, <3>2, <3>3 DEF IInv, TypeOK, tableVars, syncVars
    <2> QED
      BY <2>1, <2>2
  <1>4. TermsFillUp' /\ TermsAreOneVersion' /\ LinkIsNoGuess'
    BY <1>1 DEF IInv, TermsFillUp, TermsAreOneVersion, Whole, LinkIsNoGuess,
       tableVars, syncVars
  <1>5. BuffersAreSupported'
    BY <1>1, <1>2 DEF IInv, TypeOK, BuffersAreSupported, Supported, tableVars
  <1> QED
    BY <1>3, <1>4, <1>5 DEF IInv

\* One filing of the batch: what goes into the buffer is supported now.
LEMMA LookKeepsIInv ==
    ASSUME IInv, NEW l \in Linker, NEW g \in Filing,
           LinkByOverride(l, g) \/ LinkByName(l, g) \/ Flag(l, g)
    PROVE  IInv'
  <1>1. /\ todo' = [todo EXCEPT ![l] = @ \ {g}]
        /\ UNCHANGED <<tableVars, syncVars, phase, overrides, flagged>>
    BY DEF LinkByOverride, LinkByName, Flag, LookAt
  <1>2. TermsFillUp' /\ TermsAreOneVersion' /\ LinkIsNoGuess'
    BY <1>1 DEF IInv, TermsFillUp, TermsAreOneVersion, Whole, LinkIsNoGuess,
       tableVars, syncVars
  <1>3. CASE LinkByOverride(l, g)
    <2>1. /\ g \in overridden
          /\ newLinks' = [newLinks EXCEPT ![l] = [@ EXCEPT ![g] = Override[g]]]
          /\ UNCHANGED <<newFlags, torn>>
      BY <1>3 DEF LinkByOverride, IInv, BuffersAreSupported
    <2>2. TypeOK'
      BY <1>1, <2>1, LinkAssumption DEF IInv, TypeOK, tableVars, syncVars
    <2>3. BuffersAreSupported'
      BY <1>1, <2>1 DEF IInv, TypeOK, BuffersAreSupported, Supported, tableVars
    <2> QED
      BY <1>2, <2>2, <2>3 DEF IInv
  <1>4. CASE LinkByName(l, g)
    <2>1. PICK p \in Candidates(g, terms) :
            /\ Matches(g, Candidates(g, terms), p)
            /\ newLinks' = [newLinks EXCEPT ![l] = [@ EXCEPT ![g] = p]]
      BY <1>4 DEF LinkByName
    <2>2. /\ torn' = [torn EXCEPT ![l] = IF Whole THEN @ ELSE @ \cup {g}]
          /\ UNCHANGED newFlags
      BY <1>4 DEF LinkByName
    <2>3. p \in Politician
      BY <2>1, CandidatesArePoliticians DEF IInv, TypeOK
    <2>4. TypeOK'
      BY <1>1, <2>1, <2>2, <2>3 DEF IInv, TypeOK, tableVars, syncVars
    <2>5. Supported(g, p) \/ g \in torn'[l]
      <3>1. ClearMatch(g, Candidates(g, terms), p)
        BY <2>1, MatchIsClear, CandidatesArePoliticians DEF IInv, TypeOK
      <3> QED
        BY <2>2, <3>1 DEF IInv, TypeOK, Supported, Whole
    <2>6. BuffersAreSupported'
      <3>1. UNCHANGED <<overridden, overrides>>
        BY <1>1 DEF tableVars
      <3>2. \A k \in Linker : torn[k] \subseteq torn'[k]
        BY <2>2 DEF IInv, TypeOK
      <3>3. \A f \in Filing : \A q : Supported(f, q)' <=> Supported(f, q)
        BY <3>1 DEF Supported
      <3>4. ASSUME NEW k \in Linker, NEW f \in Filing, newLinks'[k][f] # NoOne
            PROVE  Supported(f, newLinks'[k][f]) \/ f \in torn'[k]
        <4>1. CASE k = l /\ f = g
          BY <2>1, <2>5, <4>1 DEF IInv, TypeOK
        <4>2. CASE k # l \/ f # g
          <5>1. newLinks'[k][f] = newLinks[k][f]
            BY <2>1, <4>2 DEF IInv, TypeOK
          <5> QED
            BY <3>2, <3>4, <5>1 DEF IInv, BuffersAreSupported
        <4> QED
          BY <4>1, <4>2
      <3> QED
        BY <3>1, <3>3, <3>4 DEF IInv, BuffersAreSupported
    <2> QED
      BY <1>2, <2>4, <2>6 DEF IInv
  <1>5. CASE Flag(l, g)
    <2>1. /\ UNCHANGED <<newLinks, torn>>
          /\ newFlags' = [newFlags EXCEPT ![l] = IF g \in flagged[l] THEN @ ELSE @ \cup {g}]
      BY <1>5 DEF Flag
    <2>2. TypeOK'
      BY <1>1, <2>1 DEF IInv, TypeOK, tableVars, syncVars
    <2>3. BuffersAreSupported'
      BY <1>1, <2>1 DEF IInv, BuffersAreSupported, Supported, tableVars
    <2> QED
      BY <1>2, <2>2, <2>3 DEF IInv
  <1> QED
    BY <1>3, <1>4, <1>5

\* The end of a run, either way, leaves an empty buffer.
LEMMA CommitKeepsIInv ==
    ASSUME IInv, NEW l \in Linker, Commit(l) \/ RollBack(l)
    PROVE  IInv'
  <1>1. /\ phase' = [phase EXCEPT ![l] = "idle"]
        /\ overrides' = [overrides EXCEPT ![l] = {}]
        /\ flagged' = [flagged EXCEPT ![l] = {}]
        /\ todo' = [todo EXCEPT ![l] = {}]
        /\ newLinks' = [newLinks EXCEPT ![l] = NoLinks]
        /\ newFlags' = [newFlags EXCEPT ![l] = {}]
        /\ torn' = [torn EXCEPT ![l] = {}]
        /\ UNCHANGED <<known, overridden, syncVars>>
    BY DEF Commit, RollBack, EndLink, tableVars
  <1>2. TermsFillUp' /\ TermsAreOneVersion'
    BY <1>1 DEF IInv, TermsFillUp, TermsAreOneVersion, Whole, syncVars
  <1>3. BuffersAreSupported'
    BY <1>1 DEF IInv, TypeOK, BuffersAreSupported, Supported, NoLinks
  <1>4. CASE RollBack(l)
    <2>1. UNCHANGED <<link, issues, guessed>>
      BY <1>4 DEF RollBack, tableVars
    <2>2. TypeOK' /\ LinkIsNoGuess'
      BY <1>1, <2>1 DEF IInv, TypeOK, LinkIsNoGuess, NoLinks, syncVars
    <2> QED
      BY <1>2, <1>3, <2>2 DEF IInv
  <1>5. CASE Commit(l)
    <2> DEFINE linked == {f \in Filing : newLinks[l][f] # NoOne}
    <2>1. /\ link' = [f \in Filing |-> IF f \in linked THEN newLinks[l][f] ELSE link[f]]
          /\ guessed' = (guessed \ linked) \cup torn[l]
          /\ issues' = [f \in Filing |-> issues[f] + IF f \in newFlags[l] THEN 1 ELSE 0]
      BY <1>5 DEF Commit
    <2>2. TypeOK'
      BY <1>1, <2>1 DEF IInv, TypeOK, NoLinks, syncVars
    <2>3. LinkIsNoGuess'
      <3>1. overridden' = overridden
        BY <1>1
      <3> SUFFICES ASSUME NEW f \in Filing, link'[f] # NoOne
                   PROVE  Supported(f, link'[f]) \/ f \in guessed'
        BY <3>1 DEF LinkIsNoGuess, Supported
      <3>2. CASE f \in linked
        <4>1. link'[f] = newLinks[l][f]
          BY <2>1, <3>2
        <4>2. Supported(f, newLinks[l][f]) \/ f \in torn[l]
          BY <3>2 DEF IInv, BuffersAreSupported
        <4> QED
          BY <2>1, <4>1, <4>2
      <3>3. CASE f \notin linked
        <4>1. link'[f] = link[f]
          BY <2>1, <3>3
        <4>2. Supported(f, link[f]) \/ f \in guessed
          BY <4>1 DEF IInv, LinkIsNoGuess, Supported
        <4> QED
          BY <2>1, <3>3, <4>1, <4>2
      <3> QED
        BY <3>2, <3>3
    <2> QED
      BY <1>2, <1>3, <2>2, <2>3 DEF IInv
  <1> QED
    BY <1>4, <1>5

\* The invariant is inductive.
LEMMA NextIInv == IInv /\ [Next]_vars => IInv'
  <1> SUFFICES ASSUME IInv, [Next]_vars PROVE IInv'
    OBVIOUS
  <1>1. CASE \E f \in Filing : Index(f) \/ AddOverride(f)
    BY <1>1, SourceKeepsIInv
  <1>2. CASE SyncStep
    BY <1>2, SyncKeepsIInv
  <1>3. ASSUME NEW l \in Linker, LinkStep(l) PROVE IInv'
    BY <1>3, BeginKeepsIInv, LookKeepsIInv, CommitKeepsIInv DEF LinkStep
  <1>4. CASE UNCHANGED vars
    BY <1>4 DEF vars, IInv, TypeOK, TermsFillUp, TermsAreOneVersion, Whole,
       BuffersAreSupported, Supported, LinkIsNoGuess
  <1> QED
    BY <1>1, <1>2, <1>3, <1>4 DEF Next

\* The invariant holds in every reachable state.
THEOREM Invariance == Spec => []IInv
  BY InitIInv, NextIInv, PTL DEF Spec

\* The tables, the sync and every linker's buffers keep their types.
THEOREM TypeCorrect == Spec => []TypeOK
  <1>1. IInv => TypeOK
    BY DEF IInv
  <1> QED
    BY <1>1, Invariance, PTL

\* Outside of a term replacement no filing is given to a politician by a guess
\* (best_match's thresholds, applied to terms read one filing at a time).
THEOREM NoGuess == Spec => []LinkIsNoGuess
  <1>1. IInv => LinkIsNoGuess
    BY DEF IInv
  <1> QED
    BY <1>1, Invariance, PTL

\* A sync that comes to its end leaves the terms of one version, also after
\* syncs that did not (_replace_terms).
THEOREM OneVersion == Spec => []TermsAreOneVersion
  <1>1. IInv => TermsAreOneVersion
    BY DEF IInv
  <1> QED
    BY <1>1, Invariance, PTL

-----------------------------------------------------------------------------
(***************************************************************************)
(* How often an unmatched filing is flagged.                               *)
(***************************************************************************)

\* The runs that know of no issue of f, and may add one.
MayFlag(f) == {l \in Linker : phase[l] # "idle" /\ f \notin flagged[l]}

FlagInv ==
    /\ \A l \in Linker : phase[l] = "idle" => newFlags[l] = {}
    /\ \A l \in Linker : newFlags[l] \cap flagged[l] = {}
    /\ \A f \in Filing : issues[f] + Cardinality(MayFlag(f)) <= Cardinality(Linker)

\* Sets of linkers have sizes, and no more members than there are linkers.
LEMMA LinkersCounted ==
    ASSUME NEW S \in SUBSET Linker
    PROVE  /\ IsFiniteSet(S) /\ Cardinality(S) \in Nat
           /\ Cardinality(Linker) \in Nat /\ Cardinality(S) <= Cardinality(Linker)
  BY FS_Subset, FS_CardinalityType, LinkAssumption

\* No linker has begun.
LEMMA InitFlagInv == Init => FlagInv
  <1> SUFFICES ASSUME Init PROVE FlagInv
    OBVIOUS
  <1>1. ASSUME NEW f \in Filing
        PROVE  issues[f] + Cardinality(MayFlag(f)) <= Cardinality(Linker)
    <2>1. issues[f] = 0 /\ MayFlag(f) \in SUBSET Linker
      BY DEF Init, MayFlag
    <2> QED
      BY <2>1, LinkersCounted
  <1> QED
    BY <1>1 DEF Init, FlagInv

\* Where no issue is added and no run comes to be ignorant of f's, the count
\* for f stands.
LEMMA FlagsStayCounted ==
    ASSUME TypeOK, FlagInv, NEW f \in Filing,
           issues'[f] = issues[f], MayFlag(f)' \subseteq MayFlag(f)
    PROVE  issues'[f] + Cardinality(MayFlag(f)') <= Cardinality(Linker)
  <1>1. MayFlag(f) \in SUBSET Linker /\ MayFlag(f)' \in SUBSET Linker
    BY DEF MayFlag
  <1>2. Cardinality(MayFlag(f)') <= Cardinality(MayFlag(f))
    BY <1>1, LinkersCounted, FS_Subset
  <1>3. issues[f] \in Nat /\ issues[f] + Cardinality(MayFlag(f)) <= Cardinality(Linker)
    BY DEF TypeOK, FlagInv
  <1> QED
    BY <1>1, <1>2, <1>3, LinkersCounted

\* A run that begins knows of every issue that is open.
LEMMA BeginKeepsFlagInv ==
    ASSUME TypeOK, FlagInv, NEW l \in Linker, BeginLink(l)
    PROVE  FlagInv'
  <1>1. /\ phase[l] = "idle" /\ phase'[l] = "begun"
        /\ flagged'[l] = {f \in Filing : issues[f] > 0}
        /\ \A k \in Linker \ {l} : phase'[k] = phase[k] /\ flagged'[k] = flagged[k]
        /\ UNCHANGED <<issues, newFlags>>
    BY DEF BeginLink, TypeOK, tableVars
  <1>2. ASSUME NEW f \in Filing
        PROVE  issues'[f] + Cardinality(MayFlag(f)') <= Cardinality(Linker)
    <2>1. issues[f] \in Nat
      BY DEF TypeOK
    <2>2. CASE issues[f] = 0
      <3>1. MayFlag(f)' \in SUBSET Linker
        BY DEF MayFlag
      <3> QED
        BY <1>1, <2>2, <3>1, LinkersCounted
    <2>3. CASE issues[f] > 0
      <3>1. MayFlag(f)' \subseteq MayFlag(f)
        BY <1>1, <2>3 DEF MayFlag
      <3> QED
        BY <1>1, <3>1, FlagsStayCounted
    <2> QED
      BY <2>1, <2>2, <2>3
  <1>3. /\ \A k \in Linker : phase'[k] = "idle" => newFlags'[k] = {}
        /\ \A k \in Linker : newFlags'[k] \cap flagged'[k] = {}
    BY <1>1 DEF FlagInv
  <1> QED
    BY <1>2, <1>3 DEF FlagInv

\* A run that commits an issue is one less to add one.
LEMMA CommitKeepsFlagInv ==
    ASSUME TypeOK, FlagInv, NEW l \in Linker, Commit(l)
    PROVE  FlagInv'
  <1>1. /\ phase'[l] = "idle" /\ flagged'[l] = {} /\ newFlags'[l] = {}
        /\ \A k \in Linker \ {l} : /\ phase'[k] = phase[k] /\ flagged'[k] = flagged[k]
                                   /\ newFlags'[k] = newFlags[k]
        /\ \A f \in Filing : issues'[f] = issues[f] + IF f \in newFlags[l] THEN 1 ELSE 0
    BY DEF Commit, EndLink, TypeOK
  <1>2. phase[l] = "batch"
    BY DEF Commit
  <1>3. ASSUME NEW f \in Filing
        PROVE  issues'[f] + Cardinality(MayFlag(f)') <= Cardinality(Linker)
    <2>1. MayFlag(f)' = MayFlag(f) \ {l}
      BY <1>1 DEF MayFlag
    <2>2. CASE f \notin newFlags[l]
      <3>1. issues'[f] = issues[f]
        BY <1>1, <2>2 DEF TypeOK
      <3> QED
        BY <2>1, <3>1, FlagsStayCounted
    <2>3. CASE f \in newFlags[l]
      <3>1. l \in MayFlag(f) /\ MayFlag(f) \in SUBSET Linker
        BY <1>2, <2>3 DEF FlagInv, MayFlag
      <3>2. Cardinality(MayFlag(f)') = Cardinality(MayFlag(f)) - 1
        BY <2>1, <3>1, LinkersCounted, FS_RemoveElement
      <3>3. issues[f] \in Nat /\ issues[f] + Cardinality(MayFlag(f)) <= Cardinality(Linker)
        BY DEF TypeOK, FlagInv
      <3> QED
        BY <1>1, <2>3, <3>1, <3>2, <3>3, LinkersCounted
    <2> QED
      BY <2>2, <2>3
  <1>4. /\ \A k \in Linker : phase'[k] = "idle" => newFlags'[k] = {}
        /\ \A k \in Linker : newFlags'[k] \cap flagged'[k] = {}
    BY <1>1 DEF FlagInv
  <1> QED
    BY <1>3, <1>4 DEF FlagInv

\* Every other step leaves the issues and what the runs know of them.
LEMMA NextFlagInv == TypeOK /\ FlagInv /\ [Next]_vars => FlagInv'
  <1> SUFFICES ASSUME TypeOK, FlagInv, [Next]_vars PROVE FlagInv'
    OBVIOUS
  <1>1. ASSUME UNCHANGED <<issues, phase, flagged, newFlags>>
        PROVE  FlagInv'
    <2>1. \A f \in Filing : issues'[f] + Cardinality(MayFlag(f)') <= Cardinality(Linker)
      BY <1>1, FlagsStayCounted DEF MayFlag
    <2> QED
      BY <1>1, <2>1 DEF FlagInv
  <1>2. CASE \E f \in Filing : Index(f) \/ AddOverride(f)
    BY <1>1, <1>2 DEF Index, AddOverride, linkerVars
  <1>3. CASE SyncStep
    BY <1>1, <1>3 DEF SyncStep, DeleteTerms, BeginReplace, InsertChunk, EndSync, SyncDies,
       tableVars, linkerVars
  <1>4. ASSUME NEW l \in Linker, SelectPending(l) PROVE FlagInv'
    <2>1. /\ phase[l] = "begun" /\ phase' = [phase EXCEPT ![l] = "batch"]
          /\ UNCHANGED <<issues, flagged, newFlags>>
      BY <1>4 DEF SelectPending, tableVars
    <2>2. \A k \in Linker : (phase'[k] = "idle") <=> (phase[k] = "idle")
      BY <2>1 DEF TypeOK
    <2>3. \A f \in Filing : MayFlag(f)' = MayFlag(f)
      BY <2>1, <2>2 DEF MayFlag
    <2>4. \A f \in Filing : issues'[f] + Cardinality(MayFlag(f)') <= Cardinality(Linker)
      BY <2>1, <2>3, FlagsStayCounted
    <2> QED
      BY <2>1, <2>2, <2>4 DEF FlagInv
  <1>5. ASSUME NEW l \in Linker, NEW g \in Filing, LinkByOverride(l, g) \/ LinkByName(l, g)
        PROVE  FlagInv'
    BY <1>1, <1>5 DEF LinkByOverride, LinkByName, LookAt, tableVars
  <1>6. ASSUME NEW l \in Linker, NEW g \in Filing, Flag(l, g) PROVE FlagInv'
    <2>1. /\ phase[l] = "batch"
          /\ newFlags' = [newFlags EXCEPT ![l] = IF g \in flagged[l] THEN @ ELSE @ \cup {g}]
          /\ UNCHANGED <<issues, phase, flagged>>
      BY <1>6 DEF Flag, LookAt, tableVars
    <2>2. /\ \A k \in Linker : phase'[k] = "idle" => newFlags'[k] = {}
          /\ \A k \in Linker : newFlags'[k] \cap flagged'[k] = {}
      BY <2>1 DEF FlagInv, TypeOK
    <2>3. \A f \in Filing : issues'[f] + Cardinality(MayFlag(f)') <= Cardinality(Linker)
      BY <2>1, FlagsStayCounted DEF MayFlag
    <2> QED
      BY <2>2, <2>3 DEF FlagInv
  <1>7. ASSUME NEW l \in Linker, RollBack(l) PROVE FlagInv'
    <2>1. /\ phase'[l] = "idle" /\ flagged'[l] = {} /\ newFlags'[l] = {}
          /\ \A k \in Linker \ {l} : /\ phase'[k] = phase[k] /\ flagged'[k] = flagged[k]
                                     /\ newFlags'[k] = newFlags[k]
          /\ issues' = issues
      BY <1>7 DEF RollBack, EndLink, TypeOK, tableVars
    <2>2. \A f \in Filing : MayFlag(f)' \subseteq MayFlag(f)
      BY <2>1 DEF MayFlag
    <2>3. \A f \in Filing : issues'[f] + Cardinality(MayFlag(f)') <= Cardinality(Linker)
      BY <2>1, <2>2, FlagsStayCounted
    <2> QED
      BY <2>1, <2>3 DEF FlagInv
  <1>8. CASE UNCHANGED vars
    BY <1>1, <1>8 DEF vars
  <1> QED
    BY <1>2, <1>3, <1>4, <1>5, <1>6, <1>7, <1>8, BeginKeepsFlagInv, CommitKeepsFlagInv
    DEF Next, LinkStep

\* _already_flagged_filing_ids is read once, before the batch; linkers that
\* overlap cannot see each other's issues, and yet a filing is flagged at most
\* once by each of them, however often they all run.
THEOREM FlagsBounded == Spec => []FlagsAreBounded
  <1>1. Init => TypeOK /\ FlagInv
    BY InitIInv, InitFlagInv DEF IInv
  <1>2. ASSUME TypeOK, FlagInv, NEW f \in Filing
        PROVE  issues[f] <= Cardinality(Linker)
    <2>1. MayFlag(f) \in SUBSET Linker
      BY DEF MayFlag
    <2>2. issues[f] \in Nat /\ issues[f] + Cardinality(MayFlag(f)) <= Cardinality(Linker)
      BY <1>2 DEF TypeOK, FlagInv
    <2> QED
      BY <2>1, <2>2, LinkersCounted
  <1>3. TypeOK /\ FlagInv => FlagsAreBounded
    BY <1>2 DEF FlagsAreBounded
  <1>4. Spec => []FlagInv
    BY <1>1, NextFlagInv, TypeCorrect, PTL DEF Spec
  <1> QED
    BY <1>3, <1>4, TypeCorrect, PTL

=============================================================================
