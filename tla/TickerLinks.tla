----------------------------- MODULE TickerLinks -----------------------------
(***************************************************************************)
(* ingest/tickers.py with parsers/ticker_match.py.                         *)
(*                                                                         *)
(* A linker gives a batch of transactions their instrument in one          *)
(* transaction.  It decides from four SELECTs at its beginning, each of    *)
(* which sees the database of its own moment, and from two files of the    *)
(* commit its job has checked out: the SEC companies and the overrides.    *)
(* Nothing but these caches keeps instruments and ticker_map free of       *)
(* duplicates.                                                             *)
(***************************************************************************)
EXTENDS Integers, FiniteSets

CONSTANTS
    Tx,
    Ticker,
    Cik,
    Zeros,           \* the cik of ten zeros
    NoTicker, NoCik, \* NULL or blank
    NoOverride,
    Instr,           \* UUIDs for instruments
    NoInstr,         \* instrument_id IS NULL
    Parsed,          \* Parsed[t]: the ticker the parser extracted
    Release,         \* commits of the repository that jobs run
    Sec,             \* Sec[r][k]: the company of ticker k in its snapshot
    TickerOverride,  \* TickerOverride[r][k]: its override for ticker k
    TextOverride,    \* TextOverride[r][t]: its override for t's description
    Score,           \* Score[t][k]: how alike t's description and k's company are
    Scheduled,       \* linkers that run again and again
    Manual,          \* linkers that may run
    BatchSize

Linker == Scheduled \cup Manual

Overrides == [ticker : Ticker \cup {NoTicker}, cik : Cik \cup {NoCik}] \cup {NoOverride}

ASSUME TickerAssumption ==
    /\ IsFiniteSet(Linker)
    /\ Release # {}
    /\ Zeros \in Cik
    /\ NoTicker \notin Ticker /\ NoCik \notin Cik /\ NoInstr \notin Instr
    /\ Parsed \in [Tx -> Ticker \cup {NoTicker}]
    /\ Sec \in [Release -> [Ticker -> Cik \cup {NoCik}]]
    /\ TickerOverride \in [Release -> [Ticker -> Overrides]]
    /\ TextOverride \in [Release -> [Tx -> Overrides]]
    /\ Score \in [Tx -> [Ticker -> 0 .. 100]]
    /\ BatchSize \in Nat \ {0}

VARIABLES
    known,       \* rows of `transactions`
    link,        \* transactions.instrument_id
    ticker,      \* transactions.ticker
    issues,      \* open ticker_match_unmatched issues per transaction
    cik,         \* instruments.cik; NoCik where there is no such row
    mapped,      \* rows of ticker_map per instrument and ticker
    phase,       \* where each linker is
    release,     \* the commit it runs
    flagged,     \* its already_flagged
    byCik,       \* its instrument_by_cik
    keys,        \* its ticker_map_keys
    todo,        \* the transactions of its batch it has not looked at
    newInstr,    \* its uncommitted writes: ciks of new instruments
    newKeys,     \* ... rows of ticker_map
    newLinks,    \* ... instruments of transactions
    newTickers,  \* ... tickers of transactions that had none
    newFlags     \* ... issues

tableVars == <<known, link, ticker, issues, cik, mapped>>
readVars == <<release, flagged, byCik, keys>>
writeVars == <<newInstr, newKeys, newLinks, newTickers, newFlags>>
vars == <<known, link, ticker, issues, cik, mapped, phase, release,
          flagged, byCik, keys, todo, newInstr, newKeys, newLinks, newTickers, newFlags>>

NoLinks == [t \in Tx |-> NoInstr]
NoTickers == [t \in Tx |-> NoTicker]
NoRows == [i \in Instr |-> NoCik]
AnyRelease == CHOOSE r \in Release : TRUE
NoCache == [c \in Cik |-> NoInstr]

Instruments == {i \in Instr : cik[i] # NoCik}

TypeOK ==
    /\ known \subseteq Tx
    /\ link \in [Tx -> Instr \cup {NoInstr}]
    /\ ticker \in [Tx -> Ticker \cup {NoTicker}]
    /\ issues \in [Tx -> Nat]
    /\ cik \in [Instr -> Cik \cup {NoCik}]
    /\ mapped \in [Instr -> [Ticker -> Nat]]
    /\ phase \in [Linker -> {"idle", "flags", "instruments", "keys", "batch"}]
    /\ release \in [Linker -> Release]
    /\ flagged \in [Linker -> SUBSET Tx]
    /\ byCik \in [Linker -> [Cik -> Instr \cup {NoInstr}]]
    /\ keys \in [Linker -> SUBSET (Instr \X Ticker)]
    /\ todo \in [Linker -> SUBSET known]
    /\ newInstr \in [Linker -> [Instr -> Cik \cup {NoCik}]]
    /\ newKeys \in [Linker -> SUBSET (Instr \X Ticker)]
    /\ newLinks \in [Linker -> [Tx -> Instr \cup {NoInstr}]]
    /\ newTickers \in [Linker -> [Tx -> Ticker \cup {NoTicker}]]
    /\ newFlags \in [Linker -> SUBSET Tx]

Init ==
    /\ known = {}
    /\ link = NoLinks
    /\ ticker = Parsed
    /\ issues = [t \in Tx |-> 0]
    /\ cik = NoRows
    /\ mapped = [i \in Instr |-> [k \in Ticker |-> 0]]
    /\ phase = [l \in Linker |-> "idle"]
    /\ release = [l \in Linker |-> AnyRelease]
    /\ flagged = [l \in Linker |-> {}]
    /\ byCik = [l \in Linker |-> NoCache]
    /\ keys = [l \in Linker |-> {}]
    /\ todo = [l \in Linker |-> {}]
    /\ newInstr = [l \in Linker |-> NoRows]
    /\ newKeys = [l \in Linker |-> {}]
    /\ newLinks = [l \in Linker |-> NoLinks]
    /\ newTickers = [l \in Linker |-> NoTickers]
    /\ newFlags = [l \in Linker |-> {}]

\* A parser saves the transaction.
Save(t) ==
    /\ t \notin known
    /\ known' = known \cup {t}
    /\ UNCHANGED <<link, ticker, issues, cik, mapped, phase, readVars, todo, writeVars>>

-----------------------------------------------------------------------------
(***************************************************************************)
(* _resolve: the companies [cik, ticker] a transaction may be given, none  *)
(* where it returns None.                                                  *)
(***************************************************************************)
Listed(r) == {k \in Ticker : Sec[r][k] # NoCik}

Company(r, k) == [cik |-> Sec[r][k], ticker |-> k]

\* _company_from_override.  zfill pads a blank cik too.
FromOverride(r, o) ==
    IF o.ticker = NoTicker THEN {}
    ELSE IF o.ticker \in Listed(r) THEN {Company(r, o.ticker)}
    ELSE {[cik |-> IF o.cik = NoCik THEN Zeros ELSE o.cik, ticker |-> o.ticker]}

ReviewThreshold == 90

\* match_by_description.  The share classes of a company have equal titles,
\* and of equal scores the one that comes first in the file wins.
ByDescription(r, t) ==
    {Company(r, k) : k \in {b \in Listed(r) :
        /\ Score[t][b] >= ReviewThreshold
        /\ \A o \in Listed(r) : Score[t][o] <= Score[t][b]}}

\* tx.ticker is read while the transaction has no instrument, so it is what
\* the parser extracted (see LinkIsResolved).
Resolve(r, t) ==
    LET own == IF Parsed[t] = NoTicker THEN NoOverride ELSE TickerOverride[r][Parsed[t]]
    IN  IF own # NoOverride THEN FromOverride(r, own)
        ELSE IF Parsed[t] \in Listed(r) THEN {Company(r, Parsed[t])}
        ELSE IF TextOverride[r][t] # NoOverride THEN FromOverride(r, TextOverride[r][t])
        ELSE ByDescription(r, t)

-----------------------------------------------------------------------------
(***************************************************************************)
(* link_pending_transactions.                                              *)
(***************************************************************************)
Goto(l, p) == phase' = [phase EXCEPT ![l] = p]

\* The files of the job's commit and _already_flagged_transaction_ids.
BeginLink(l) ==
    /\ phase[l] = "idle"
    /\ \E r \in Release : release' = [release EXCEPT ![l] = r]
    /\ flagged' = [flagged EXCEPT ![l] = {t \in Tx : issues[t] > 0}]
    /\ Goto(l, "flags")
    /\ UNCHANGED <<tableVars, byCik, keys, todo, writeVars>>

\* Seeded fault: the cache starts empty.
NoCaches == {NoCache}

\* Caches of the table: of several instruments of one company the dict keeps
\* the last row, which may be any.
Caches == {f \in [Cik -> Instruments \cup {NoInstr}] :
              \A c \in Cik :
                IF f[c] = NoInstr THEN \A i \in Instruments : cik[i] # c
                                  ELSE cik[f[c]] = c}

ReadInstruments(l) ==
    /\ phase[l] = "flags"
    /\ \E f \in Caches : byCik' = [byCik EXCEPT ![l] = f]
    /\ Goto(l, "instruments")
    /\ UNCHANGED <<tableVars, release, flagged, keys, todo, writeVars>>

ReadKeys(l) ==
    /\ phase[l] = "instruments"
    /\ keys' = [keys EXCEPT ![l] = {m \in Instr \X Ticker : mapped[m[1]][m[2]] > 0}]
    /\ Goto(l, "keys")
    /\ UNCHANGED <<tableVars, release, flagged, byCik, todo, writeVars>>

Pending == {t \in known : link[t] = NoInstr}

\* Seeded fault: flagged transactions first.
FlaggedFirst(t) == IF issues[t] > 0 THEN 0 ELSE 1

Priority(t) == IF issues[t] > 0 THEN 1 ELSE 0

\* ORDER BY priority LIMIT; within a priority the order is any order.
SelectPending(l) ==
    /\ phase[l] = "keys"
    /\ \E batch \in SUBSET Pending :
        /\ Cardinality(batch) <= BatchSize
        /\ Cardinality(batch) = BatchSize \/ batch = Pending
        /\ \A t \in batch, u \in Pending \ batch : Priority(t) <= Priority(u)
        /\ todo' = [todo EXCEPT ![l] = batch]
    /\ Goto(l, "batch")
    /\ UNCHANGED <<tableVars, readVars, writeVars>>

LookAt(l, t) ==
    /\ phase[l] = "batch" /\ t \in todo[l]
    /\ todo' = [todo EXCEPT ![l] = @ \ {t}]
    /\ UNCHANGED <<tableVars, phase, release>>

Flag(l, t) ==
    /\ LookAt(l, t)
    /\ Resolve(release[l], t) = {}
    /\ newFlags' = [newFlags EXCEPT ![l] = IF t \in flagged[l] THEN @ ELSE @ \cup {t}]
    /\ flagged' = [flagged EXCEPT ![l] = @ \cup {t}]
    /\ UNCHANGED <<byCik, keys, newInstr, newKeys, newLinks, newTickers>>

\* uuid4: no row, committed or not, has the id.
Unused == {i \in Instr : cik[i] = NoCik /\ \A l \in Linker : newInstr[l][i] = NoCik}

\* The instrument for a company: the cached one, or a new one.
Chosen(l, c) ==
    IF byCik[l][c] # NoInstr THEN {byCik[l][c]}
    ELSE IF Unused = {} THEN {} ELSE {CHOOSE i \in Unused : TRUE}

\* Seeded fault: the new ticker_map row is not written.
ForgetKey(l, t, i, company) ==
    /\ newLinks' = [newLinks EXCEPT ![l][t] = i]
    /\ newTickers' = [newTickers EXCEPT ![l][t] =
                         IF Parsed[t] = NoTicker THEN company.ticker ELSE @]
    /\ UNCHANGED <<keys, newKeys>>

\* The row of ticker_map, unless the cache has it, and the transaction's own.
WriteLink(l, t, i, company) ==
    LET key == <<i, company.ticker>>
    IN  /\ newKeys' = [newKeys EXCEPT ![l] = IF key \in keys[l] THEN @ ELSE @ \cup {key}]
        /\ keys' = [keys EXCEPT ![l] = @ \cup {key}]
        /\ newLinks' = [newLinks EXCEPT ![l][t] = i]
        /\ newTickers' = [newTickers EXCEPT ![l][t] =
                             IF Parsed[t] = NoTicker THEN company.ticker ELSE @]

Link(l, t) ==
    /\ LookAt(l, t)
    /\ \E company \in Resolve(release[l], t) : \E i \in Chosen(l, company.cik) :
        /\ WriteLink(l, t, i, company)
        /\ newInstr' = IF byCik[l][company.cik] = NoInstr
                       THEN [newInstr EXCEPT ![l][i] = company.cik] ELSE newInstr
        /\ byCik' = [byCik EXCEPT ![l][company.cik] = i]
    /\ UNCHANGED <<flagged, newFlags>>

EndLink(l) ==
    /\ Goto(l, "idle")
    /\ flagged' = [flagged EXCEPT ![l] = {}]
    /\ byCik' = [byCik EXCEPT ![l] = NoCache]
    /\ keys' = [keys EXCEPT ![l] = {}]
    /\ todo' = [todo EXCEPT ![l] = {}]
    /\ newInstr' = [newInstr EXCEPT ![l] = NoRows]
    /\ newKeys' = [newKeys EXCEPT ![l] = {}]
    /\ newLinks' = [newLinks EXCEPT ![l] = NoLinks]
    /\ newTickers' = [newTickers EXCEPT ![l] = NoTickers]
    /\ newFlags' = [newFlags EXCEPT ![l] = {}]
    /\ release' = [release EXCEPT ![l] = AnyRelease]

\* UPDATE ... WHERE transaction_id writes without looking: what another run
\* committed meanwhile is replaced, by the columns this run has changed.
Commit(l) ==
    /\ phase[l] = "batch" /\ todo[l] = {}
    /\ link' = [t \in Tx |-> IF newLinks[l][t] # NoInstr THEN newLinks[l][t] ELSE link[t]]
    /\ ticker' = [t \in Tx |->
                    IF newTickers[l][t] # NoTicker THEN newTickers[l][t] ELSE ticker[t]]
    /\ issues' = [t \in Tx |-> issues[t] + IF t \in newFlags[l] THEN 1 ELSE 0]
    /\ cik' = [i \in Instr |-> IF newInstr[l][i] # NoCik THEN newInstr[l][i] ELSE cik[i]]
    /\ mapped' = [i \in Instr |-> [k \in Ticker |->
                    mapped[i][k] + IF <<i, k>> \in newKeys[l] THEN 1 ELSE 0]]
    /\ EndLink(l)
    /\ UNCHANGED known

\* An error, a deadlock of two linkers, a cancelled job.
RollBack(l) ==
    /\ phase[l] # "idle"
    /\ EndLink(l)
    /\ UNCHANGED tableVars

LinkStep(l) ==
    \/ BeginLink(l) \/ ReadInstruments(l) \/ ReadKeys(l) \/ SelectPending(l)
    \/ Commit(l) \/ RollBack(l)
    \/ \E t \in Tx : Link(l, t) \/ Flag(l, t)

Next ==
    \/ \E t \in Tx : Save(t)
    \/ \E l \in Linker : LinkStep(l)

Spec == Init /\ [][Next]_vars
\* The collector runs over and over, and again and again its linker commits.
Fairness ==
    \A l \in Scheduled : WF_vars(BeginLink(l)) /\ []<><<Commit(l)>>_vars

LiveSpec == Spec /\ Fairness

-----------------------------------------------------------------------------
(***************************************************************************)
(* Properties.                                                             *)
(***************************************************************************)
\* The override for t: for the ticker on the form or, failing that, for its
\* description.
OverrideFor(r, t) ==
    IF Parsed[t] # NoTicker /\ TickerOverride[r][Parsed[t]] # NoOverride
    THEN TickerOverride[r][Parsed[t]] ELSE TextOverride[r][t]

\* README, "Ticker linking": company c is that of the override for t, if there
\* is one; otherwise SEC's company of the ticker on the form; otherwise one of
\* nearly t's description.
Justified(r, t, c) ==
    LET o == OverrideFor(r, t)
    IN  IF o # NoOverride
        THEN /\ c.ticker = o.ticker
             /\ o.ticker \in Listed(r) => c = Company(r, o.ticker)
             /\ o.ticker \notin Listed(r) /\ o.cik # NoCik => c.cik = o.cik
        ELSE /\ c = Company(r, c.ticker)
             /\ IF Parsed[t] \in Listed(r) THEN c.ticker = Parsed[t]
                ELSE Score[t][c.ticker] >= 90

\* Where the code departs from that: the ticker on the form is looked up in
\* SEC's list before the override for the description is.
PassesOver(r, t, c) ==
    /\ Parsed[t] \in Listed(r) /\ c = Company(r, Parsed[t])
    /\ TickerOverride[r][Parsed[t]] = NoOverride /\ TextOverride[r][t] # NoOverride

\* Whatever two linkers on different commits overwrite of each other, the
\* instrument of a transaction, a row of ticker_map and the ticker filled in
\* are those of one company: the one that the README's rules give it, or that
\* of its ticker, which passes over an override for its description.  Nothing is
\* filled in without a link.
LinkIsResolved ==
    \A t \in Tx :
        IF link[t] = NoInstr THEN ticker[t] = Parsed[t]
        ELSE \E r \in Release : \E c \in Resolve(r, t) :
                /\ Justified(r, t, c) \/ PassesOver(r, t, c)
                /\ cik[link[t]] = c.cik
                /\ mapped[link[t]][c.ticker] > 0
                /\ ticker[t] = IF Parsed[t] = NoTicker THEN c.ticker ELSE Parsed[t]

\* README: "`instruments`/`ticker_map` rows are created on demand, one per
\* distinct CIK": with linkers beside each other, at most one for each.
InstrumentsAreBounded ==
    /\ \A c \in Cik : Cardinality({i \in Instruments : cik[i] = c}) <= Cardinality(Linker)
    /\ \A i \in Instr, k \in Ticker : mapped[i][k] <= Cardinality(Linker)

\* No transaction waits behind those that never match: each is linked or
\* flagged, also when other runs fail or replace its link.
EveryTransactionIsHandled ==
    \A t \in Tx : t \in known ~> link[t] # NoInstr \/ issues[t] > 0

=============================================================================
