-------------------------- MODULE TickerLinksProofs --------------------------
(***************************************************************************)
(* Proofs about TickerLinks, for any number of linkers, transactions and   *)
(* commits, any companies, overrides and scores.                           *)
(*                                                                         *)
(* Commit writes a linker's buffer over whatever is in the tables, so what *)
(* LinkIsResolved says of the tables is said of tables and buffer together *)
(* first (Backed).  That stays true beside other linkers because an        *)
(* instrument keeps its cik, rows of ticker_map stay, and no id is used    *)
(* twice (IdsAreFresh).                                                    *)
(***************************************************************************)
EXTENDS TickerLinks, FiniteSetTheorems, TLAPS

\* Instrument i is of company c, for linker l.
HasCik(l, i, c) == cik[i] = c \/ newInstr[l][i] = c

\* ticker_map has a row for i and k, for linker l.
HasRow(l, i, k) == mapped[i][k] > 0 \/ <<i, k>> \in newKeys[l]

FillIn(t, c) == IF Parsed[t] = NoTicker THEN c.ticker ELSE NoTicker

\* The buffered link of t is right, once the buffer is committed.
Backed(l, t) ==
    \E r \in Release : \E c \in Resolve(r, t) :
        /\ Justified(r, t, c) \/ PassesOver(r, t, c)
        /\ c.cik \in Cik /\ c.ticker \in Ticker
        /\ HasCik(l, newLinks[l][t], c.cik)
        /\ HasRow(l, newLinks[l][t], c.ticker)
        /\ newTickers[l][t] = FillIn(t, c)

BuffersAreBacked ==
    \A l \in Linker, t \in Tx :
        IF newLinks[l][t] = NoInstr THEN newTickers[l][t] = NoTicker ELSE Backed(l, t)

CachesAreTrue ==
    \A l \in Linker :
        /\ \A c \in Cik : byCik[l][c] # NoInstr => HasCik(l, byCik[l][c], c)
        /\ \A i \in Instr, k \in Ticker : <<i, k>> \in keys[l] => HasRow(l, i, k)

IdsAreFresh ==
    \A l \in Linker, i \in Instr : newInstr[l][i] # NoCik =>
        /\ cik[i] = NoCik
        /\ \A m \in Linker \ {l} : newInstr[m][i] = NoCik

IInv ==
    /\ TypeOK
    /\ BuffersAreBacked
    /\ CachesAreTrue
    /\ IdsAreFresh
    /\ LinkIsResolved

\* What _resolve returns is a company, and the one of the README's rules, but for
\* an override for a description that it passes over.
LEMMA ResolvedIsJustified ==
    ASSUME NEW r \in Release, NEW t \in Tx, NEW c \in Resolve(r, t)
    PROVE  /\ Justified(r, t, c) \/ PassesOver(r, t, c)
           /\ c.cik \in Cik /\ c.ticker \in Ticker
  <1> DEFINE own == IF Parsed[t] = NoTicker THEN NoOverride ELSE TickerOverride[r][Parsed[t]]
  <1>1. /\ Parsed[t] \in Ticker \cup {NoTicker} /\ NoTicker \notin Listed(r)
        /\ own \in Overrides
        /\ TextOverride[r][t] \in Overrides
        /\ \A k \in Listed(r) : Sec[r][k] \in Cik /\ k \in Ticker
    BY TickerAssumption DEF Listed, Overrides
  <1>2. \A k \in Listed(r) :
            /\ Company(r, k).cik \in Cik
            /\ Company(r, k).ticker = k
            /\ Company(r, k) = Company(r, Company(r, k).ticker)
    BY <1>1 DEF Company
  <1>3. ASSUME NEW o \in Overrides, o # NoOverride, c \in FromOverride(r, o)
        PROVE  /\ c.ticker = o.ticker /\ c.cik \in Cik /\ c.ticker \in Ticker
               /\ o.ticker \in Listed(r) => c = Company(r, o.ticker)
               /\ o.ticker \notin Listed(r) /\ o.cik # NoCik => c.cik = o.cik
    <2>1. o \in [ticker : Ticker \cup {NoTicker}, cik : Cik \cup {NoCik}]
      BY <1>3 DEF Overrides
    <2>2. o.ticker # NoTicker
      BY <1>3 DEF FromOverride
    <2>3. CASE o.ticker \in Listed(r)
      BY <1>2, <1>3, <2>1, <2>2, <2>3 DEF FromOverride
    <2>4. CASE o.ticker \notin Listed(r)
      BY <1>3, <2>1, <2>2, <2>4, TickerAssumption DEF FromOverride
    <2> QED
      BY <2>3, <2>4
  <1>4. CASE own # NoOverride
    <2>1. OverrideFor(r, t) = own
      BY <1>4 DEF OverrideFor
    <2>2. c \in FromOverride(r, own)
      BY <1>4 DEF Resolve
    <2> QED
      BY <1>1, <1>3, <1>4, <2>1, <2>2 DEF Justified
  <1>5. CASE own = NoOverride /\ Parsed[t] \in Listed(r)
    <2>1. c = Company(r, Parsed[t])
      BY <1>5 DEF Resolve
    <2>2. /\ OverrideFor(r, t) = TextOverride[r][t]
          /\ TickerOverride[r][Parsed[t]] = NoOverride
      BY <1>1, <1>5 DEF OverrideFor
    <2>3. ASSUME TextOverride[r][t] = NoOverride PROVE Justified(r, t, c)
      BY <1>2, <1>5, <2>1, <2>2, <2>3 DEF Justified
    <2>4. ASSUME TextOverride[r][t] # NoOverride PROVE PassesOver(r, t, c)
      BY <1>5, <2>1, <2>2, <2>4 DEF PassesOver
    <2> QED
      BY <1>1, <1>2, <1>5, <2>1, <2>3, <2>4
  <1>6. CASE own = NoOverride /\ Parsed[t] \notin Listed(r) /\ TextOverride[r][t] # NoOverride
    <2>1. c \in FromOverride(r, TextOverride[r][t])
      BY <1>6 DEF Resolve
    <2>2. OverrideFor(r, t) = TextOverride[r][t]
      BY <1>6 DEF OverrideFor
    <2> QED
      BY <1>1, <1>3, <1>6, <2>1, <2>2 DEF Justified
  <1>7. CASE own = NoOverride /\ Parsed[t] \notin Listed(r) /\ TextOverride[r][t] = NoOverride
    <2>1. PICK k \in Listed(r) : Score[t][k] >= 90 /\ c = Company(r, k)
      BY <1>7 DEF Resolve, ByDescription, ReviewThreshold
    <2>2. OverrideFor(r, t) = NoOverride
      BY <1>7 DEF OverrideFor
    <2> QED
      BY <1>1, <1>2, <1>7, <2>1, <2>2 DEF Justified
  <1> QED
    BY <1>4, <1>5, <1>6, <1>7

\* Empty tables and empty buffers.
LEMMA InitIInv == Init => IInv
  <1> SUFFICES ASSUME Init PROVE IInv
    OBVIOUS
  <1>1. AnyRelease \in Release
    BY TickerAssumption DEF AnyRelease
  <1>2. TypeOK
    BY <1>1, TickerAssumption DEF Init, TypeOK, NoLinks, NoTickers, NoRows, NoCache
  <1>3. BuffersAreBacked /\ CachesAreTrue /\ IdsAreFresh /\ LinkIsResolved
    BY DEF Init, BuffersAreBacked, CachesAreTrue, IdsAreFresh, LinkIsResolved,
       NoLinks, NoTickers, NoRows, NoCache
  <1> QED
    BY <1>2, <1>3 DEF IInv

\* A new transaction has no link, in the table or in a buffer that counts.
LEMMA SaveKeepsIInv ==
    ASSUME IInv, NEW t \in Tx, Save(t)
    PROVE  IInv'
  <1>1. /\ known' = known \cup {t}
        /\ UNCHANGED <<link, ticker, issues, cik, mapped, phase, release, flagged, byCik,
                       keys, todo, newInstr, newKeys, newLinks, newTickers, newFlags>>
    BY DEF Save, readVars, writeVars
  <1>2. TypeOK'
    BY <1>1 DEF IInv, TypeOK, Instruments
  <1>3. BuffersAreBacked' /\ CachesAreTrue' /\ IdsAreFresh' /\ LinkIsResolved'
    BY <1>1 DEF IInv, BuffersAreBacked, Backed, HasCik, HasRow, CachesAreTrue, IdsAreFresh,
       LinkIsResolved
  <1> QED
    BY <1>2, <1>3 DEF IInv

\* The SELECTs at the beginning change nothing but caches, and fill these
\* from the tables.
LEMMA ReadKeepsIInv ==
    ASSUME IInv, NEW l \in Linker,
           BeginLink(l) \/ ReadInstruments(l) \/ ReadKeys(l) \/ SelectPending(l)
    PROVE  IInv'
  <1>1. UNCHANGED <<known, link, ticker, issues, cik, mapped,
                    newInstr, newKeys, newLinks, newTickers, newFlags>>
    BY DEF BeginLink, ReadInstruments, ReadKeys, SelectPending, tableVars, readVars, writeVars
  <1>2. BuffersAreBacked' /\ IdsAreFresh' /\ LinkIsResolved'
    BY <1>1 DEF IInv, BuffersAreBacked, Backed, HasCik, HasRow, IdsAreFresh, LinkIsResolved
  <1>3. CASE BeginLink(l)
    <2>1. TypeOK'
      BY <1>1, <1>3 DEF BeginLink, Goto, IInv, TypeOK, Instruments
    <2>2. CachesAreTrue'
      BY <1>1, <1>3 DEF BeginLink, IInv, CachesAreTrue, HasCik, HasRow
    <2> QED
      BY <1>2, <2>1, <2>2 DEF IInv
  <1>4. CASE ReadInstruments(l)
    <2>1. PICK f \in Caches : byCik' = [byCik EXCEPT ![l] = f]
      BY <1>4 DEF ReadInstruments
    <2>2. /\ phase' = [phase EXCEPT ![l] = "instruments"]
          /\ UNCHANGED <<release, flagged, keys, todo>>
      BY <1>4 DEF ReadInstruments, Goto
    <2>3. /\ f \in [Cik -> Instr \cup {NoInstr}]
          /\ \A c \in Cik : f[c] # NoInstr => cik[f[c]] = c
      BY DEF Caches, Instruments
    <2>4. TypeOK'
      BY <1>1, <2>1, <2>2, <2>3 DEF IInv, TypeOK
    <2>5. CachesAreTrue'
      BY <1>1, <2>1, <2>2, <2>3 DEF IInv, TypeOK, CachesAreTrue, HasCik, HasRow
    <2> QED
      BY <1>2, <2>4, <2>5 DEF IInv
  <1>5. CASE ReadKeys(l)
    <2>1. /\ keys' = [keys EXCEPT ![l] = {m \in Instr \X Ticker : mapped[m[1]][m[2]] > 0}]
          /\ phase' = [phase EXCEPT ![l] = "keys"]
          /\ UNCHANGED <<release, flagged, byCik, todo>>
      BY <1>5 DEF ReadKeys, Goto
    <2>2. TypeOK'
      BY <1>1, <2>1 DEF IInv, TypeOK
    <2>3. CachesAreTrue'
      BY <1>1, <2>1 DEF IInv, TypeOK, CachesAreTrue, HasCik, HasRow
    <2> QED
      BY <1>2, <2>2, <2>3 DEF IInv
  <1>6. CASE SelectPending(l)
    <2>1. PICK batch \in SUBSET Pending : todo' = [todo EXCEPT ![l] = batch]
      BY <1>6 DEF SelectPending
    <2>2. /\ phase' = [phase EXCEPT ![l] = "batch"]
          /\ UNCHANGED <<release, flagged, byCik, keys>>
      BY <1>6 DEF SelectPending, Goto, readVars
    <2>3. batch \subseteq known
      BY DEF Pending
    <2>4. TypeOK'
      BY <1>1, <2>1, <2>2, <2>3 DEF IInv, TypeOK
    <2>5. CachesAreTrue'
      BY <1>1, <2>2 DEF IInv, CachesAreTrue, HasCik, HasRow
    <2> QED
      BY <1>2, <2>4, <2>5 DEF IInv
  <1> QED
    BY <1>3, <1>4, <1>5, <1>6

\* A transaction without a company leaves the links alone.
LEMMA FlagKeepsIInv ==
    ASSUME IInv, NEW l \in Linker, NEW t \in Tx, Flag(l, t)
    PROVE  IInv'
  <1>1. /\ todo' = [todo EXCEPT ![l] = @ \ {t}]
        /\ newFlags' = [newFlags EXCEPT ![l] = IF t \in flagged[l] THEN @ ELSE @ \cup {t}]
        /\ flagged' = [flagged EXCEPT ![l] = @ \cup {t}]
        /\ UNCHANGED <<known, link, ticker, issues, cik, mapped, phase, release, byCik, keys,
                       newInstr, newKeys, newLinks, newTickers>>
    BY DEF Flag, LookAt, tableVars
  <1>2. TypeOK'
    BY <1>1 DEF IInv, TypeOK
  <1>3. BuffersAreBacked'
    BY <1>1 DEF IInv, BuffersAreBacked, Backed, HasCik, HasRow
  <1>4. CachesAreTrue' /\ IdsAreFresh'
    BY <1>1 DEF IInv, CachesAreTrue, HasCik, HasRow, IdsAreFresh
  <1>5. LinkIsResolved'
    BY <1>1 DEF IInv, LinkIsResolved
  <1> QED
    BY <1>2, <1>3, <1>4, <1>5 DEF IInv

\* A new id is nobody's; a cached one is of the company.
LEMMA ChosenHasCik ==
    ASSUME IInv, NEW l \in Linker, NEW c \in Cik, NEW i \in Chosen(l, c)
    PROVE  /\ i \in Instr
           /\ byCik[l][c] # NoInstr => i = byCik[l][c] /\ HasCik(l, i, c)
           /\ byCik[l][c] = NoInstr => i \in Unused
  <1>1. byCik[l][c] \in Instr \cup {NoInstr}
    BY DEF IInv, TypeOK
  <1>2. CASE byCik[l][c] # NoInstr
    BY <1>1, <1>2 DEF Chosen, IInv, CachesAreTrue
  <1>3. CASE byCik[l][c] = NoInstr
    <2>1. i = CHOOSE j \in Unused : TRUE
      BY <1>3 DEF Chosen
    <2>2. Unused # {}
      BY <1>3 DEF Chosen
    <2> QED
      BY <1>3, <2>1, <2>2 DEF Unused
  <1> QED
    BY <1>2, <1>3

\* A link is buffered together with all that makes it right.
LEMMA LinkKeepsIInv ==
    ASSUME IInv, NEW l \in Linker, NEW t \in Tx, Link(l, t)
    PROVE  IInv'
  <1>0. PICK company \in Resolve(release[l], t) : \E i \in Chosen(l, company.cik) :
            /\ WriteLink(l, t, i, company)
            /\ newInstr' = IF byCik[l][company.cik] = NoInstr
                           THEN [newInstr EXCEPT ![l][i] = company.cik] ELSE newInstr
            /\ byCik' = [byCik EXCEPT ![l][company.cik] = i]
    BY DEF Link
  <1>1. PICK i \in Chosen(l, company.cik) :
            /\ WriteLink(l, t, i, company)
            /\ newInstr' = IF byCik[l][company.cik] = NoInstr
                           THEN [newInstr EXCEPT ![l][i] = company.cik] ELSE newInstr
            /\ byCik' = [byCik EXCEPT ![l][company.cik] = i]
    BY <1>0
  <1>2. /\ todo' = [todo EXCEPT ![l] = @ \ {t}]
        /\ UNCHANGED <<known, link, ticker, issues, cik, mapped, phase, release, flagged, newFlags>>
    BY DEF Link, LookAt, tableVars
  <1> DEFINE r == release[l]
             c == company.cik
             k == company.ticker
  <1>3. r \in Release
    BY DEF IInv, TypeOK
  <1>4. /\ Justified(r, t, company) \/ PassesOver(r, t, company)
        /\ c \in Cik /\ k \in Ticker
    BY <1>1, <1>3, ResolvedIsJustified
  <1>5. /\ i \in Instr
        /\ byCik[l][c] # NoInstr => i = byCik[l][c] /\ HasCik(l, i, c)
        /\ byCik[l][c] = NoInstr => i \in Unused
    BY <1>1, <1>4, ChosenHasCik
  <1>6. /\ newKeys' = [newKeys EXCEPT ![l] = IF <<i, k>> \in keys[l] THEN @ ELSE @ \cup {<<i, k>>}]
        /\ keys' = [keys EXCEPT ![l] = @ \cup {<<i, k>>}]
        /\ newLinks' = [newLinks EXCEPT ![l] = [@ EXCEPT ![t] = i]]
        /\ newTickers' = [newTickers EXCEPT ![l] = [newTickers[l] EXCEPT ![t] =
                             IF Parsed[t] = NoTicker THEN k ELSE newTickers[l][t]]]
    BY <1>1 DEF WriteLink
  <1>7. TypeOK'
    <2>1. newTickers[l] \in [Tx -> Ticker \cup {NoTicker}]
      BY DEF IInv, TypeOK
    <2>2. newTickers' \in [Linker -> [Tx -> Ticker \cup {NoTicker}]]
      BY <1>4, <1>6, <2>1 DEF IInv, TypeOK
    <2>3. newInstr' \in [Linker -> [Instr -> Cik \cup {NoCik}]]
      BY <1>1, <1>4 DEF IInv, TypeOK
    <2>4. /\ byCik' \in [Linker -> [Cik -> Instr \cup {NoInstr}]]
          /\ newLinks' \in [Linker -> [Tx -> Instr \cup {NoInstr}]]
      BY <1>1, <1>5, <1>6 DEF IInv, TypeOK
    <2>5. /\ newKeys' \in [Linker -> SUBSET (Instr \X Ticker)]
          /\ keys' \in [Linker -> SUBSET (Instr \X Ticker)]
      BY <1>4, <1>5, <1>6 DEF IInv, TypeOK
    <2>6. todo' \in [Linker -> SUBSET known']
      BY <1>2 DEF IInv, TypeOK
    <2> QED
      BY <1>2, <2>2, <2>3, <2>4, <2>5, <2>6 DEF IInv, TypeOK
  <1>8. IdsAreFresh'
    BY <1>1, <1>2, <1>4, <1>5 DEF IInv, TypeOK, IdsAreFresh, Unused
  <1>9. \A m \in Linker, j \in Instr, d \in Cik : HasCik(m, j, d) => HasCik(m, j, d)'
    BY <1>1, <1>2, <1>5, TickerAssumption DEF IInv, TypeOK, HasCik, Unused
  <1>10. \A m \in Linker, j \in Instr, n \in Ticker : HasRow(m, j, n) => HasRow(m, j, n)'
    BY <1>2, <1>6 DEF IInv, TypeOK, HasRow
  <1>11. HasCik(l, i, c)'
    BY <1>1, <1>4, <1>5, <1>9 DEF IInv, TypeOK, HasCik
  <1>12. HasRow(l, i, k)'
    BY <1>4, <1>5, <1>6, <1>10 DEF IInv, TypeOK, HasRow, CachesAreTrue
  <1>13. CachesAreTrue'
    <2>1. ASSUME NEW m \in Linker, NEW d \in Cik, byCik'[m][d] # NoInstr
          PROVE  HasCik(m, byCik[m][d], d)'
      <3>1. CASE m = l /\ d = c
        BY <1>1, <1>4, <1>11, <3>1 DEF IInv, TypeOK
      <3>2. CASE ~(m = l /\ d = c)
        <4>1. byCik'[m][d] = byCik[m][d] /\ byCik[m][d] \in Instr \cup {NoInstr}
          BY <1>1, <3>2 DEF IInv, TypeOK
        <4>2. HasCik(m, byCik[m][d], d)
          BY <2>1, <4>1 DEF IInv, CachesAreTrue
        <4>3. HasCik(m, byCik[m][d], d) => newInstr'[m][byCik[m][d]] = d \/ cik'[byCik[m][d]] = d
          BY <1>9, <2>1, <4>1 DEF HasCik
        <4> QED
          BY <4>1, <4>2, <4>3 DEF HasCik
      <3> QED
        BY <3>1, <3>2
    <2>2. ASSUME NEW m \in Linker, NEW j \in Instr, NEW n \in Ticker, <<j, n>> \in keys'[m]
          PROVE  HasRow(m, j, n)'
      <3>1. CASE m = l /\ j = i /\ n = k
        BY <1>12, <3>1
      <3>2. CASE ~(m = l /\ j = i /\ n = k)
        <4>1. <<j, n>> \in keys[m]
          BY <1>6, <2>2, <3>2 DEF IInv, TypeOK
        <4> QED
          BY <1>10, <4>1 DEF IInv, CachesAreTrue
      <3> QED
        BY <3>1, <3>2
    <2> QED
      BY <2>1, <2>2 DEF CachesAreTrue
  <1>14. BuffersAreBacked'
    <2> SUFFICES ASSUME NEW m \in Linker, NEW u \in Tx
                 PROVE  IF newLinks'[m][u] = NoInstr THEN newTickers'[m][u] = NoTicker
                                                     ELSE Backed(m, u)'
      BY DEF BuffersAreBacked
    <2>1. CASE m = l /\ u = t
      <3>1. newLinks'[m][u] = i /\ i # NoInstr
        BY <1>5, <1>6, <2>1, TickerAssumption DEF IInv, TypeOK
      <3>2. newTickers'[m][u] = FillIn(t, company)
        <4>1. CASE Parsed[t] = NoTicker
          BY <1>6, <2>1, <4>1 DEF IInv, TypeOK, FillIn
        <4>2. CASE Parsed[t] # NoTicker
          <5>1. newTickers[l][t] = NoTicker
            BY <4>2 DEF IInv, BuffersAreBacked, Backed, FillIn
          <5> QED
            BY <1>6, <2>1, <4>2, <5>1 DEF IInv, TypeOK, FillIn
        <4> QED
          BY <4>1, <4>2
      <3> QED
        BY <1>1, <1>3, <1>4, <1>11, <1>12, <2>1, <3>1, <3>2 DEF Backed, HasCik, HasRow
    <2>2. CASE ~(m = l /\ u = t)
      <3>1. newLinks'[m][u] = newLinks[m][u] /\ newTickers'[m][u] = newTickers[m][u]
        BY <1>6, <2>2 DEF IInv, TypeOK
      <3>2. CASE newLinks[m][u] = NoInstr
        BY <3>1, <3>2 DEF IInv, BuffersAreBacked
      <3>3. CASE newLinks[m][u] # NoInstr
        <4>1. newLinks[m][u] \in Instr
          BY <3>3 DEF IInv, TypeOK
        <4>a. PICK q \in Release : \E d \in Resolve(q, u) :
                /\ Justified(q, u, d) \/ PassesOver(q, u, d)
                /\ d.cik \in Cik /\ d.ticker \in Ticker
                /\ HasCik(m, newLinks[m][u], d.cik)
                /\ HasRow(m, newLinks[m][u], d.ticker)
                /\ newTickers[m][u] = FillIn(u, d)
          BY <3>3 DEF IInv, BuffersAreBacked, Backed
        <4>2. PICK d \in Resolve(q, u) :
                /\ Justified(q, u, d) \/ PassesOver(q, u, d)
                /\ d.cik \in Cik /\ d.ticker \in Ticker
                /\ HasCik(m, newLinks[m][u], d.cik)
                /\ HasRow(m, newLinks[m][u], d.ticker)
                /\ newTickers[m][u] = FillIn(u, d)
          BY <4>a
        <4>3. HasCik(m, newLinks[m][u], d.cik)' /\ HasRow(m, newLinks[m][u], d.ticker)'
          BY <1>9, <1>10, <3>1, <4>1, <4>2 DEF HasCik, HasRow
        <4> QED
          BY <3>1, <3>3, <4>2, <4>3 DEF Backed
      <3> QED
        BY <3>2, <3>3
    <2> QED
      BY <2>1, <2>2
  <1>15. LinkIsResolved'
    BY <1>2 DEF IInv, LinkIsResolved
  <1> QED
    BY <1>7, <1>8, <1>13, <1>14, <1>15 DEF IInv

\* The end of a run, either way: what the tables and the other buffers rest on
\* is still there, and a committed buffer has become the table.
LEMMA EndKeepsIInv ==
    ASSUME IInv, NEW l \in Linker, Commit(l) \/ RollBack(l)
    PROVE  IInv'
  <1>1. /\ phase' = [phase EXCEPT ![l] = "idle"]
        /\ release' = [release EXCEPT ![l] = AnyRelease]
        /\ flagged' = [flagged EXCEPT ![l] = {}]
        /\ byCik' = [byCik EXCEPT ![l] = NoCache]
        /\ keys' = [keys EXCEPT ![l] = {}]
        /\ todo' = [todo EXCEPT ![l] = {}]
        /\ newInstr' = [newInstr EXCEPT ![l] = NoRows]
        /\ newKeys' = [newKeys EXCEPT ![l] = {}]
        /\ newLinks' = [newLinks EXCEPT ![l] = NoLinks]
        /\ newTickers' = [newTickers EXCEPT ![l] = NoTickers]
        /\ newFlags' = [newFlags EXCEPT ![l] = {}]
        /\ known' = known
    BY DEF Commit, RollBack, EndLink, Goto, tableVars
  <1>2. /\ AnyRelease \in Release
        /\ NoCache \in [Cik -> Instr \cup {NoInstr}]
        /\ NoRows \in [Instr -> Cik \cup {NoCik}]
        /\ NoLinks \in [Tx -> Instr \cup {NoInstr}]
        /\ NoTickers \in [Tx -> Ticker \cup {NoTicker}]
    BY TickerAssumption DEF AnyRelease, NoCache, NoRows, NoLinks, NoTickers
  <1> DEFINE Grown ==
        /\ \A i \in Instr, d \in Cik : cik[i] = d => cik'[i] = d
        /\ \A i \in Instr, k \in Ticker : mapped[i][k] > 0 => mapped'[i][k] > 0
        /\ \A i \in Instr, m \in Linker \ {l} : newInstr[m][i] # NoCik => cik'[i] = NoCik
  <1>3. ASSUME Grown PROVE BuffersAreBacked' /\ CachesAreTrue' /\ IdsAreFresh'
    <2>1. \A m \in Linker \ {l} :
            /\ newLinks'[m] = newLinks[m] /\ newTickers'[m] = newTickers[m]
            /\ newInstr'[m] = newInstr[m] /\ newKeys'[m] = newKeys[m]
            /\ byCik'[m] = byCik[m] /\ keys'[m] = keys[m]
      BY <1>1 DEF IInv, TypeOK
    <2>2. /\ newLinks'[l] = NoLinks /\ newTickers'[l] = NoTickers
          /\ newInstr'[l] = NoRows /\ newKeys'[l] = {}
          /\ byCik'[l] = NoCache /\ keys'[l] = {}
      BY <1>1 DEF IInv, TypeOK
    <2>3. \A m \in Linker \ {l}, i \in Instr, d \in Cik :
            HasCik(m, i, d) => (cik'[i] = d \/ newInstr'[m][i] = d)
      BY <1>3, <2>1 DEF HasCik
    <2>4. \A m \in Linker \ {l}, i \in Instr, k \in Ticker :
            HasRow(m, i, k) => (mapped'[i][k] > 0 \/ <<i, k>> \in newKeys'[m])
      BY <1>3, <2>1 DEF HasRow
    <2>5. IdsAreFresh'
      BY <1>3, <2>1, <2>2 DEF IInv, IdsAreFresh, NoRows
    <2>6. CachesAreTrue'
      <3>1. ASSUME NEW m \in Linker \ {l}
            PROVE  /\ \A c \in Cik : byCik'[m][c] # NoInstr => HasCik(m, byCik[m][c], c)'
                   /\ \A i \in Instr, k \in Ticker : <<i, k>> \in keys'[m] => HasRow(m, i, k)'
        <4>1. ASSUME NEW c \in Cik, byCik'[m][c] # NoInstr
              PROVE  cik'[byCik'[m][c]] = c \/ newInstr'[m][byCik'[m][c]] = c
          <5>1. byCik'[m][c] = byCik[m][c] /\ byCik[m][c] \in Instr
            BY <2>1, <4>1 DEF IInv, TypeOK
          <5>2. HasCik(m, byCik[m][c], c)
            BY <4>1, <5>1 DEF IInv, CachesAreTrue
          <5> QED
            BY <2>3, <5>1, <5>2
        <4>2. ASSUME NEW i \in Instr, NEW k \in Ticker, <<i, k>> \in keys'[m]
              PROVE  mapped'[i][k] > 0 \/ <<i, k>> \in newKeys'[m]
          BY <2>1, <2>4, <4>2 DEF IInv, CachesAreTrue
        <4> QED
          BY <4>1, <4>2 DEF HasCik, HasRow
      <3> QED
        BY <2>2, <3>1 DEF CachesAreTrue, NoCache
    <2>7. BuffersAreBacked'
      <3> SUFFICES ASSUME NEW m \in Linker, NEW t \in Tx
                   PROVE  IF newLinks'[m][t] = NoInstr THEN newTickers'[m][t] = NoTicker
                                                       ELSE Backed(m, t)'
        BY DEF BuffersAreBacked
      <3>1. CASE m = l
        BY <2>2, <3>1 DEF NoLinks, NoTickers
      <3>2. CASE m # l /\ newLinks[m][t] = NoInstr
        BY <2>1, <3>2 DEF IInv, BuffersAreBacked
      <3>3. CASE m # l /\ newLinks[m][t] # NoInstr
        <4>1. newLinks[m][t] \in Instr
          BY <3>3 DEF IInv, TypeOK
        <4>2. PICK q \in Release : \E d \in Resolve(q, t) :
                /\ Justified(q, t, d) \/ PassesOver(q, t, d)
                /\ d.cik \in Cik /\ d.ticker \in Ticker
                /\ HasCik(m, newLinks[m][t], d.cik)
                /\ HasRow(m, newLinks[m][t], d.ticker)
                /\ newTickers[m][t] = FillIn(t, d)
          BY <3>3 DEF IInv, BuffersAreBacked, Backed
        <4>3. PICK d \in Resolve(q, t) :
                /\ Justified(q, t, d) \/ PassesOver(q, t, d)
                /\ d.cik \in Cik /\ d.ticker \in Ticker
                /\ HasCik(m, newLinks[m][t], d.cik)
                /\ HasRow(m, newLinks[m][t], d.ticker)
                /\ newTickers[m][t] = FillIn(t, d)
          BY <4>2
        <4>4. /\ newLinks'[m][t] = newLinks[m][t] /\ newTickers'[m][t] = newTickers[m][t]
              /\ HasCik(m, newLinks[m][t], d.cik)' /\ HasRow(m, newLinks[m][t], d.ticker)'
          BY <2>1, <2>3, <2>4, <3>3, <4>1, <4>3 DEF HasCik, HasRow
        <4> QED
          BY <3>3, <4>3, <4>4 DEF Backed
      <3> QED
        BY <3>1, <3>2, <3>3
    <2> QED
      BY <2>5, <2>6, <2>7
  <1>4. CASE RollBack(l)
    <2>1. UNCHANGED <<link, ticker, issues, cik, mapped>>
      BY <1>4 DEF RollBack, tableVars
    <2>2. TypeOK'
      BY <1>1, <1>2, <2>1 DEF IInv, TypeOK
    <2>3. Grown
      BY <2>1 DEF IInv, IdsAreFresh
    <2>4. LinkIsResolved'
      BY <2>1 DEF IInv, LinkIsResolved
    <2> QED
      BY <1>3, <2>2, <2>3, <2>4 DEF IInv
  <1>5. CASE Commit(l)
    <2>1. /\ link' = [t \in Tx |-> IF newLinks[l][t] # NoInstr THEN newLinks[l][t] ELSE link[t]]
          /\ ticker' = [t \in Tx |->
                          IF newTickers[l][t] # NoTicker THEN newTickers[l][t] ELSE ticker[t]]
          /\ issues' = [t \in Tx |-> issues[t] + IF t \in newFlags[l] THEN 1 ELSE 0]
          /\ cik' = [i \in Instr |-> IF newInstr[l][i] # NoCik THEN newInstr[l][i] ELSE cik[i]]
          /\ mapped' = [i \in Instr |-> [k \in Ticker |->
                          mapped[i][k] + IF <<i, k>> \in newKeys[l] THEN 1 ELSE 0]]
      BY <1>5 DEF Commit
    <2>2. TypeOK'
      <3>1. /\ link' \in [Tx -> Instr \cup {NoInstr}]
            /\ ticker' \in [Tx -> Ticker \cup {NoTicker}]
            /\ cik' \in [Instr -> Cik \cup {NoCik}]
        BY <2>1 DEF IInv, TypeOK
      <3>2. issues' \in [Tx -> Nat]
        BY <2>1 DEF IInv, TypeOK
      <3>3. mapped' \in [Instr -> [Ticker -> Nat]]
        BY <2>1 DEF IInv, TypeOK
      <3> QED
        BY <1>1, <1>2, <3>1, <3>2, <3>3 DEF IInv, TypeOK
    <2>3. Grown
      <3>1. \A i \in Instr, d \in Cik : cik[i] = d => cik'[i] = d
        BY <2>1, TickerAssumption DEF IInv, IdsAreFresh
      <3>2. \A i \in Instr, k \in Ticker : mapped[i][k] > 0 => mapped'[i][k] > 0
        BY <2>1 DEF IInv, TypeOK
      <3>3. \A i \in Instr, m \in Linker \ {l} : newInstr[m][i] # NoCik => cik'[i] = NoCik
        BY <2>1 DEF IInv, IdsAreFresh
      <3> QED
        BY <3>1, <3>2, <3>3
    <2>4. ASSUME NEW t \in Tx, newLinks[l][t] # NoInstr
          PROVE  \E r \in Release : \E c \in Resolve(r, t) :
                    /\ Justified(r, t, c) \/ PassesOver(r, t, c)
                    /\ cik'[link'[t]] = c.cik
                    /\ mapped'[link'[t]][c.ticker] > 0
                    /\ ticker'[t] = IF Parsed[t] = NoTicker THEN c.ticker ELSE Parsed[t]
      <3>1. PICK r \in Release : \E c \in Resolve(r, t) :
              /\ Justified(r, t, c) \/ PassesOver(r, t, c)
              /\ c.cik \in Cik /\ c.ticker \in Ticker
              /\ HasCik(l, newLinks[l][t], c.cik)
              /\ HasRow(l, newLinks[l][t], c.ticker)
              /\ newTickers[l][t] = FillIn(t, c)
        BY <2>4 DEF IInv, BuffersAreBacked, Backed
      <3>2. PICK c \in Resolve(r, t) :
              /\ Justified(r, t, c) \/ PassesOver(r, t, c)
              /\ c.cik \in Cik /\ c.ticker \in Ticker
              /\ HasCik(l, newLinks[l][t], c.cik)
              /\ HasRow(l, newLinks[l][t], c.ticker)
              /\ newTickers[l][t] = FillIn(t, c)
        BY <3>1
      <3>3. link'[t] = newLinks[l][t] /\ link'[t] \in Instr
        BY <2>1, <2>4 DEF IInv, TypeOK
      <3>4. cik'[link'[t]] = c.cik
        <4>1. c.cik # NoCik
          BY <3>2, TickerAssumption
        <4>2. CASE cik[link'[t]] = c.cik
          BY <2>3, <3>2, <3>3, <4>2
        <4>3. CASE newInstr[l][link'[t]] = c.cik
          BY <2>1, <3>3, <4>1, <4>3
        <4> QED
          BY <3>2, <3>3, <4>2, <4>3 DEF HasCik
      <3>5. mapped'[link'[t]][c.ticker] > 0
        <4>1. mapped[link'[t]][c.ticker] \in Nat
          BY <3>2, <3>3 DEF IInv, TypeOK
        <4> QED
          BY <2>1, <2>3, <3>2, <3>3, <4>1 DEF HasRow
      <3>6. ticker'[t] = IF Parsed[t] = NoTicker THEN c.ticker ELSE Parsed[t]
        <4>1. Parsed[t] # NoTicker => ticker[t] = Parsed[t]
          BY DEF IInv, LinkIsResolved
        <4> QED
          BY <2>1, <3>2, <4>1, TickerAssumption DEF FillIn
      <3> QED
        BY <3>2, <3>4, <3>5, <3>6
    <2>5. ASSUME NEW t \in Tx, newLinks[l][t] = NoInstr, link[t] # NoInstr
          PROVE  \E r \in Release : \E c \in Resolve(r, t) :
                    /\ Justified(r, t, c) \/ PassesOver(r, t, c)
                    /\ cik'[link'[t]] = c.cik
                    /\ mapped'[link'[t]][c.ticker] > 0
                    /\ ticker'[t] = IF Parsed[t] = NoTicker THEN c.ticker ELSE Parsed[t]
      <3>1. link'[t] = link[t] /\ ticker'[t] = ticker[t] /\ link[t] \in Instr
        BY <2>1, <2>5 DEF IInv, TypeOK, BuffersAreBacked
      <3>2. PICK r \in Release : \E c \in Resolve(r, t) :
              /\ Justified(r, t, c) \/ PassesOver(r, t, c)
              /\ cik[link[t]] = c.cik
              /\ mapped[link[t]][c.ticker] > 0
              /\ ticker[t] = IF Parsed[t] = NoTicker THEN c.ticker ELSE Parsed[t]
        BY <2>5 DEF IInv, LinkIsResolved
      <3>3. PICK c \in Resolve(r, t) :
              /\ Justified(r, t, c) \/ PassesOver(r, t, c)
              /\ cik[link[t]] = c.cik
              /\ mapped[link[t]][c.ticker] > 0
              /\ ticker[t] = IF Parsed[t] = NoTicker THEN c.ticker ELSE Parsed[t]
        BY <3>2
      <3>4. c.cik \in Cik /\ c.ticker \in Ticker
        BY ResolvedIsJustified
      <3> QED
        BY <2>3, <3>1, <3>3, <3>4
    <2>6. ASSUME NEW t \in Tx, link'[t] = NoInstr
          PROVE  ticker'[t] = Parsed[t]
      <3>1. newLinks[l][t] = NoInstr /\ link[t] = NoInstr
        BY <2>1, <2>6
      <3> QED
        BY <2>1, <3>1 DEF IInv, BuffersAreBacked, LinkIsResolved
    <2>7. LinkIsResolved'
      <3>1. \A t \in Tx : link'[t] # NoInstr => newLinks[l][t] # NoInstr \/ link[t] # NoInstr
        BY <2>1
      <3> QED
        BY <2>4, <2>5, <2>6, <3>1 DEF LinkIsResolved
    <2> QED
      BY <1>3, <2>2, <2>3, <2>7 DEF IInv
  <1> QED
    BY <1>4, <1>5

\* The invariant is inductive.
LEMMA NextIInv == IInv /\ [Next]_vars => IInv'
  <1> SUFFICES ASSUME IInv, [Next]_vars PROVE IInv'
    OBVIOUS
  <1>1. CASE \E t \in Tx : Save(t)
    BY <1>1, SaveKeepsIInv
  <1>2. ASSUME NEW l \in Linker, LinkStep(l) PROVE IInv'
    BY <1>2, ReadKeepsIInv, FlagKeepsIInv, LinkKeepsIInv, EndKeepsIInv DEF LinkStep
  <1>3. CASE UNCHANGED vars
    <2>1. TypeOK'
      BY <1>3 DEF vars, IInv, TypeOK
    <2>2. BuffersAreBacked'
      BY <1>3 DEF vars, IInv, BuffersAreBacked, Backed, HasCik, HasRow
    <2>3. CachesAreTrue' /\ IdsAreFresh'
      BY <1>3 DEF vars, IInv, CachesAreTrue, HasCik, HasRow, IdsAreFresh
    <2>4. LinkIsResolved'
      BY <1>3 DEF vars, IInv, LinkIsResolved
    <2> QED
      BY <2>1, <2>2, <2>3, <2>4 DEF IInv
  <1> QED
    BY <1>1, <1>2, <1>3 DEF Next

\* The invariant holds in every reachable state.
THEOREM Invariance == Spec => []IInv
  BY InitIInv, NextIInv, PTL DEF Spec

\* The tables and every linker's caches and buffers keep their types.
THEOREM TypeCorrect == Spec => []TypeOK
  <1>1. IInv => TypeOK
    BY DEF IInv
  <1> QED
    BY <1>1, Invariance, PTL

\* However runs of linkers overlap and overwrite each other, a transaction's
\* instrument, a ticker_map row and its ticker belong to one company that the
\* rules of some commit allow (link_pending_transactions, _resolve).
THEOREM Resolved == Spec => []LinkIsResolved
  <1>1. IInv => LinkIsResolved
    BY DEF IInv
  <1> QED
    BY <1>1, Invariance, PTL

-----------------------------------------------------------------------------
(***************************************************************************)
(* How many instruments a company gets, and rows of ticker_map they get.   *)
(***************************************************************************)

Of(c) == {i \in Instr : cik[i] = c}

\* The runs that know no instrument of c, or have buffered one.
MayCreate(c) ==
    {l \in Linker : /\ phase[l] \in {"instruments", "keys", "batch"}
                    /\ byCik[l][c] = NoInstr \/ \E i \in Instr : newInstr[l][i] = c}

\* The runs that know no row of i and k, or have buffered one.
MayMap(i, k) ==
    {l \in Linker : /\ phase[l] \in {"keys", "batch"}
                    /\ <<i, k>> \notin keys[l] \/ <<i, k>> \in newKeys[l]}

\* A buffer is a batch's, and has one instrument for a company, the cached one.
BuffersAreCached ==
    /\ \A l \in Linker, i \in Instr, c \in Cik : newInstr[l][i] = c =>
          phase[l] = "batch" /\ byCik[l][c] = i
    /\ \A l \in Linker : newKeys[l] # {} => phase[l] = "batch"

InstrumentsCounted(c) ==
    IsFiniteSet(Of(c)) /\ Cardinality(Of(c)) + Cardinality(MayCreate(c)) <= Cardinality(Linker)

RowsCounted(i, k) == mapped[i][k] + Cardinality(MayMap(i, k)) <= Cardinality(Linker)

RowInv ==
    /\ BuffersAreCached
    /\ \A c \in Cik : InstrumentsCounted(c)
    /\ \A i \in Instr, k \in Ticker : RowsCounted(i, k)

\* Sets of linkers have sizes, and no more members than there are linkers.
LEMMA LinkersCounted ==
    ASSUME NEW S \in SUBSET Linker
    PROVE  /\ IsFiniteSet(S) /\ Cardinality(S) \in Nat
           /\ Cardinality(Linker) \in Nat /\ Cardinality(S) <= Cardinality(Linker)
  BY FS_Subset, FS_CardinalityType, TickerAssumption

\* No rows, and no run has begun.
LEMMA InitRowInv == Init => RowInv
  <1> SUFFICES ASSUME Init PROVE RowInv
    OBVIOUS
  <1>1. BuffersAreCached
    BY TickerAssumption DEF Init, BuffersAreCached, NoRows
  <1>2. ASSUME NEW c \in Cik PROVE InstrumentsCounted(c)
    <2>1. Of(c) = {}
      BY TickerAssumption DEF Init, Of, NoRows
    <2>2. MayCreate(c) \in SUBSET Linker
      BY DEF MayCreate
    <2> QED
      BY <2>1, <2>2, FS_EmptySet, LinkersCounted DEF InstrumentsCounted
  <1>3. ASSUME NEW i \in Instr, NEW k \in Ticker PROVE RowsCounted(i, k)
    <2>1. mapped[i][k] = 0 /\ MayMap(i, k) \in SUBSET Linker
      BY DEF Init, MayMap
    <2> QED
      BY <2>1, LinkersCounted DEF RowsCounted
  <1> QED
    BY <1>1, <1>2, <1>3 DEF RowInv

\* Where c gets no instrument and no run comes to know of none, the count stands.
LEMMA InstrumentsStayCounted ==
    ASSUME RowInv, NEW c \in Cik, Of(c)' = Of(c), MayCreate(c)' \subseteq MayCreate(c)
    PROVE  InstrumentsCounted(c)'
  <1>1. MayCreate(c) \in SUBSET Linker /\ MayCreate(c)' \in SUBSET Linker
    BY DEF MayCreate
  <1>2. Cardinality(MayCreate(c)') <= Cardinality(MayCreate(c))
    BY <1>1, LinkersCounted, FS_Subset
  <1>3. /\ IsFiniteSet(Of(c)) /\ Cardinality(Of(c)) \in Nat
        /\ Cardinality(Of(c)) + Cardinality(MayCreate(c)) <= Cardinality(Linker)
    BY FS_CardinalityType DEF RowInv, InstrumentsCounted
  <1>4. Cardinality(Of(c)) + Cardinality(MayCreate(c)') <= Cardinality(Linker)
    BY <1>1, <1>2, <1>3, LinkersCounted
  <1> QED
    BY <1>3, <1>4 DEF InstrumentsCounted

\* The same of the rows of ticker_map.
LEMMA RowsStayCounted ==
    ASSUME TypeOK, RowInv, NEW i \in Instr, NEW k \in Ticker,
           mapped'[i][k] = mapped[i][k], MayMap(i, k)' \subseteq MayMap(i, k)
    PROVE  RowsCounted(i, k)'
  <1>1. MayMap(i, k) \in SUBSET Linker /\ MayMap(i, k)' \in SUBSET Linker
    BY DEF MayMap
  <1>2. Cardinality(MayMap(i, k)') <= Cardinality(MayMap(i, k))
    BY <1>1, LinkersCounted, FS_Subset
  <1>3. mapped[i][k] \in Nat /\ mapped[i][k] + Cardinality(MayMap(i, k)) <= Cardinality(Linker)
    BY DEF TypeOK, RowInv, RowsCounted
  <1> QED
    BY <1>1, <1>2, <1>3, LinkersCounted DEF RowsCounted

\* instrument_by_cik has every company that has an instrument.
LEMMA ReadInstrumentsKeepsRowInv ==
    ASSUME TypeOK, RowInv, NEW l \in Linker, ReadInstruments(l)
    PROVE  RowInv'
  <1>1. PICK f \in Caches : byCik' = [byCik EXCEPT ![l] = f]
    BY DEF ReadInstruments
  <1>2. /\ phase[l] = "flags" /\ phase' = [phase EXCEPT ![l] = "instruments"]
        /\ UNCHANGED <<cik, mapped, keys, newInstr, newKeys>>
    BY DEF ReadInstruments, Goto, tableVars, writeVars
  <1>3. /\ byCik'[l] = f /\ phase'[l] = "instruments"
        /\ \A m \in Linker \ {l} : byCik'[m] = byCik[m] /\ phase'[m] = phase[m]
    BY <1>1, <1>2 DEF TypeOK
  <1>4. BuffersAreCached'
    BY <1>2, <1>3 DEF RowInv, BuffersAreCached
  <1>5. ASSUME NEW c \in Cik PROVE InstrumentsCounted(c)'
    <2>1. Of(c)' = Of(c)
      BY <1>2 DEF Of
    <2>2. CASE Of(c) = {}
      <3>1. MayCreate(c)' \in SUBSET Linker
        BY DEF MayCreate
      <3> QED
        BY <2>1, <2>2, <3>1, FS_EmptySet, LinkersCounted DEF InstrumentsCounted
    <2>3. CASE Of(c) # {}
      <3>1. f[c] # NoInstr
        BY <2>3, TickerAssumption DEF Caches, Instruments, Of
      <3>2. \A i \in Instr : newInstr[l][i] # c
        BY <1>2 DEF RowInv, BuffersAreCached
      <3>3. MayCreate(c)' \subseteq MayCreate(c)
        BY <1>2, <1>3, <3>1, <3>2 DEF MayCreate
      <3> QED
        BY <2>1, <3>3, InstrumentsStayCounted
    <2> QED
      BY <2>2, <2>3
  <1>6. ASSUME NEW i \in Instr, NEW k \in Ticker PROVE RowsCounted(i, k)'
    <2>1. MayMap(i, k)' \subseteq MayMap(i, k)
      BY <1>2, <1>3 DEF MayMap
    <2> QED
      BY <1>2, <2>1, RowsStayCounted
  <1> QED
    BY <1>4, <1>5, <1>6 DEF RowInv

\* ticker_map_keys has every row there is.
LEMMA ReadKeysKeepsRowInv ==
    ASSUME TypeOK, RowInv, NEW l \in Linker, ReadKeys(l)
    PROVE  RowInv'
  <1>1. /\ phase[l] = "instruments" /\ phase' = [phase EXCEPT ![l] = "keys"]
        /\ keys' = [keys EXCEPT ![l] = {m \in Instr \X Ticker : mapped[m[1]][m[2]] > 0}]
        /\ UNCHANGED <<cik, mapped, byCik, newInstr, newKeys>>
    BY DEF ReadKeys, Goto, tableVars, writeVars
  <1>2. /\ keys'[l] = {m \in Instr \X Ticker : mapped[m[1]][m[2]] > 0} /\ phase'[l] = "keys"
        /\ \A m \in Linker \ {l} : keys'[m] = keys[m] /\ phase'[m] = phase[m]
    BY <1>1 DEF TypeOK
  <1>3. BuffersAreCached'
    BY <1>1, <1>2 DEF RowInv, BuffersAreCached
  <1>4. ASSUME NEW c \in Cik PROVE InstrumentsCounted(c)'
    <2>1. Of(c)' = Of(c) /\ MayCreate(c)' \subseteq MayCreate(c)
      BY <1>1, <1>2 DEF Of, MayCreate
    <2> QED
      BY <2>1, InstrumentsStayCounted
  <1>5. ASSUME NEW i \in Instr, NEW k \in Ticker PROVE RowsCounted(i, k)'
    <2>1. mapped[i][k] \in Nat /\ mapped'[i][k] = mapped[i][k]
      BY <1>1 DEF TypeOK
    <2>2. CASE mapped[i][k] = 0
      <3>1. MayMap(i, k)' \in SUBSET Linker
        BY DEF MayMap
      <3> QED
        BY <2>1, <2>2, <3>1, LinkersCounted DEF RowsCounted
    <2>3. CASE mapped[i][k] > 0
      <3>1. <<i, k>> \in keys'[l]
        BY <1>2, <2>3
      <3>2. newKeys[l] = {}
        BY <1>1 DEF RowInv, BuffersAreCached
      <3>3. MayMap(i, k)' \subseteq MayMap(i, k)
        BY <1>1, <1>2, <3>1, <3>2 DEF MayMap
      <3> QED
        BY <2>1, <3>3, RowsStayCounted
    <2> QED
      BY <2>1, <2>2, <2>3
  <1> QED
    BY <1>3, <1>4, <1>5 DEF RowInv

\* A link buffers an instrument or a row only where none was known, and makes
\* it known.
LEMMA LinkKeepsRowInv ==
    ASSUME IInv, RowInv, NEW l \in Linker, NEW t \in Tx, Link(l, t)
    PROVE  RowInv'
  <1>1. PICK company \in Resolve(release[l], t) : \E i \in Chosen(l, company.cik) :
            /\ WriteLink(l, t, i, company)
            /\ newInstr' = IF byCik[l][company.cik] = NoInstr
                           THEN [newInstr EXCEPT ![l][i] = company.cik] ELSE newInstr
            /\ byCik' = [byCik EXCEPT ![l][company.cik] = i]
    BY DEF Link
  <1> DEFINE c == company.cik
             k == company.ticker
  <1>2. PICK i \in Chosen(l, c) :
            /\ WriteLink(l, t, i, company)
            /\ newInstr' = IF byCik[l][c] = NoInstr
                           THEN [newInstr EXCEPT ![l][i] = c] ELSE newInstr
            /\ byCik' = [byCik EXCEPT ![l][c] = i]
    BY <1>1
  <1>3. c \in Cik /\ k \in Ticker
    BY ResolvedIsJustified DEF IInv, TypeOK
  <1>4. /\ i \in Instr
        /\ byCik[l][c] # NoInstr => i = byCik[l][c]
        /\ byCik[l][c] = NoInstr => i \in Unused
    BY <1>2, <1>3, ChosenHasCik
  <1>5. phase[l] = "batch" /\ UNCHANGED <<cik, mapped, phase>>
    BY DEF Link, LookAt, tableVars
  <1>6. /\ newKeys' = [newKeys EXCEPT ![l] = IF <<i, k>> \in keys[l] THEN @ ELSE @ \cup {<<i, k>>}]
        /\ keys' = [keys EXCEPT ![l] = @ \cup {<<i, k>>}]
    BY <1>2 DEF WriteLink
  <1> HIDE DEF c, k
  <1>7. /\ byCik'[l][c] = i
        /\ \A m \in Linker, d \in Cik : m # l \/ d # c => byCik'[m][d] = byCik[m][d]
    BY <1>2, <1>3 DEF IInv, TypeOK
  <1>8. /\ byCik[l][c] = NoInstr => newInstr'[l][i] = c /\ newInstr[l][i] = NoCik
        /\ byCik[l][c] # NoInstr => newInstr'[l][i] = newInstr[l][i]
        /\ \A m \in Linker, j \in Instr : m # l \/ j # i => newInstr'[m][j] = newInstr[m][j]
    BY <1>2, <1>4 DEF IInv, TypeOK, Unused
  <1>9. BuffersAreCached'
    <2>1. ASSUME NEW m \in Linker, NEW j \in Instr, NEW d \in Cik, newInstr'[m][j] = d
          PROVE  phase'[m] = "batch" /\ byCik'[m][d] = j
      <3>1. CASE newInstr[m][j] = d
        <4>1. phase[m] = "batch" /\ byCik[m][d] = j
          BY <3>1 DEF RowInv, BuffersAreCached
        <4>2. m = l /\ d = c => j = i
          BY <1>4, <4>1, TickerAssumption
        <4> QED
          BY <1>5, <1>7, <4>1, <4>2
      <3>2. CASE newInstr[m][j] # d
        <4>1. m = l /\ j = i /\ d = c
          BY <1>8, <2>1, <3>2
        <4> QED
          BY <1>5, <1>7, <4>1
      <3> QED
        BY <3>1, <3>2
    <2>2. \A m \in Linker : newKeys'[m] # {} => phase'[m] = "batch"
      BY <1>5, <1>6 DEF RowInv, BuffersAreCached, IInv, TypeOK
    <2> QED
      BY <2>1, <2>2 DEF BuffersAreCached
  <1>10. ASSUME NEW d \in Cik PROVE InstrumentsCounted(d)'
    <2>1. Of(d)' = Of(d)
      BY <1>5 DEF Of
    <2>2. ASSUME NEW m \in Linker, m \in MayCreate(d)'
          PROVE  m \in MayCreate(d)
      <3>1. phase[m] \in {"instruments", "keys", "batch"}
        BY <1>5, <2>2 DEF MayCreate
      <3>2. CASE byCik'[m][d] = NoInstr
        <4>1. byCik[m][d] = NoInstr
          BY <1>4, <1>7, <3>2, TickerAssumption
        <4> QED
          BY <3>1, <4>1 DEF MayCreate
      <3>3. CASE \E j \in Instr : newInstr'[m][j] = d
        <4>1. PICK j \in Instr : newInstr'[m][j] = d
          BY <3>3
        <4>2. CASE newInstr[m][j] = d
          BY <3>1, <4>2 DEF MayCreate
        <4>3. CASE newInstr[m][j] # d
          <5>1. m = l /\ d = c /\ byCik[l][c] = NoInstr
            BY <1>8, <4>1, <4>3
          <5> QED
            BY <3>1, <5>1 DEF MayCreate
        <4> QED
          BY <4>2, <4>3
      <3> QED
        BY <2>2, <3>2, <3>3 DEF MayCreate
    <2>3. MayCreate(d)' \subseteq MayCreate(d)
      BY <2>2 DEF MayCreate
    <2> QED
      BY <2>1, <2>3, InstrumentsStayCounted
  <1>11. ASSUME NEW j \in Instr, NEW n \in Ticker PROVE RowsCounted(j, n)'
    <2>1. MayMap(j, n)' \subseteq MayMap(j, n)
      BY <1>5, <1>6 DEF MayMap, IInv, TypeOK
    <2> QED
      BY <1>5, <2>1, RowsStayCounted DEF IInv
  <1> QED
    BY <1>9, <1>10, <1>11 DEF RowInv

\* A run that ends adds what it has buffered, and may add no more.
LEMMA EndKeepsRowInv ==
    ASSUME IInv, RowInv, NEW l \in Linker, Commit(l) \/ RollBack(l)
    PROVE  RowInv'
  <1>1. /\ phase'[l] = "idle" /\ newInstr'[l] = NoRows /\ newKeys'[l] = {}
        /\ \A m \in Linker \ {l} :
              /\ phase'[m] = phase[m] /\ byCik'[m] = byCik[m] /\ keys'[m] = keys[m]
              /\ newInstr'[m] = newInstr[m] /\ newKeys'[m] = newKeys[m]
    BY DEF Commit, RollBack, EndLink, Goto, IInv, TypeOK
  <1>2. BuffersAreCached'
    <2>1. ASSUME NEW m \in Linker, NEW i \in Instr, NEW c \in Cik, newInstr'[m][i] = c
          PROVE  phase'[m] = "batch" /\ byCik'[m][c] = i
      <3>1. newInstr'[l][i] # c
        BY <1>1, TickerAssumption DEF NoRows
      <3>2. m \in Linker \ {l}
        BY <2>1, <3>1
      <3>3. newInstr[m][i] = c
        BY <1>1, <2>1, <3>2
      <3> QED
        BY <1>1, <3>2, <3>3 DEF RowInv, BuffersAreCached
    <2>2. \A m \in Linker : newKeys'[m] # {} => phase'[m] = "batch"
      BY <1>1 DEF RowInv, BuffersAreCached
    <2> QED
      BY <2>1, <2>2 DEF BuffersAreCached
  <1>3. \A c \in Cik : MayCreate(c)' = MayCreate(c) \ {l}
    BY <1>1 DEF MayCreate
  <1>4. \A i \in Instr, k \in Ticker : MayMap(i, k)' = MayMap(i, k) \ {l}
    BY <1>1 DEF MayMap
  <1>5. CASE RollBack(l)
    <2>1. UNCHANGED <<cik, mapped>>
      BY <1>5 DEF RollBack, tableVars
    <2>2. \A c \in Cik : InstrumentsCounted(c)'
      BY <1>3, <2>1, InstrumentsStayCounted DEF Of
    <2>3. \A i \in Instr, k \in Ticker : RowsCounted(i, k)'
      BY <1>4, <2>1, RowsStayCounted DEF IInv
    <2> QED
      BY <1>2, <2>2, <2>3 DEF RowInv
  <1>6. CASE Commit(l)
    <2>1. /\ phase[l] = "batch"
          /\ cik' = [i \in Instr |-> IF newInstr[l][i] # NoCik THEN newInstr[l][i] ELSE cik[i]]
          /\ mapped' = [i \in Instr |-> [k \in Ticker |->
                          mapped[i][k] + IF <<i, k>> \in newKeys[l] THEN 1 ELSE 0]]
      BY <1>6 DEF Commit
    <2>2. ASSUME NEW c \in Cik PROVE InstrumentsCounted(c)'
      <3>1. \A i \in Instr : cik'[i] = c <=> cik[i] = c \/ newInstr[l][i] = c
        BY <2>1, TickerAssumption DEF IInv, IdsAreFresh
      <3>2. CASE \A i \in Instr : newInstr[l][i] # c
        BY <1>3, <3>1, <3>2, InstrumentsStayCounted DEF Of
      <3>3. CASE \E i \in Instr : newInstr[l][i] = c
        <4>1. PICK i \in Instr : newInstr[l][i] = c
          BY <3>3
        <4>2. \A j \in Instr : newInstr[l][j] = c => j = i
          BY <4>1 DEF RowInv, BuffersAreCached
        <4>3. Of(c)' = Of(c) \cup {i} /\ i \notin Of(c)
          BY <3>1, <4>1, <4>2, TickerAssumption DEF Of, IInv, IdsAreFresh
        <4>4. l \in MayCreate(c) /\ MayCreate(c) \in SUBSET Linker
          BY <2>1, <4>1 DEF MayCreate
        <4>5. Cardinality(MayCreate(c)') = Cardinality(MayCreate(c)) - 1
          BY <1>3, <4>4, LinkersCounted, FS_RemoveElement
        <4>6. /\ IsFiniteSet(Of(c)) /\ Cardinality(Of(c)) \in Nat
              /\ Cardinality(Of(c)) + Cardinality(MayCreate(c)) <= Cardinality(Linker)
          BY FS_CardinalityType DEF RowInv, InstrumentsCounted
        <4>7. IsFiniteSet(Of(c)') /\ Cardinality(Of(c)') = Cardinality(Of(c)) + 1
          BY <4>3, <4>6, FS_AddElement
        <4>8. Cardinality(Of(c)') + Cardinality(MayCreate(c)') <= Cardinality(Linker)
          BY <4>4, <4>5, <4>6, <4>7, LinkersCounted
        <4> QED
          BY <4>7, <4>8 DEF InstrumentsCounted
      <3> QED
        BY <3>2, <3>3
    <2>3. ASSUME NEW i \in Instr, NEW k \in Ticker PROVE RowsCounted(i, k)'
      <3>1. mapped[i][k] \in Nat
        BY DEF IInv, TypeOK
      <3>2. CASE <<i, k>> \notin newKeys[l]
        <4>1. mapped'[i][k] = mapped[i][k]
          BY <2>1, <3>1, <3>2
        <4> QED
          BY <1>4, <4>1, RowsStayCounted DEF IInv
      <3>3. CASE <<i, k>> \in newKeys[l]
        <4>1. mapped'[i][k] = mapped[i][k] + 1
          BY <2>1, <3>3
        <4>2. l \in MayMap(i, k) /\ MayMap(i, k) \in SUBSET Linker
          BY <2>1, <3>3 DEF MayMap
        <4>3. Cardinality(MayMap(i, k)') = Cardinality(MayMap(i, k)) - 1
          BY <1>4, <4>2, LinkersCounted, FS_RemoveElement
        <4>4. mapped[i][k] + Cardinality(MayMap(i, k)) <= Cardinality(Linker)
          BY DEF RowInv, RowsCounted
        <4> QED
          BY <3>1, <4>1, <4>2, <4>3, <4>4, LinkersCounted DEF RowsCounted
      <3> QED
        BY <3>2, <3>3
    <2> QED
      BY <1>2, <2>2, <2>3 DEF RowInv
  <1> QED
    BY <1>5, <1>6

\* Every other step leaves rows, caches and buffers of rows as they are.
LEMMA NextRowInv == IInv /\ RowInv /\ [Next]_vars => RowInv'
  <1> SUFFICES ASSUME IInv, RowInv, [Next]_vars PROVE RowInv'
    OBVIOUS
  <1>1. ASSUME UNCHANGED <<cik, mapped, byCik, keys, newInstr, newKeys>>,
               \A m \in Linker :
                  /\ phase[m] = "batch" => phase'[m] = "batch"
                  /\ phase'[m] \in {"instruments", "keys", "batch"} =>
                        phase[m] \in {"instruments", "keys", "batch"}
                  /\ phase'[m] \in {"keys", "batch"} => phase[m] \in {"keys", "batch"}
        PROVE  RowInv'
    <2>1. BuffersAreCached'
      BY <1>1 DEF RowInv, BuffersAreCached
    <2>2. ASSUME NEW c \in Cik PROVE InstrumentsCounted(c)'
      <3>1. Of(c)' = Of(c) /\ MayCreate(c)' \subseteq MayCreate(c)
        BY <1>1 DEF Of, MayCreate
      <3> QED
        BY <3>1, InstrumentsStayCounted
    <2>3. ASSUME NEW i \in Instr, NEW k \in Ticker PROVE RowsCounted(i, k)'
      <3>1. MayMap(i, k)' \subseteq MayMap(i, k)
        BY <1>1 DEF MayMap
      <3> QED
        BY <1>1, <3>1, RowsStayCounted DEF IInv
    <2> QED
      BY <2>1, <2>2, <2>3 DEF RowInv
  <1>2. CASE \E t \in Tx : Save(t)
    BY <1>1, <1>2 DEF Save, readVars, writeVars
  <1>3. ASSUME NEW l \in Linker, BeginLink(l) PROVE RowInv'
    <2>1. /\ phase[l] = "idle" /\ phase' = [phase EXCEPT ![l] = "flags"]
          /\ UNCHANGED <<cik, mapped, byCik, keys, newInstr, newKeys>>
      BY <1>3 DEF BeginLink, Goto, tableVars, writeVars
    <2> QED
      BY <1>1, <2>1 DEF IInv, TypeOK
  <1>4. ASSUME NEW l \in Linker, SelectPending(l) PROVE RowInv'
    <2>1. /\ phase[l] = "keys" /\ phase' = [phase EXCEPT ![l] = "batch"]
          /\ UNCHANGED <<cik, mapped, byCik, keys, newInstr, newKeys>>
      BY <1>4 DEF SelectPending, Goto, tableVars, readVars, writeVars
    <2> QED
      BY <1>1, <2>1 DEF IInv, TypeOK
  <1>5. ASSUME NEW l \in Linker, NEW t \in Tx, Flag(l, t) PROVE RowInv'
    BY <1>1, <1>5 DEF Flag, LookAt, tableVars
  <1>6. CASE UNCHANGED vars
    BY <1>1, <1>6 DEF vars
  <1> QED
    BY <1>2, <1>3, <1>4, <1>5, <1>6, ReadInstrumentsKeepsRowInv, ReadKeysKeepsRowInv,
       LinkKeepsRowInv, EndKeepsRowInv DEF Next, LinkStep, IInv

\* The tables have no key that would keep a company to one instrument, or an
\* instrument to one row per ticker: it is the caches that do, up to one for
\* each linker that may run beside the others, however often they run.
THEOREM InstrumentsBounded == Spec => []InstrumentsAreBounded
  <1>1. Init => IInv /\ RowInv
    BY InitIInv, InitRowInv
  <1>2. ASSUME IInv, RowInv PROVE InstrumentsAreBounded
    <2>1. ASSUME NEW c \in Cik
          PROVE  Cardinality({i \in Instruments : cik[i] = c}) <= Cardinality(Linker)
      <3>1. {i \in Instruments : cik[i] = c} = Of(c)
        BY TickerAssumption DEF Instruments, Of
      <3>2. MayCreate(c) \in SUBSET Linker
        BY DEF MayCreate
      <3>3. /\ Cardinality(Of(c)) \in Nat
            /\ Cardinality(Of(c)) + Cardinality(MayCreate(c)) <= Cardinality(Linker)
        BY <1>2, FS_CardinalityType DEF RowInv, InstrumentsCounted
      <3>4. Cardinality(Of(c)) <= Cardinality(Linker)
        BY <3>2, <3>3, LinkersCounted
      <3> QED
        BY <3>1, <3>4
    <2>2. ASSUME NEW i \in Instr, NEW k \in Ticker
          PROVE  mapped[i][k] <= Cardinality(Linker)
      <3>1. MayMap(i, k) \in SUBSET Linker
        BY DEF MayMap
      <3>2. mapped[i][k] \in Nat /\ mapped[i][k] + Cardinality(MayMap(i, k)) <= Cardinality(Linker)
        BY <1>2 DEF IInv, TypeOK, RowInv, RowsCounted
      <3> QED
        BY <3>1, <3>2, LinkersCounted
    <2> QED
      BY <2>1, <2>2 DEF InstrumentsAreBounded
  <1>3. Spec => []RowInv
    BY <1>1, NextRowInv, Invariance, PTL DEF Spec
  <1> QED
    BY <1>2, <1>3, Invariance, PTL

=============================================================================
