--------------------------- MODULE FormConventions ---------------------------
(***************************************************************************)
(* How the House prints what is reported: which lines of a form belong to  *)
(* which of its rows, and what each of them adds to the row.  It is said   *)
(* of the lines as they stand, with none of the flags that the loops of    *)
(* HouseForms carry from line to line, and is what they have to agree with.*)
(***************************************************************************)
EXTENDS HouseForms

\* A value begins at most so much to the left of its column's header.
PrintMargin == 3

\* After each line from s on, the text of s and of those of `further` so far.
Joined(text, s, further, n) ==
    LET upTo[i \in s..n] ==
            IF i = s THEN text[i]
            ELSE IF i \in further THEN upTo[i - 1] \o text[i] ELSE upTo[i - 1]
    IN  upTo

\* Line i comes after line s, with none of `these` after s as far as i.
Reaches(s, these, i) == s < i /\ \A j \in these : ~(s < j /\ j <= i)

\* The last of `these` lines before line i.
LastBefore(these, i) == CHOOSE h \in these : h < i /\ \A k \in these : ~(h < k /\ k < i)

\* The rows begin in these lines, one after the other.
InOrder(begin) == \A k \in DOMAIN begin : \A l \in 1..(k - 1) : begin[l] < begin[k]
RowEnd(n, begin, k) == IF k < Len(begin) THEN begin[k + 1] - 1 ELSE n

-----------------------------------------------------------------------------
(***************************************************************************)
(* Periodic transaction reports.                                           *)
(***************************************************************************)
RepeatsHeader(ws) ==
    \/ \A t \in {"Owner", "Asset"} : Has(ws, t)
    \/ \A t \in {"Notification", "Amount"} : Has(ws, t)
    \/ \A t \in {"Cap.", "Gains"} : Has(ws, t)
    \/ Has(ws, "$200?")

\* The table goes on from page to page, between a header and a footer.  In it
\* a row begins with the line of its type code, and an annotation with a label.
PtrTable(lines) ==
    LET bounds == FindBounds(lines, PrintMargin)
        text == {i \in DOMAIN lines : ~RepeatsHeader(lines[i].words)}
        ends == {i \in text : "footer" \in Classes(lines[i].words)}
        body == {i \in text : \A j \in ends : j <= i => lines[j].page # lines[i].page}
        codes == {i \in body : bounds # None /\ StartsTransaction(bounds, lines[i].words)}
        labels == {i \in body \ codes : PtrLabel(lines[i].words[1])}
    IN  [lines |-> lines, columns |-> bounds, body |-> body, codes |-> codes, labels |-> labels]

\* Up to its first annotation a row goes on in its columns.
Wraps(t, s) == {i \in t.body : Reaches(s, t.labels, i)}

\* A description is an annotation that goes on to the next label.
Describing(t, s, i) ==
    \E j \in t.labels :
        /\ s < j /\ j <= i
        /\ t.lines[j].words[1].text = "description"
        /\ \A k \in t.labels : ~(j < k /\ k <= i)
Describes(t, s) == {i \in t.body : Describing(t, s, i)}

\* The row that begins in line s, as far as line e.
PrintedTransaction(t, s, e) ==
    LET b == t.columns
        n == Len(t.lines)
        column(left, right) == [i \in 1..n |-> Between(t.lines[i].words, left, right)]
        content == [i \in 1..n |-> IF i = s THEN <<>> ELSE Content(t.lines[i].words)]
    IN  [FromLine(b, t.lines[s].words) EXCEPT
            !.asset = Joined(column(b.owner, b.asset), s, Wraps(t, s), n)[e],
            !.amount = Joined(column(b.notified, b.amount), s, Wraps(t, s), n)[e],
            !.described = Joined(content, s, Describes(t, s), n)[e]]

\* A form without a header row is a scan.
PtrIsPrinted(t, rows) ==
    IF t.columns = None THEN rows = <<>>
    ELSE \E begin \in [1..Len(rows) -> t.codes] :
            /\ InOrder(begin)
            /\ \A i \in t.codes : \E k \in DOMAIN begin : i = begin[k]
            /\ \A k \in DOMAIN begin :
                  rows[k] = Transaction(PrintedTransaction(t, begin[k], RowEnd(Len(t.lines), begin, k)))

-----------------------------------------------------------------------------
(***************************************************************************)
(* Schedule A of annual reports.                                           *)
(***************************************************************************)

\* "Schedule A:", in either rendering.
IsSchedule(ws) == Len(ws) > 1 /\ ws[2].colon /\ ws[1].text = "schedule"

\* The lines under the first heading of schedule A, to that of another.
WithinA(lines) ==
    LET headings == {i \in DOMAIN lines : IsSchedule(lines[i].words)}
        begins == {i \in headings : lines[i].words[2].text = "A"}
        ends == {i \in headings \ begins : \E j \in begins : j < i}
    IN  {i \in DOMAIN lines \ headings :
            (\E j \in begins : j < i) /\ ~ \E j \in ends : j < i}

\* Lines of the schedule that parse_schedule_a takes for a heading: the label
\* "Subholding Of:", NUL-padded.
Mistaken(lines) == {i \in WithinA(lines) : IsHeading(lines[i].words)}

\* Of those under a header row, all but these rows and the footnotes.
TextOf(lines, within, headers) ==
    {i \in within \ headers : lines[i].words[1].class # "note" /\ \E h \in headers : h < i}

\* What a line has in each column of the last header row above it.
ZonesOf(lines, headers, i) ==
    Zones(ReportColumns(lines[LastBefore(headers, i)].words, PrintMargin), lines[i].words)

\* Schedule A: its header rows, the zones of its text, the annotations in it and
\* the lines that hold something.
ReportTable(lines) ==
    LET within == WithinA(lines)
        headers == {i \in within : IsReportHeader(lines[i].words)}
        text == TextOf(lines, within, headers)
        zones == [i \in text |-> ZonesOf(lines, headers, i)]
        labels == {i \in text : IsLabel(lines[i].words)}
    IN  [lines |-> lines, headers |-> headers, zones |-> zones, labels |-> labels,
         holds |-> {i \in text \ labels : ~Blank(zones[i])}]

\* The lines of a row up to its first annotation are its own.
OwnLines(t, s) == {i \in t.holds : Reaches(s, t.labels, i)}

\* The row that begins in line s, as far as line e.
PrintedHolding(t, s, e) ==
    LET zone(z) ==
            Joined([i \in t.holds |-> t.zones[i][z]], s, OwnLines(t, s), Len(t.lines))[e]
    IN  [asset |-> zone("asset"), owner |-> FirstLine(t.zones[s]).owner,
         value |-> zone("value"), incomeType |-> zone("incomeType"), income |-> zone("income")]

\* After a row that began in line s, line i begins another: with a value, where
\* none is waiting for its second half, or with an owner, outside annotations.
BeginsNext(t, s, i) ==
    LET value == PrintedHolding(t, s, i - 1).value
    IN  \/ /\ StartsValue(t.zones[i].value)
           /\ value = <<>> \/ Last(value).class # "dash"
        \/ HasOwner(t.zones[i]) /\ Reaches(s, t.labels, i)

\* Row k ends where the next one begins, and no other begins before.
IsHolding(t, rows, begin, k) ==
    LET end == RowEnd(Len(t.lines), begin, k)
        row == PrintedHolding(t, begin[k], end)
    IN  /\ \A i \in t.holds : begin[k] < i /\ i <= end => ~BeginsNext(t, begin[k], i)
        /\ k < Len(begin) => BeginsNext(t, begin[k], begin[k + 1])
        /\ row.asset # <<>> \/ row.value # <<>>
        /\ rows[k] = Holding(row)

\* The lines in which the rows may begin.
HoldingLines(t, rows) ==
    {begin \in [1..Len(rows) -> t.holds] :
        /\ InOrder(begin)
        /\ \A i \in t.holds : begin # <<>> /\ begin[1] <= i
        /\ \A k \in DOMAIN begin : IsHolding(t, rows, begin, k)}

ReportIsPrinted(t, rows) == HoldingLines(t, rows) # {}

-----------------------------------------------------------------------------
\* Every form reports what is printed on it.
ASSUME FormsArePrinted ==
    /\ \A f \in Ptr : PtrIsPrinted(PtrTable(Lines[f]), Rows[f])
    /\ \A f \in Annual : ReportIsPrinted(ReportTable(Lines[f]), Rows[f])

\* The label "Subholding Of:" names no schedule.
ASSUME SubholdingsAreLabels ==
    \A f \in Annual : \A i \in DOMAIN Lines[f] :
        LET ws == Lines[f][i].words
        IN  ws[1].text = "subholding" /\ Len(ws) > 1 => ws[2].text # "A"

\* None is no row and no columns.
PtrHasRows(t) ==
    \A s \in t.codes : \A e \in s..Len(t.lines) : PrintedTransaction(t, s, e) # None
ReportHasRows(t) ==
    /\ \A s \in t.holds : \A e \in s..Len(t.lines) : PrintedHolding(t, s, e) # None
    /\ \A h \in t.headers : ReportColumns(t.lines[h].words, PrintMargin) # None

ASSUME NoneIsNothing ==
    /\ \A f \in Ptr : PtrHasRows(PtrTable(Lines[f]))
    /\ \A f \in Annual : ReportHasRows(ReportTable(Lines[f]))

-----------------------------------------------------------------------------
\* Schedule A yields its holdings, no more and in their order: a wrapped value
\* band, a sub-holding on a second line and annotations that run across every
\* column open no row, and nothing of another schedule is read.  Every holding
\* comes back that begins above the first NUL-padded "Subholding Of:", and none
\* below: house_fd.py:122 takes that label for another schedule's heading and
\* returns, where lines 22-23 say that it "belong[s] to the row above" and is
\* skipped.
HoldingsReadBack ==
    form \in Annual /\ at = 0 =>
        \E begin \in HoldingLines(ReportTable(Lines[form]), Rows[form]) :
            /\ DOMAIN results
                 = {k \in DOMAIN begin : \A i \in Mistaken(Lines[form]) : begin[k] < i}
            /\ \A k \in DOMAIN results : results[k] = Rows[form][k]

=============================================================================
