----------------------------- MODULE HouseForms -----------------------------
(***************************************************************************)
(* How the House's two electronic forms are read back from the words of a  *)
(* PDF: parsers/house_ptr.py for periodic transaction reports and          *)
(* parsers/house_fd.py for Schedule A of annual reports.  Both are loops   *)
(* over the visual lines of the pages; an action below is one pass of the  *)
(* loop, a variable is one of its locals.                                  *)
(*                                                                         *)
(* A line is the sequence of its words, left to right, and the number of   *)
(* its page (_group_lines).  A word is where it begins, in points, the     *)
(* class the patterns of the parsers put its text in, the text, up to      *)
(* letter case, which all of them ignore, and whether a colon ends it (the *)
(* text is without).  Class "nul" is a word whose letters but the first    *)
(* came out as NUL bytes: its text is what is printed, and a definition    *)
(* may tell such words apart by their first letter only.                   *)
(***************************************************************************)
EXTENDS Integers, Sequences, SequencesExt

CONSTANTS
    Ptr,        \* periodic transaction reports
    Annual,     \* annual reports
    Lines,      \* what is printed on a form
    Rows,       \* what it reports: its transactions, or holdings of Schedule A
    None

ASSUME FormAssumption ==
    /\ Ptr \cap Annual = {} /\ None \notin Ptr \cup Annual
    /\ DOMAIN Lines = Ptr \cup Annual /\ DOMAIN Rows = Ptr \cup Annual
    /\ \A f \in Ptr \cup Annual :
        /\ DOMAIN Lines[f] = 1..Len(Lines[f])
        /\ Len(Lines[f]) \in Nat /\ Len(Rows[f]) \in Nat
        /\ \A i \in DOMAIN Lines[f] : Lines[f][i].page \in Nat \ {0}
        /\ \A i \in DOMAIN Lines[f] : \A j \in 1..i : Lines[f][j].page <= Lines[f][i].page

VARIABLES
    form,       \* the form being read
    at,         \* the line that is next, 0 when the parser has returned
    results,    \* the rows read
    open,       \* the row being read, None before the first
    annotating, \* in_annotation_block, in_annotation
    describing, \* PTR: the block is a "Description:"
    footer,     \* PTR: the page whose footer was reached, 0 before
    columns,    \* where the columns are; None until a header row was found
    inA         \* report: within Schedule A

lineVars == <<results, open, annotating, describing, footer, columns, inA>>
formVars == <<form, at, lineVars>>

Words == Lines[form][at].words
LineLeft == at \in DOMAIN Lines[form]
Texts(ws) == [k \in DOMAIN ws |-> ws[k].text]
Classes(ws) == {ws[k].class : k \in DOMAIN ws}
OfClass(ws, c) == SelectSeq(ws, LAMBDA w : w.class = c)
Between(ws, left, right) == SelectSeq(ws, LAMBDA w : left <= w.x /\ w.x < right)
LastText(ws) == IF ws = <<>> THEN None ELSE Last(ws).text

-----------------------------------------------------------------------------
(***************************************************************************)
(* Header rows.                                                            *)
(***************************************************************************)
Headers(ws, t) == SelectSeq(ws, LAMBDA w : w.class = "header" /\ w.text = t)
Has(ws, t) == Headers(ws, t) # <<>>
X(ws, t) == Last(Headers(ws, t)).x
FirstX(ws, t) == Headers(ws, t)[1].x

\* Seeded fault: the boundary is at the header itself.
NoMargin == 0

\* _COLUMN_MARGIN: a value may begin a little to the left of its header.
Margin == 3

\* The "Date" of the transaction date, not of the notification date.
TradeDates(ws) ==
    SelectSeq(Headers(ws, "Date"),
              LAMBDA w : X(ws, "Transaction") < w.x /\ w.x < X(ws, "Notification"))

IsPtrHeader(ws) ==
    /\ \A t \in {"Owner", "Asset", "Transaction", "Notification", "Amount"} : Has(ws, t)
    /\ TradeDates(ws) # <<>>

\* The right boundary of each column; without a "Cap. Gains" column the amount
\* is as wide as on the reference form.
PtrBounds(ws, margin) ==
    [id |-> 55,
     owner |-> X(ws, "Asset") - margin,
     asset |-> X(ws, "Transaction") - margin,
     type |-> TradeDates(ws)[1].x - margin,
     traded |-> X(ws, "Notification") - margin,
     notified |-> X(ws, "Amount") - margin,
     amount |-> IF Has(ws, "Cap.") THEN X(ws, "Cap.") - margin ELSE X(ws, "Amount") + 79]

\* _find_column_bounds; None is what makes is_electronic false.
FindBounds(lines, margin) ==
    LET rows == SelectSeq(lines, LAMBDA l : IsPtrHeader(l.words))
    IN  IF rows = <<>> THEN None ELSE PtrBounds(rows[1].words, margin)

\* Seeded fault: header rows are dropped before the first transaction only.
IsFirstHeaderLine(ws) == open = None /\ Has(ws, "Amount")

\* A header row, on whatever page.  It takes three lines on the current form,
\* of which the middle one ("Type Date Gains >") is not recognised.
IsHeaderLine(ws) ==
    \/ Has(ws, "Owner") /\ Has(ws, "Asset")
    \/ Has(ws, "Notification") /\ Has(ws, "Amount")
    \/ Has(ws, "Cap.") /\ Has(ws, "Gains")
    \/ Has(ws, "$200?")

-----------------------------------------------------------------------------
(***************************************************************************)
(* What a row's words say.                                                 *)
(***************************************************************************)

\* The class of the k-th word from the end of a description.
FromEnd(ws, k, c) == Len(ws) >= k /\ ws[Len(ws) - k + 1].class = c

\* "(TICKER) [TYPE]", "[TYPE]" or "(TICKER)", at the very end only.
TypeOf(ws) == IF FromEnd(ws, 1, "type") THEN Last(ws).text ELSE None
TickerOf(ws) ==
    CASE FromEnd(ws, 1, "type") /\ FromEnd(ws, 2, "ticker") -> ws[Len(ws) - 1].text
      [] FromEnd(ws, 1, "ticker") -> Last(ws).text
      [] OTHER -> None

\* parse_amount_range: "low - high" or "Over low"; whatever else stands
\* beside a number keeps it from being one.
Number(ws) == IF Len(ws) = 1 /\ ws[1].class = "money" THEN ws[1].text ELSE None
Amount(ws) ==
    LET dashes == {k \in DOMAIN ws : ws[k].class = "dash"}
        dash == CHOOSE k \in dashes : \A j \in dashes : k <= j
    IN  CASE ws # <<>> /\ ws[1].class = "over" -> <<Number(Tail(ws)), None>>
          [] dashes # {} -> <<Number(SubSeq(ws, 1, dash - 1)), Number(SubSeq(ws, dash + 1, Len(ws)))>>
          [] OTHER -> <<None, None>>

FirstOf(ws, from, classes) ==
    LET ks == {k \in from..Len(ws) : ws[k].class \in classes}
    IN  IF ks = {} THEN 0 ELSE CHOOSE k \in ks : \A j \in ks : k <= j

\* _parse_option_details: "call options", "Strike price $320" and "Expires ..."
\* in this order, else a lone "calls" or "puts" for the side.
Option(ws) ==
    LET side == FirstOf(ws, 1, {"option", "side"})
        option == FirstOf(ws, 1, {"option"})
        strike == FirstOf(ws, option, {"strike"})
        expiry == FirstOf(ws, strike, {"expiry"})
    IN  CASE option # 0 /\ strike # 0 /\ expiry # 0 -> <<ws[option].text, ws[strike].text, ws[expiry].text>>
          [] OTHER -> <<IF side = 0 THEN None ELSE ws[side].text, None, None>>

-----------------------------------------------------------------------------
(***************************************************************************)
(* parse_ptr_transactions.                                                 *)
(***************************************************************************)
IdleForms ==
    /\ form = None /\ at = 0
    /\ results = <<>> /\ open = None
    /\ annotating = FALSE /\ describing = FALSE
    /\ footer = 0 /\ inA = FALSE /\ columns = None

InitForms ==
    /\ form \in Ptr \cup Annual
    /\ at = 1
    /\ results = <<>> /\ open = None
    /\ annotating = FALSE /\ describing = FALSE
    /\ footer = 0 /\ inA = FALSE
    /\ columns = IF form \in Ptr THEN FindBounds(Lines[form], Margin) ELSE None

FromLine(b, ws) ==
    LET type == Between(ws, b.asset, b.type)
    IN  [id |-> LastText(Between(ws, 0, b.id)),
         owner |-> LastText(OfClass(Between(ws, b.id, b.owner), "owner")),
         asset |-> Between(ws, b.owner, b.asset),
         code |-> LastText(OfClass(type, "code")),
         partial |-> "partial" \in Classes(type),
         traded |-> LastText(OfClass(Between(ws, b.type, b.traded), "date")),
         notified |-> LastText(OfClass(Between(ws, b.traded, b.notified), "date")),
         amount |-> Between(ws, b.notified, b.amount),
         described |-> <<>>]

TxType(r) ==
    CASE r.code = "P" -> "purchase"
      [] r.code = "E" -> "exchange"
      [] r.code = "S" -> IF r.partial THEN "sale_partial" ELSE "sale_full"

Transaction(r) ==
    [id |-> r.id, owner |-> IF r.owner = None THEN "self" ELSE r.owner,
     asset |-> Texts(r.asset), ticker |-> TickerOf(r.asset), type |-> TypeOf(r.asset),
     option |-> IF TypeOf(r.asset) = "OP" THEN Option(r.described) ELSE <<None, None, None>>,
     kind |-> TxType(r), traded |-> r.traded, notified |-> r.notified,
     amount |-> Amount(r.amount)]

PtrLine == form \in Ptr /\ columns # None /\ LineLeft

\* A line of the table, not a header, a footer or below it.
TableLine ==
    /\ PtrLine
    /\ ~IsHeaderLine(Words)
    /\ "footer" \notin Classes(Words)
    /\ Lines[form][at].page # footer

StartsTransaction(b, ws) == "code" \in Classes(Between(ws, b.asset, b.type))

\* A NUL-padded label is known by its first letter, a plain one by its word;
\* "Comments" is neither's.
PtrLabel(w) == w.class \in {"label", "nul"} /\ w.text # "comments"

SkipHeader ==
    /\ PtrLine /\ IsHeaderLine(Words)
    /\ at' = at + 1
    /\ UNCHANGED <<form, lineVars>>

ReachFooter ==
    /\ PtrLine /\ ~IsHeaderLine(Words) /\ "footer" \in Classes(Words)
    /\ at' = at + 1
    /\ footer' = Lines[form][at].page
    /\ UNCHANGED <<form, results, open, annotating, describing, columns, inA>>

SkipBelowFooter ==
    /\ PtrLine /\ ~IsHeaderLine(Words) /\ "footer" \notin Classes(Words)
    /\ Lines[form][at].page = footer
    /\ at' = at + 1
    /\ UNCHANGED <<form, lineVars>>

StartTransaction ==
    /\ TableLine /\ StartsTransaction(columns, Words)
    /\ at' = at + 1
    /\ results' = IF open = None THEN results ELSE Append(results, Transaction(open))
    /\ open' = FromLine(columns, Words)
    /\ annotating' = FALSE /\ describing' = FALSE
    /\ UNCHANGED <<form, footer, columns, inA>>

\* The label itself is no content.
Content(ws) == SelectSeq(ws, LAMBDA w : w.class # "nul" /\ w.text # "description")
AddDescription(ws) ==
    open' = IF open = None THEN None ELSE [open EXCEPT !.described = @ \o Content(ws)]

ReadLabel ==
    /\ TableLine /\ ~StartsTransaction(columns, Words) /\ PtrLabel(Words[1])
    /\ at' = at + 1
    /\ annotating' = TRUE
    /\ describing' = (Words[1].text = "description")
    /\ IF describing' THEN AddDescription(Words) ELSE UNCHANGED open
    /\ UNCHANGED <<form, results, footer, columns, inA>>

\* A line that is neither a transaction nor a label.
PlainLine == TableLine /\ ~StartsTransaction(columns, Words) /\ ~PtrLabel(Words[1])

Describe ==
    /\ PlainLine /\ describing /\ open # None
    /\ at' = at + 1
    /\ AddDescription(Words)
    /\ UNCHANGED <<form, results, annotating, describing, footer, columns, inA>>

SkipAnnotation ==
    /\ PlainLine /\ annotating /\ ~(describing /\ open # None)
    /\ at' = at + 1
    /\ UNCHANGED <<form, lineVars>>

Extended(ws) ==
    [open EXCEPT !.asset = @ \o Between(ws, columns.owner, columns.asset),
                 !.amount = @ \o Between(ws, columns.notified, columns.amount)]

Extend ==
    /\ PlainLine /\ ~annotating
    /\ at' = at + 1
    /\ open' = IF open = None THEN None ELSE Extended(Words)
    /\ UNCHANGED <<form, results, annotating, describing, footer, columns, inA>>

\* The end of the form.  Of one without a header row nothing is read: the
\* pipeline defers what is not electronic.  (The re-parse of a failed filing and
\* the backfill do not ask, and read it by the columns of the reference form.)
ReturnTransactions ==
    /\ form \in Ptr /\ at # 0
    /\ columns = None \/ ~LineLeft
    /\ at' = 0
    /\ results' = IF open = None THEN results ELSE Append(results, Transaction(open))
    /\ UNCHANGED <<form, open, annotating, describing, footer, columns, inA>>

PtrStep ==
    \/ SkipHeader \/ ReachFooter \/ SkipBelowFooter \/ StartTransaction \/ ReadLabel
    \/ Describe \/ SkipAnnotation \/ Extend \/ ReturnTransactions

-----------------------------------------------------------------------------
(***************************************************************************)
(* parse_schedule_a.                                                       *)
(***************************************************************************)
ReportLine == form \in Annual /\ LineLeft
NextLine == at' = at + 1 /\ UNCHANGED <<form, describing, footer>>

\* _schedule_letter: "Schedule A:", or, where the text layer is NUL-padded, any
\* word with an S and one that ends in a colon, such as "Subholding Of:".
IsHeading(ws) ==
    /\ Len(ws) > 1 /\ ws[2].colon
    /\ \/ ws[1].text = "schedule"
       \/ ws[1].class = "nul" /\ ws[1].text = "subholding"

IsReportHeader(ws) ==
    /\ ws[1].text = "asset" /\ \A t \in {"owner", "value", "tx."} : Has(ws, t)
    /\ Len(Headers(ws, "income")) > 1
IsNote(ws) == columns = None \/ ws[1].class = "note"
IsLabel(ws) == ws[1].class \in {"label", "nul"}

InScheduleA == ReportLine /\ inA /\ ~IsHeading(Words)
HoldingLine ==
    InScheduleA /\ ~IsReportHeader(Words) /\ ~IsNote(Words) /\ ~IsLabel(Words)

ReportColumns(ws, margin) ==
    [owner |-> FirstX(ws, "owner") - margin, value |-> FirstX(ws, "value") - margin,
     incomeType |-> FirstX(ws, "income") - margin,
     income |-> Headers(ws, "income")[2].x - margin, tx |-> FirstX(ws, "tx.") - margin]

Zones(c, ws) ==
    [asset |-> Between(ws, 0, c.owner), owner |-> Between(ws, c.owner, c.value),
     value |-> Between(ws, c.value, c.incomeType),
     incomeType |-> Between(ws, c.incomeType, c.income),
     income |-> Between(ws, c.income, c.tx)]

Holding(r) ==
    [asset |-> Texts(r.asset), ticker |-> TickerOf(r.asset), type |-> TypeOf(r.asset),
     owner |-> IF r.owner = None THEN "self" ELSE r.owner, value |-> Amount(r.value),
     incomeType |-> Texts(r.incomeType), income |-> Texts(r.income)]

Flushed ==
    IF open = None \/ (open.asset = <<>> /\ open.value = <<>>) THEN results
    ELSE Append(results, Holding(open))

\* "$100,001 -" opens a band, a lone "$250,000" closes one that wrapped.
StartsValue(value) ==
    /\ value # <<>>
    /\ \/ value[1].class \in {"single", "over"}
       \/ value[1].class = "money" /\ Len(value) > 1 /\ value[2].class = "dash"

ValueOpen == open # None /\ open.value # <<>> /\ Last(open.value).class = "dash"

HasOwner(z) == z.owner # <<>> /\ z.owner[1].class = "owner"

\* Seeded fault: an owner code opens a row even inside an annotation.
OpensOnOwner(z) == open = None \/ (StartsValue(z.value) /\ ~ValueOpen) \/ HasOwner(z)

OpensRow(z) ==
    \/ open = None
    \/ StartsValue(z.value) /\ ~ValueOpen
    \/ HasOwner(z) /\ ~annotating

FirstLine(z) == [z EXCEPT !.owner = IF HasOwner(z) THEN z.owner[1].text ELSE None]
AddLine(r, z) ==
    [asset |-> r.asset \o z.asset,
     owner |-> IF HasOwner(z) THEN z.owner[1].text ELSE r.owner,
     value |-> r.value \o z.value,
     incomeType |-> r.incomeType \o z.incomeType,
     income |-> r.income \o z.income]

EnterSchedule ==
    /\ ReportLine /\ IsHeading(Words)
    /\ ~inA \/ Words[2].text = "A"
    /\ NextLine
    /\ inA' = (Words[2].text = "A")
    /\ UNCHANGED <<results, open, annotating, columns>>

LeaveScheduleA ==
    /\ ReportLine /\ IsHeading(Words)
    /\ inA /\ Words[2].text # "A"
    /\ at' = 0
    /\ results' = Flushed
    /\ UNCHANGED <<form, open, annotating, describing, footer, columns, inA>>

SkipOtherSchedule ==
    /\ ReportLine /\ ~inA /\ ~IsHeading(Words)
    /\ NextLine
    /\ UNCHANGED <<results, open, annotating, columns, inA>>

ReadHeader ==
    /\ InScheduleA /\ IsReportHeader(Words)
    /\ NextLine
    /\ columns' = ReportColumns(Words, Margin)
    /\ UNCHANGED <<results, open, annotating, inA>>

SkipNote ==
    /\ InScheduleA /\ ~IsReportHeader(Words) /\ IsNote(Words)
    /\ NextLine
    /\ UNCHANGED <<results, open, annotating, columns, inA>>

ReadAnnotation ==
    /\ InScheduleA /\ ~IsReportHeader(Words) /\ ~IsNote(Words) /\ IsLabel(Words)
    /\ NextLine
    /\ annotating' = TRUE
    /\ UNCHANGED <<results, open, columns, inA>>

Blank(z) == \A zone \in DOMAIN z : z[zone] = <<>>

\* Only the checkbox glyphs of the last column.
SkipGlyphs ==
    /\ HoldingLine /\ Blank(Zones(columns, Words))
    /\ NextLine
    /\ UNCHANGED <<results, open, annotating, columns, inA>>

\* An annotation wraps across every column.
SkipAnnotationText ==
    /\ HoldingLine /\ ~Blank(Zones(columns, Words))
    /\ annotating /\ ~OpensRow(Zones(columns, Words))
    /\ NextLine
    /\ UNCHANGED <<results, open, annotating, columns, inA>>

OpenRow ==
    /\ HoldingLine /\ ~Blank(Zones(columns, Words)) /\ OpensRow(Zones(columns, Words))
    /\ NextLine
    /\ results' = Flushed
    /\ open' = FirstLine(Zones(columns, Words))
    /\ annotating' = FALSE
    /\ UNCHANGED <<columns, inA>>

ContinueRow ==
    /\ HoldingLine /\ ~Blank(Zones(columns, Words))
    /\ ~OpensRow(Zones(columns, Words)) /\ ~annotating
    /\ NextLine
    /\ open' = AddLine(open, Zones(columns, Words))
    /\ UNCHANGED <<results, annotating, columns, inA>>

ReturnHoldings ==
    /\ form \in Annual /\ at # 0 /\ ~LineLeft
    /\ at' = 0
    /\ results' = Flushed
    /\ UNCHANGED <<form, open, annotating, describing, footer, columns, inA>>

ReportStep ==
    \/ EnterSchedule \/ LeaveScheduleA \/ SkipOtherSchedule \/ ReadHeader \/ SkipNote
    \/ ReadAnnotation \/ SkipGlyphs \/ SkipAnnotationText \/ OpenRow \/ ContinueRow \/ ReturnHoldings

NextForms == PtrStep \/ ReportStep

-----------------------------------------------------------------------------
(***************************************************************************)
(* What is read back, compared with what the form reports.                 *)
(***************************************************************************)
ReadBack(forms, fields) ==
    form \in forms /\ at = 0 =>
        /\ Len(results) = Len(Rows[form])
        /\ \A k \in DOMAIN results : \A f \in fields : results[k][f] = Rows[form][k][f]

\* Wherever the columns of its year are, wherever lines wrap and pages break,
\* a PTR yields its transactions, no more, no fewer and in their order (their
\* number is their row_index), each with its own id, owner, kind and dates.
TransactionsReadBack == ReadBack(Ptr, {"id", "owner", "kind", "traded", "notified"})

\* What may be spread over several lines, and over two pages (the asset, its
\* ticker and type, the amount, an option's side, strike and expiry), is put
\* together again, without anything of the header rows, the annotations in
\* either encoding, the footer or what is printed below it.
WrappedTextReadBack == ReadBack(Ptr, {"asset", "ticker", "type", "option", "amount"})

=============================================================================
