---------------------------- MODULE MCSourceReaders -------------------------
(***************************************************************************)
(* What the sources may publish.  The House's forms are rendered in the    *)
(* layouts of three periods and with every combination of what may wrap    *)
(* and where a page may break: a row of a form is written once as what it  *)
(* reports and once as the lines it is printed in, which HouseForms reads. *)
(***************************************************************************)
EXTENDS SourceReaders, FormConventions

CONSTANTS r1, r2, r3, r4, r5

W(x, class, text) == [x |-> x, class |-> class, text |-> text, colon |-> FALSE]
C(x, class, text) == [W(x, class, text) EXCEPT !.colon = TRUE]
Plain(x, texts) == [k \in DOMAIN texts |-> W(x + 20 * (k - 1), "text", texts[k])]

\* A line is one sequence of words; blocks and bodies are sequences of lines.
OnPage(p, lines) == [k \in DOMAIN lines |-> [page |-> p, words |-> lines[k]]]

\* The body on one page, or broken after `break` lines, the header repeated.
Pages(header, body, break, below) ==
    IF break = 0 THEN OnPage(1, header \o body \o below)
    ELSE OnPage(1, header \o SubSeq(body, 1, break))
         \o OnPage(2, header \o SubSeq(body, break + 1, Len(body)) \o below)

-----------------------------------------------------------------------------
Layouts ==
    [now |-> [owner |-> 65, asset |-> 104, type |-> 262, traded |-> 327, notified |-> 382,
              amount |-> 446, cap |-> 525, label |-> "nul"],
     y2019 |-> [owner |-> 66, asset |-> 99, type |-> 246, traded |-> 312, notified |-> 366,
                amount |-> 431, cap |-> 510, label |-> "label"],
     y2015 |-> [owner |-> 66, asset |-> 99, type |-> 246, traded |-> 312, notified |-> 366,
                amount |-> 431, cap |-> 0, label |-> "label"]]

PtrHeader(l) ==
    <<  <<W(25, "header", "ID"), W(l.owner, "header", "Owner"), W(l.asset, "header", "Asset"),
          W(l.type, "header", "Transaction"), W(l.traded, "header", "Date"),
          W(l.notified, "header", "Notification"), W(l.amount, "header", "Amount")>>
        \o IF l.cap = 0 THEN <<>> ELSE <<W(l.cap, "header", "Cap.")>>,
        <<W(l.type, "header", "Type"), W(l.notified, "header", "Date")>>
        \o IF l.cap = 0 THEN <<>> ELSE <<W(l.cap, "header", "Gains")>>  >>
    \o IF l.cap = 0 THEN <<>> ELSE << <<W(l.cap, "header", "$200?")>> >>

Place(x, named) == [k \in DOMAIN named |-> W(x + 30 * (k - 1), named[k][1], named[k][2])]
TextsOf(named) == [k \in DOMAIN named |-> named[k][2]]

\* What the two transactions of a form report; before 2019 the form had no
\* asset types.
Typed(l) == l.cap # 0
Acme(l) == << <<"text", "Acme">>, <<"text", "Corp">>, <<"ticker", "ACM">> >>
           \o IF Typed(l) THEN << <<"type", "OP">> >> ELSE <<>>
Bought(l, option) ==
    [id |-> None, owner |-> "SP", asset |-> TextsOf(Acme(l)), ticker |-> "ACM",
     type |-> IF Typed(l) THEN "OP" ELSE None,
     option |-> IF Typed(l) THEN option ELSE <<None, None, None>>,
     kind |-> "purchase", traded |-> "d1", notified |-> "d2", amount |-> <<"15001", "50000">>]
Sold ==
    [id |-> "2000135564", owner |-> "self", asset |-> <<"Fund">>, ticker |-> None, type |-> None,
     option |-> <<None, None, None>>, kind |-> "sale_partial", traded |-> "d3",
     notified |-> "d4", amount |-> <<"50000000", None>>]

\* The lines of the purchase: after `wrap` words its asset wraps, and after the
\* dash its amount if `split`; the second line has what is left of both.
BoughtLines(l, shift, wrap, split) ==
    LET asset == Acme(l)
        high(x) == <<W(x, "money", "50000")>>
        second == Place(l.asset - shift, SubSeq(asset, wrap + 1, Len(asset)))
                  \o IF split THEN high(l.amount - shift) ELSE <<>>
    IN  << <<W(l.owner - shift, "owner", "SP")>> \o Place(l.asset - shift, SubSeq(asset, 1, wrap))
            \o <<W(l.type - shift, "code", "P"), W(l.traded - shift, "date", "d1"),
                 W(l.notified - shift, "date", "d2"), W(l.amount - shift, "money", "15001"),
                 W(l.amount + 25, "dash", "-")>>
            \o IF split THEN <<>> ELSE high(l.amount + 30) >>
        \o IF second = <<>> THEN <<>> ELSE <<second>>

SoldLine(l, shift) ==
    <<W(25, "number", "2000135564"), W(l.asset - shift, "text", "Fund"),
      W(l.type - shift, "code", "S"), W(l.type + 10, "partial", "(partial)"),
      W(l.traded - shift, "date", "d3"), W(l.notified - shift, "date", "d4"),
      W(l.amount - shift, "over", "Over"), W(l.amount + 20, "money", "50000000")>>

Label(l, text) == <<W(l.asset, l.label, text), C(l.asset + 30, l.label, "")>>
Spill(l) == Plain(l.asset, <<"held", "by", "the", "family", "trust", "and", "sold", "at">>)
            \o <<W(l.amount, "money", "7000")>>

\* The annotations of the purchase: its status, alone or with text that runs
\* over every column; for an option a description in either style, with
\* further lines, and comments.
Annotations(l) ==
    LET status == << Label(l, "filing") \o Plain(l.asset + 60, <<"New">>) >>
        full == << Label(l, "description") \o <<W(l.asset + 60, "option", "call")>>,
                   <<W(l.asset, "strike", "320"), W(l.amount, "expiry", "06/18/2026")>> >>
        short == << Label(l, "description") \o <<W(l.asset + 60, "number", "10"),
                                                 W(l.asset + 80, "side", "put")>> >>
        comments == << Label(l, "comments") \o Plain(l.asset + 60, <<"see", "letter">>) >>
        none == <<None, None, None>>
    IN  <<[lines |-> status, option |-> none], [lines |-> status \o <<Spill(l)>>, option |-> none],
         [lines |-> status \o <<Label(l, "subholding") \o Plain(l.asset + 60, <<"IRA">>), Spill(l)>>,
          option |-> none],
         [lines |-> status \o full, option |-> <<"call", "320", "06/18/2026">>],
         [lines |-> status \o short \o comments, option |-> <<"put", None, None>>]>>

PtrBelow(l) == << <<W(21, "footer", "footer")>>, Plain(l.asset, <<"I", "certify">>) >>

\* A transaction report by its year's layout, how far the data stands to the
\* left of the headers, what wraps, its annotations and where its page breaks.
MCPtr == {<<"scan">>} \cup ((DOMAIN Layouts) \X (0..1) \X (1..3) \X BOOLEAN \X (1..5) \X (0..6))

Break(break, body) == IF break > Len(body) THEN 0 ELSE break

PtrLines(layout, shift, wrap, split, notes, break) ==
    LET l == Layouts[layout]
        body == BoughtLines(l, shift, wrap, split) \o Annotations(l)[notes].lines
                \o <<SoldLine(l, shift), Label(l, "filing") \o Plain(l.asset + 60, <<"Amended">>)>>
    IN  Pages(PtrHeader(l), body, Break(break, body), PtrBelow(l))

PtrRows(layout, notes) ==
    LET l == Layouts[layout] IN <<Bought(l, Annotations(l)[notes].option), Sold>>

\* A scan: at most the text of its cover sheet.
Scan == OnPage(1, <<Plain(104, <<"Transaction", "report">>)>>)

-----------------------------------------------------------------------------
(***************************************************************************)
(* Annual reports.                                                         *)
(***************************************************************************)
ReportHeader ==
    << <<W(25, "header", "asset"), W(266, "header", "owner"), W(314, "header", "value"),
         W(340, "text", "of"), W(352, "header", "asset"), W(400, "header", "income"),
         W(430, "text", "type(s)"), W(460, "header", "income"), W(530, "header", "tx.")>>,
       <<W(400, "note", "type(s)")>> >>

Ira ==
    [asset |-> <<"IRA", "=>", "Index", "IDX", "MF">>, ticker |-> "IDX", type |-> "MF",
     owner |-> "JT", value |-> <<"100001", "250000">>, incomeType |-> <<"Dividends">>,
     income |-> <<"201", "-", "1000">>]
Cash ==
    [asset |-> <<"Cash">>, ticker |-> None, type |-> None, owner |-> "self",
     value |-> <<None, None>>, incomeType |-> <<>>, income |-> <<>>]

\* An account and, on the next line, what it holds; the band may wrap.
IraLines(split) ==
    LET low == <<W(313, "money", "100001"), W(340, "dash", "-")>>
        high(x) == <<W(x, "money", "250000")>>
        held == <<W(25, "text", "Index"), W(60, "ticker", "IDX"), W(90, "type", "MF")>>
    IN  << <<W(25, "text", "IRA"), W(60, "text", "=>"), W(265, "owner", "JT")>> \o low
            \o (IF split THEN <<>> ELSE high(350))
            \o <<W(399, "text", "Dividends"), W(459, "money", "201"), W(480, "dash", "-"),
                 W(490, "money", "1000"), W(530, "text", "gfedc")>>,
           held \o IF split THEN high(313) ELSE <<>> >>

\* Text of an annotation in every column, an owner code among it.
Running == <<W(25, "text", "bought"), W(266, "owner", "SP"), W(314, "money", "500"),
             W(400, "text", "in"), W(460, "text", "trust")>>

\* The annotations of the account: none, of one word with or without text that
\* runs over every column, or of two words.
ReportNotes(label) ==
    LET described == << <<C(30, label, "description"), W(90, "text", "fund")>> >>
        filing == << <<W(30, label, "filing"), C(60, label, "status"), W(90, "text", "new")>> >>
    IN  <<<<>>, described, described \o <<Running>>,
          << <<C(30, label, "comments"), W(90, "text", "see")>>, Running, Running>>,
          filing \o << <<W(30, label, "subholding"), C(60, label, "of"), W(90, "text", "trust")>>,
                       Running>>>>

\* A heading is rendered as the labels are.
Schedule(label, letter) ==
    << <<W(25, IF label = "nul" THEN "nul" ELSE "text", "schedule"), C(60, "text", letter)>> >>

MCAnnual == {<<"undisclosed">>, <<"unfinished">>} \cup
    ({"nul", "label"} \X BOOLEAN \X {"none", "undetermined"} \X (1..5) \X (0..7))

ReportLines(label, split, single, notes, break) ==
    LET rows == IraLines(split) \o ReportNotes(label)[notes]
                \o << <<W(25, "text", "Cash"), W(314, "single", single)>>,
                      <<W(530, "text", "gfedc")>> >>
        before == << <<W(25, "text", "Filing"), W(60, "text", "2020")>> >> \o Schedule(label, "A")
        after == << <<W(25, "note", "*")>> >> \o Schedule(label, "B") \o <<Running>>
    IN  OnPage(1, before) \o Pages(ReportHeader, rows, Break(break, rows), after)

\* "None disclosed.": a heading without a table.
Undisclosed ==
    LET heading(letter) == Schedule("label", letter)
    IN  OnPage(1, heading("A") \o <<Plain(25, <<"None", "disclosed.">>)>> \o heading("B"))

MCLines ==
    [f \in MCPtr \cup MCAnnual |->
        CASE f = <<"scan">> -> Scan
          [] f = <<"undisclosed">> -> Undisclosed
          [] f = <<"unfinished">> -> SubSeq(Undisclosed, 1, 2)
          [] Len(f) = 5 -> ReportLines(f[1], f[2], f[3], f[4], f[5])
          [] Len(f) = 6 -> PtrLines(f[1], f[2], f[3], f[4], f[5], f[6])]

MCRows ==
    [f \in MCPtr \cup MCAnnual |->
        CASE Len(f) = 1 -> <<>>
          [] Len(f) = 5 -> <<Ira, Cash>>
          [] Len(f) = 6 -> PtrRows(f[1], f[5])]

-----------------------------------------------------------------------------
\* The search, at any length up to two full pages; r2 is no report that the
\* link's pattern knows.
MCListings == {<<>>, <<r1>>, <<r2, r1>>, <<r3, r2, r1>>, <<r4, r3, r2, r1>>}

=============================================================================
