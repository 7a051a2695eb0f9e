--------------------------- MODULE MCPtrLifecycle ---------------------------
(***************************************************************************)
(* Instances of PtrLifecycle for TLC.  Three filings, one of each kind the *)
(* repository's docs describe:                                             *)
(*   f1  an ordinary electronic PTR; the newer parser maps one more row,   *)
(*       and has the id and the option of row 0, which the old one lacks   *)
(*   f2  a "20xxxxxx" filing: a scan to the old parser, electronic to the  *)
(*       new one, and listed in the transcription CSV, whose row 0 the     *)
(*       backfill completes from the new one's reading                     *)
(*   f3  defeats the old parser, and carries an impossible date            *)
(* so that every outcome of every program happens.                         *)
(***************************************************************************)
EXTENDS PtrLifecycle, TLC

CONSTANTS f1, f2, f3, old, new

\* The late columns a reading has: `ids`, `types`, and `options` for the rows
\* that are options and whose "[OP]" line it can read.
Late(ids, types, options) ==
    "id" :> ids @@ "type" :> types @@ "option" :> options

Res(electronic, typed, untyped, validDates, columns, ops) ==
    [electronic |-> electronic, typed |-> typed, untyped |-> untyped,
     validDates |-> validDates, late |-> columns, options |-> ops]

OldReading == f1 :> Res(TRUE, {0}, {1}, TRUE, Late({}, {0}, {}), {0})
           @@ f2 :> Res(FALSE, {}, {}, TRUE, Late({}, {}, {}), {})
           @@ f3 :> Res(TRUE, {}, {}, TRUE, Late({}, {}, {}), {})

NewReading == f1 :> Res(TRUE, {0, 1}, {}, TRUE, Late({0, 1}, {0, 1}, {0}), {0})
           @@ f2 :> Res(TRUE, {0, 1}, {}, TRUE, Late({0, 1}, {0, 1}, {1}), {1})
           @@ f3 :> Res(TRUE, {0}, {}, FALSE, Late({0}, {}, {}), {})

MCReading ==
    [p \in Parser |-> [f \in Filing |-> IF p = old THEN OldReading[f] ELSE NewReading[f]]]

MCCsvFiling == {f2} \cap Filing
MCTranscript == [f \in MCCsvFiling |-> {0, 1}]

Symmetry == Permutations(Worker)

=============================================================================
