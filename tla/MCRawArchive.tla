---------------------------- MODULE MCRawArchive ----------------------------
(***************************************************************************)
(* A Senate PTR and an annual report, either of them archived before the   *)
(* move, the report perhaps as one in which the parser finds nothing.  A     *)
(* source may serve another edition than what was archived, or nothing.    *)
(***************************************************************************)
EXTENDS RawArchive

CONSTANTS ptr, annual, v1, v2, empty, wrong, scan

MCOutcome ==
    [x \in Content |->
        CASE x = empty -> "nothing" [] x = wrong -> "bad date" [] x = scan -> "scan" [] OTHER -> "rows"]
MCServed == [f \in Filing |-> IF f = ptr THEN {v2, wrong} ELSE {v2, scan}]
MCArchived ==
    {[f \in Filing |-> IF f = g THEN v1 ELSE None] : g \in Filing}
    \cup {[f \in Filing |-> IF f = annual THEN empty ELSE None]}

=============================================================================
