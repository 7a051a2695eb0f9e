--------------------------- MODULE FirstSeenLedger --------------------------
(***************************************************************************)
(* What the index sync promises about first_seen_at: every filing is       *)
(* stamped at most once, and a stamp, once given, is never touched again   *)
(* (README, "Why first seen matters": the timestamp can never be           *)
(* reconstructed retroactively).  Who stamps it and how is left open.      *)
(***************************************************************************)
CONSTANTS
    Filing,
    Stamp,   \* first-seen stamps
    NotSeen  \* not one of them: the filing has no row yet

VARIABLE stamp

LedgerInit == stamp = [f \in Filing |-> NotSeen]

\* Any number of filings observed for the first time in one step.
Observe ==
    /\ stamp' \in [Filing -> Stamp \cup {NotSeen}]
    /\ \A f \in Filing : stamp[f] # NotSeen => stamp'[f] = stamp[f]

LedgerSpec == LedgerInit /\ [][Observe]_stamp

=============================================================================
