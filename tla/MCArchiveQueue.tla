--------------------------- MODULE MCArchiveQueue ---------------------------
(***************************************************************************)
(* Instances of ArchiveQueue: two PTRs of which one is served no more, an  *)
(* electronic annual report, and a filing of another type.                 *)
(***************************************************************************)
EXTENDS ArchiveQueue, TLC

CONSTANTS gone, ptr, annual, other

MCTypeRank == [f \in Filing |-> CASE f = annual -> 1 [] f = other -> 2 [] OTHER -> 0]
MCGone == {gone} \cap Filing

=============================================================================
