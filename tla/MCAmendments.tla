---------------------------- MODULE MCAmendments ----------------------------
(***************************************************************************)
(* Instances of Amendments: an original, an amendment and an amendment of  *)
(* the amendment; a1, b1, c1 are one transaction, a2 and b2 another.       *)
(***************************************************************************)
EXTENDS Amendments, TLC

CONSTANTS fa, fb, fc, a1, b1, c1, a2, b2, i1, i2

MCFilingOf == [t \in Tx |-> IF t \in {a1, a2} THEN fa ELSE IF t = c1 THEN fc ELSE fb]
MCIdOf == [t \in Tx |-> IF t \in {a2, b2} THEN i2 ELSE i1]

\* Each filed later than the one before.
Distinct == fa :> 0 @@ fb :> 1 @@ fc :> 2

=============================================================================
