---------------------------- MODULE MCFilingIndex ---------------------------
(***************************************************************************)
(* Instances of FilingIndex: one filing without a filed date, and one that *)
(* drops out of the live window (the year turns, or the Senate lookback    *)
(* passes it).                                                             *)
(***************************************************************************)
EXTENDS FilingIndex, TLC

CONSTANTS undated, leaving

MCFiled == [f \in Filing |-> IF f = undated THEN NoDate ELSE 0]
MCWindow == [t \in Time |-> IF t < MaxTime THEN Filing ELSE Filing \ {leaving}]
MCScope == {Filing, {leaving} \cap Filing}

=============================================================================
