---------------------------- MODULE SourceReaders ----------------------------
(***************************************************************************)
(* The readers of what the two sources publish: the House's forms and the  *)
(* Senate's search.  They share nothing but the amounts' and the lines'    *)
(* patterns, so a behaviour is one reader at work on one source.           *)
(***************************************************************************)
EXTENDS HouseForms, SenateSearch

readerVars == <<formVars, searchVars>>

InitReaders ==
    \/ InitForms /\ IdleSearch
    \/ InitSearch /\ IdleForms

NextReaders ==
    \/ NextForms /\ UNCHANGED searchVars
    \/ NextSearch /\ UNCHANGED formVars

ReadersSpec == InitReaders /\ [][NextReaders]_readerVars

=============================================================================
