---------------------------- MODULE MCTickerLinks ----------------------------
(***************************************************************************)
(* Instances of TickerLinks.  `share` is a transaction without a ticker    *)
(* whose description fits both share classes of alphabet; in the late      *)
(* commit an override for the description says that it is of a third one,  *)
(* which SEC lists no more.  `fund` has that ticker: in the early commit   *)
(* SEC lists it as alphabet's and an override for the description is       *)
(* passed over; in the late one an override for the ticker says that it    *)
(* has no company.                                                         *)
(***************************************************************************)
EXTENDS TickerLinks, TLC

CONSTANTS share, fund, goog, googl, gone, alphabet, early, late

MCParsed == [t \in Tx |-> IF t = fund THEN gone ELSE NoTicker]
MCSec ==
    [r \in Release |-> [k \in Ticker |-> IF k = gone /\ r = late THEN NoCik ELSE alphabet]]
MCTickerOverride ==
    [r \in Release |-> [k \in Ticker |->
        IF k = gone /\ r = late THEN [ticker |-> NoTicker, cik |-> NoCik] ELSE NoOverride]]
MCTextOverride ==
    [r \in Release |-> [t \in Tx |->
        CASE r = late /\ t = share -> [ticker |-> gone, cik |-> alphabet]
          [] r = early /\ t = fund -> [ticker |-> googl, cik |-> NoCik]
          [] OTHER -> NoOverride]]
MCScore == [t \in Tx |-> [k \in Ticker |-> IF k = gone THEN 40 ELSE 95]]

=============================================================================
