-------------------------- MODULE MCPoliticianLinks --------------------------
(***************************************************************************)
(* Instances of PoliticianLinks.  `smith` is a name that two politicians   *)
(* come close to, `candidate` one that nobody comes close to, `clear` one  *)
(* that somebody matches.  The second version of the source has another    *)
(* term for the second politician.                                         *)
(***************************************************************************)
EXTENDS PoliticianLinks, TLC

CONSTANTS smith, clear, candidate, john, jon, tJohn, tJon, tJonLater

MCTermOf == [t \in Term |-> IF t = tJohn THEN john ELSE jon]
MCCovers == [t \in Term |-> Filing]
MCScore ==
    [f \in Filing |->
        CASE f = smith -> [p \in Politician |-> IF p = john THEN 90 ELSE 86]
          [] f = clear -> [p \in Politician |-> IF p = john THEN 40 ELSE 95]
          [] OTHER -> [p \in Politician |-> 30]]
MCOverride == [f \in Filing |-> IF f = smith THEN jon ELSE NoOne]
MCVersion == {{tJohn, tJon}, {tJohn, tJonLater}}

=============================================================================
