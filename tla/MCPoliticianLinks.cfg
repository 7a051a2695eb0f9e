\* The collector and a catch-up link two filings while the terms are replaced.
CONSTANTS
    smith = smith
    clear = clear
    candidate = candidate
    john = john
    jon = jon
    tJohn = tJohn
    tJon = tJon
    tJonLater = tJonLater
    Filing = {smith, clear}
    Politician = {john, jon}
    Term = {tJohn, tJon, tJonLater}
    NoOne = noone
    TermOf <- MCTermOf
    Covers <- MCCovers
    Score <- MCScore
    Override <- MCOverride
    Version <- MCVersion
    Scheduled = {c}
    Manual = {k}
    BatchSize = 1
    ChunkSize = 1
SPECIFICATION LiveSpec
INVARIANTS
    LinkIsNoGuess
    FlagsAreBounded
    TermsAreOneVersion
PROPERTIES
    EveryFilingIsHandled
