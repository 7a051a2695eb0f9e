\* One linker, one filing at a time: an override is added for a flagged filing
\* while another flagged one never matches.
CONSTANTS
    smith = smith
    clear = clear
    candidate = candidate
    john = john
    jon = jon
    tJohn = tJohn
    tJon = tJon
    tJonLater = tJonLater
    Filing = {smith, candidate}
    Politician = {john, jon}
    Term = {tJohn, tJon, tJonLater}
    NoOne = noone
    TermOf <- MCTermOf
    Covers <- MCCovers
    Score <- MCScore
    Override <- MCOverride
    Version <- MCVersion
    Scheduled = {c}
    Manual = {}
    BatchSize = 1
    ChunkSize = 1
SPECIFICATION LiveSpec
PROPERTIES
    OverrideTakesEffect
