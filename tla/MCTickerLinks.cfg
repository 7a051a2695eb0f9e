\* The collector and a catch-up, each run on either commit.
CONSTANTS
    share = share
    fund = fund
    goog = goog
    googl = googl
    gone = gone
    alphabet = alphabet
    early = early
    late = late
    Tx = {share, fund}
    Ticker = {goog, googl, gone}
    Zeros = zeros
    Cik = {alphabet, zeros}
    NoTicker = noticker
    NoCik = nocik
    NoOverride = nooverride
    Instr = {i1, i2, i3}
    NoInstr = noinstr
    Parsed <- MCParsed
    Release = {early, late}
    Sec <- MCSec
    TickerOverride <- MCTickerOverride
    TextOverride <- MCTextOverride
    Score <- MCScore
    Scheduled = {c}
    Manual = {k}
    BatchSize = 1
SPECIFICATION LiveSpec
INVARIANTS
    LinkIsResolved
    InstrumentsAreBounded
PROPERTIES
    EveryTransactionIsHandled
