SPECIFICATION Spec
CONSTANTS
    one = one
    two = two
    btc = btc
    Tickers = {one, two}
    Cryptos = {btc}
    CryptoOf <- MCCryptoOf
    Strike <- MCStrike
    OpenAt <- MCOpenAt
    CycleLen = 4
    TriggerOpen = 2
    From = 0
    To = 7
    TickerRank <- MCTickerRank
    CryptoRank <- MCCryptoRank
    MaxSpotAge = 2
    MaxSize = 2
    MaxContracts = 1
    Markdown = 0
    MaxBarAge = 5
    MaxDelay = 2
    MaxLead = 1
    Captures <- MCCaptures
INVARIANTS TypeOK SummaryAddsUp LookAheadBounded SettledIfCaptured ScoredAsResolved
PROPERTIES ImplementsReceiptOrder
CHECK_DEADLOCK FALSE
