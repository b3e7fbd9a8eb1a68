SPECIFICATION Spec
CONSTANTS
    btc = btc
    early = early
    late = late
    Tickers = {early, late}
    Cryptos = {btc}
    CryptoOf <- MCCryptoOf
    OpenAt <- MCOpenAt
    CycleLen = 3
    TriggerOpen = 1
    Cutoff = 2
    Throttle = 1
    MaxSpotAge = 0
    MaxContracts = 1
    MaxConcurrent = 1
    MaxSize = 2
    Modes = {"disabled", "polling"}
    MaxLag = 0
    MaxLead = 0
    MaxTime = 3
    MaxQueue = 1
    MaxBoots = 2
INVARIANTS TypeOK ShieldInv HoldingKnown
PROPERTIES BuysOnce
CHECK_DEADLOCK FALSE
