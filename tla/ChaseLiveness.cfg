SPECIFICATION FairSpec
CONSTANTS
    btc = btc
    early = early
    late = late
    Tickers = {early}
    Cryptos = {btc}
    CryptoOf <- MCCryptoOf
    OpenAt <- MCOpenAt
    CycleLen = 3
    TriggerOpen = 1
    Cutoff = 1
    Throttle = 1
    MaxSpotAge = 0
    MaxContracts = 2
    MaxConcurrent = 1
    MaxSize = 3
    Modes = {"disabled", "polling"}
    MaxLag = 1
    MaxLead = 1
    MaxTime = 3
    MaxQueue = 1
    MaxBoots = 2
INVARIANTS LocalNeverOverstates BoughtPerProcess
PROPERTIES FillApplied
CHECK_DEADLOCK FALSE
