SPECIFICATION Spec
CONSTANTS
    btc = btc
    low = low
    high = high
    next = next
    daily = daily
    Tickers = {low, high, next, daily}
    Cryptos = {btc}
    CryptoOf <- MCCryptoOf
    OpenAt <- MCOpenAt
    Length <- MCLength
    MaxCycle = 3
    TraderMarks = {0}
    SkipTimes = {1, 2}
    MaxSize = 1
    Levered = {btc}
    TiltAt = 5
    TiltSize = 3
    DownSize = 1
    CryptoCap <- MCCryptoCap
    MaxContracts = 1
    SweepMarks <- MCSweepMarks
    SweepCryptos <- MCSweepCryptos
    MaxRungs <- MCMaxRungs
    RungSize <- MCRungSize
    LossCap <- MCLossCap
    Books <- MCBooks
    DayLen = 2
    MaxTime = 2
    MaxBoots = 1
INVARIANTS TypeOK OrdersBounded RungsTracked TallyExact HourOnly
PROPERTIES CapStopsSweeper
CHECK_DEADLOCK FALSE
SYMMETRY Strikes
