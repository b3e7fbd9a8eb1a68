SPECIFICATION SpotSpec
CONSTANTS
    btc = btc
    eth = eth
    doge = doge
    Cryptos = {btc, eth, doge}
    MaxFailures = 3
    RetryAfter = 22
    PollEvery = 1
    PollTimeout = 10
    BackoffBase = 1
    BackoffCap = 30
    ConnectTimeout = 10
    MaxAttempt = 5
INVARIANTS OutageBounded
PROPERTIES SpotComes CoinbaseRetried
