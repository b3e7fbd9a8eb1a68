SPECIFICATION FairSpec
CONSTANTS
    btc1 = btc1
    btc2 = btc2
    eth1 = eth1
    Markets = {btc1, btc2, eth1}
    Series <- MCSeries
    SeriesOf <- MCSeriesOf
    MaxFaults = 2
INVARIANTS TypeOK LiveCoversTickers RegisteredReachesFeed
PROPERTIES ListedIsHeard
CHECK_DEADLOCK FALSE
