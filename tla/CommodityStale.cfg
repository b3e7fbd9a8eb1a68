SPECIFICATION Spec
CONSTANTS
    gold = gold
    oil = oil
    g1 = g1
    g2 = g2
    o1 = o1
    Tickers = {g1, g2, o1}
    Commodities = {gold, oil}
    CommodityOf <- MCCommodityOf
    CloseAt <- MCCloseAt
    Listing <- MCListing
    Marks <- MCMarks
    Tolerance = 1
    OpenMinutes = 2
    CloseMinutes = 0
    DailyCap = 2
    TotalCap = 3
    CostsOf <- MCCostsOf
    RefreshEvery = 1
    Keep = 0
    DayLen = 2
    MaxTime = 3
INVARIANTS NeverStale

CHECK_DEADLOCK FALSE
