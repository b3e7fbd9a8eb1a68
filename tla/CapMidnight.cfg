SPECIFICATION Spec
CONSTANTS
    Markets = {m1}
    Settling = {m1}
    Picks <- MCPicks
    CostLists <- MCCostLists
    Payout = 4
    Cap = 3
    Days = 2
    MaxBoots = 1
INVARIANTS RealizedSinceMidnight

CHECK_DEADLOCK FALSE
