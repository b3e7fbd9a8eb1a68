SPECIFICATION Spec
CONSTANTS
    Markets = {m1, m2}
    Settling = {m1}
    Picks <- MCPicks
    CostLists <- MCCostLists
    Payout = 4
    Cap = 3
    Days = 2
    MaxBoots = 2
INVARIANTS ExactWhenComplete
PROPERTIES BoundHolds CapBinds
CHECK_DEADLOCK FALSE
