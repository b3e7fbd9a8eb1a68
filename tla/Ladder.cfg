SPECIFICATION Spec
CONSTANTS
    Prices <- MCPrices
    Threshold = 750
    MaxSize = 1
    MaxSeq = 3
    MaxPipe = 2
    MaxConns = 2
INVARIANTS TypeOK DriftIsConfined FavoriteIsReal
