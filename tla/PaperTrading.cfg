SPECIFICATION Spec
CONSTANTS
    Openers = {c1, c2}
    Starting = 906
    Market = 300
    Stop = 286
    Target = 320
    Prices = {286, 300}
    Slippage = 1
    Commission = 1
    TradeLimit = 2
    HeatLimit = 2
    MaxPositions = 2
    MaxTrades = 2
    MaxAccounts = 2
    MaxRows = 4
    MaxBusy = 2
SYMMETRY OpenerSymmetry
INVARIANT TypeOK
INVARIANT LedgerAgrees
INVARIANT ClosedHaveTrades
INVARIANT RepeatsBounded
INVARIANT HeatBounded
PROPERTY DeletedAccountsStayDeleted
CHECK_DEADLOCK FALSE
