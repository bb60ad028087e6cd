SPECIFICATION Spec
CONSTANTS
    Engines = {e1, e2}
    Reservers = {r1}
    Signals = {"spring", "sos"}
    RiskOf <- MCRiskOf
    TradeLimits = {1}
    RiskLimits = {3}
    Filters <- MCFilters
    Defaults <- MCDefaults
    MaxFaults = 1
    MaxCounter = 1
SYMMETRY EngineSymmetry
INVARIANT TypeOK
INVARIANT DailyTradesBounded
INVARIANT CountersCoverPositions
INVARIANT ReservationsWithinLimit
PROPERTY KillSwitchStopsNewEvaluations
