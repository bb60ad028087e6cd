SPECIFICATION Spec
CONSTANTS
    Patterns <- MCPatterns
    Times <- MCTimes
    GroupOf <- MCGroupOf
    SectorOf <- MCSectorOf
    CategoryOf <- MCCategoryOf
    NoSector = NoSector
    NoAsset = NoAsset
    Account = 1000
    RiskPct = 2
    Window = 1
    Gap = 2
    Expiration = 4
    MinPatterns = 2
    MaxConcurrent = 2
    MaxHeat = 3
    MaxPerGroup = 1
    MaxPerSector = 1
    MaxCategoryPct = 100
    HtfStrict = TRUE
    MaxPatterns = 3
    Batches <- MCBatches
CHECK_DEADLOCK FALSE
INVARIANT CompletionsAnnounced
