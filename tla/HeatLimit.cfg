SPECIFICATION Spec
CONSTANTS
    Tasks = {t1, t2}
    Symbols = {"AAPL", "MSFT"}
    Campaigns = {"campaign1"}
    Groups = {"group1"}
    CampaignOf <- MCCampaignOf
    GroupOf <- MCGroupOf
    Requests <- MCRequests
    EnabledModes = {"PAPER"}
    NoBalance = NoBalance
    Balance = 1000
    Exposure0 <- MCExposureOneBelow
    Held0 <- MCHeld0
    TradeLimit = 2
    CampaignLimit = 5
    CorrelatedLimit = 6
    HeatLimit = 10
    ValueLimit = 20
    MaxSize = 10000
    MaxRetries = 1
    CancelOnTimeout = FALSE
    Required = {"balance", "position", "heat", "campaign", "correlated"}
    Supported = {"heat", "campaign", "correlated"}
INVARIANT HeatWithinLimit
