------------------------ MODULE MCCampaignDetector ------------------------
(* The detector on a stock and a coin, and on times that reach the          *)
(* window, the gap and the expiry in every order.                           *)
EXTENDS CampaignDetector

MCGroupOf == [AAPL |-> "EQUITY_TECH", BTCUSD |-> "CRYPTO_MAJOR"]
MCSectorOf == [AAPL |-> "TECH", BTCUSD |-> NoSector]
MCCategoryOf == [AAPL |-> "EQUITY", BTCUSD |-> "CRYPTO"]

Seen(k, strong, low, price, a) ==
    [kind |-> k, strong |-> strong, low |-> low, price |-> price, asset |-> a]

\* With 2% of 1000 at risk: the spring risks 3 a share, so 7 shares and 21.
MCPatterns == {
    Seen("Spring", FALSE, 7, 10, "AAPL"),
    Seen("AutomaticRally", TRUE, 0, 12, "BTCUSD"),
    Seen("SOSBreakout", FALSE, 0, 14, "AAPL"),
    Seen("LPS", FALSE, 0, 13, "AAPL")}

MCTimes == {0, 2, 4, 5}
MCBatches == {b \in MCTimes \X MCTimes : b[1] <= b[2]}
===========================================================================
