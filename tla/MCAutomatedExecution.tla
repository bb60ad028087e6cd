------------------------ MODULE MCAutomatedExecution ------------------------
(* The execution service on one symbol pair of one campaign, with the real  *)
(* percentages, on an account whose heat starts just below its limit.       *)
EXTENDS AutomatedExecution

MCCampaignOf == [x \in Symbols |-> "campaign1"]
MCGroupOf == [x \in Symbols |-> "group1"]

MCHeld0 == [x \in Symbols |-> IF x = "AAPL" THEN 1 ELSE 0]
MCExposure0 == [k \in Keys |-> IF k = "portfolio" THEN 99 ELSE IF k = "campaign1" THEN 18 ELSE 36]

\* A heat that one fill of 18 takes to the limit and not past it.
MCExposureOneBelow == [MCExposure0 EXCEPT !["portfolio"] = 82]

Signal(a, x, e, s, d, b) ==
    [action |-> a, symbol |-> x, entry |-> e, stop |-> s, direction |-> d, balance |-> b]

\* Risks 18 (1.8%); sized with twice the balance, so 36; closes the position; a trade of
\* exactly 2%; a stop on the wrong side; a balance too small for one share.
MCRequests == {
    Signal("ENTRY", "MSFT", 50, 41, "LONG", NoBalance),
    Signal("ADD", "AAPL", 50, 59, "SHORT", 2000),
    Signal("EXIT", "AAPL", 50, 41, "LONG", NoBalance),
    Signal("ENTRY", "AAPL", 50, 40, "LONG", NoBalance),
    Signal("ENTRY", "MSFT", 50, 59, "LONG", 1000),
    Signal("ENTRY", "MSFT", 50, 41, "LONG", 100)}
=============================================================================
