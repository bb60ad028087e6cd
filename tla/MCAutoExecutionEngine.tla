----------------------- MODULE MCAutoExecutionEngine -----------------------
(* Two engine calls and a reserving caller over two days; every limit is    *)
(* low enough to be reached.                                                *)
EXTENDS AutoExecutionEngine, TLC

MCRiskOf == [s \in Signals |-> IF s = "spring" THEN 1 ELSE 2]

MCFilters == {Signals}

EngineSymmetry == Permutations(Engines)

MCDefaults == [exists |-> TRUE, enabled |-> FALSE, kill |-> FALSE, consent |-> FALSE,
               caps |-> CHOOSE c \in Caps : TRUE, admits |-> Signals]
=============================================================================
