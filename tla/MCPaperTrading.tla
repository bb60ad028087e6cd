--------------------------- MODULE MCPaperTrading ---------------------------
(* Paper trading with interchangeable execute_signal calls, for TLC.       *)
EXTENDS PaperTrading, TLC

OpenerSymmetry == Permutations(Openers)
=============================================================================
