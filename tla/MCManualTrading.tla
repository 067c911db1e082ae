-------------------------- MODULE MCManualTrading --------------------------
(* TLC instances of ManualTrading.                                         *)
EXTENDS ManualTrading
============================================================================
