-------------------------- MODULE MCExposureLedger --------------------------
(* TLC instance of ExposureLedger: two trades of one account on the same   *)
(* two symbols, listed in opposite orders, and one trade of another        *)
(* account.                                                                *)
EXTENDS ExposureLedger

MCTrades   == {"t1", "t2", "t3"}
MCAccount  == [t \in MCTrades |-> IF t = "t3" THEN "B" ELSE "A"]
MCStrategy == [t \in MCTrades |-> IF t = "t2" THEN "s2" ELSE "s1"]
MCLegs     == [t \in MCTrades |-> IF t = "t2" THEN <<2, 1>> ELSE <<1, 2>>]
MCSize     == [t \in MCTrades |-> IF t = "t2" THEN 2 ELSE 1]
MCLimit    == [a \in {"A", "B"} |-> 2]
MCFunds    == [a \in {"A", "B"} |-> 9]
MCExecutions == {<<"t1", "OPEN">>, <<"t1", "CLOSE">>, <<"t2", "OPEN">>, <<"t3", "OPEN">>}
============================================================================
