------------------------- MODULE MCSignalExecution -------------------------
(* TLC instances of SignalExecution: workers and accounts are symmetric.   *)
EXTENDS SignalExecution, TLC

OpenAndClose == Trades \X {"OPEN", "CLOSE"}
OpenOnly     == Trades \X {"OPEN"}
AllAccounts  == {Accounts}
AllOrNone    == {Accounts, {NoScope}}

Symmetry == Permutations(Workers) \cup Permutations(Accounts)
=============================================================================
