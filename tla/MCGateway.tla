------------------------------ MODULE MCGateway -----------------------------
(* TLC instance of Gateway.                                                *)
EXTENDS Gateway

MCClients  == {"positions", "executions", "margin", "lines", "limiter", "writer", "row", "ids"}
MCPriority == [flatten |-> 0, order |-> 1, details |-> 2, quote |-> 3, summary |-> 4]
MCCallers  == DOMAIN MCPriority
MCOnLoop   == {"flatten", "order"}

Exec(e)   == [kind |-> "exec", exec |-> e]
Report(e) == [kind |-> "commission", exec |-> e]
End       == [kind |-> "end", exec |-> None]

\* Commissions after their execution, before it, after the end, or not at all.
MCAnswers == {<<Exec("e1"), Report("e1"), Exec("e2"), End>>,
              <<Report("e2"), Exec("e1"), Exec("e2"), End>>,
              <<Exec("e1"), Exec("e2"), End, Report("e1")>>}

\* Two pairs that share a contract, one of them open at the start; the shared
\* contract may be rerouted to the other one.
MCLegs       == [t1 |-> {"x", "y"}, t2 |-> {"y"}]
MCUnderlying == [x |-> "x", y |-> "x"]
=============================================================================
