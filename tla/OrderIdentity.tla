---------------------------- MODULE OrderIdentity ---------------------------
(* Which order a broker callback belongs to: order ids reserved from a      *)
(* counter that every handshake overwrites, the adapter's maps, the row     *)
(* written before the order is placed, and the orders adopted from those    *)
(* rows after a crash.  The orders are of one contract, side and quantity,  *)
(* the case in which nothing but the ids tells them apart.                  *)
EXTENDS Integers, FiniteSets

CONSTANTS
  Orders,       \* strings
  ForeignIds,   \* ids an order of another API client may have
  MaxFaults     \* bound: drops and crashes

OrderIds     == 1 .. Cardinality(Orders) + 1
Foreign == "foreign"
NoOrder == "none"

ASSUME OrderIdentityAssumption ==
  /\ IsFiniteSet(Orders) /\ Foreign \notin Orders /\ NoOrder \notin Orders
  /\ ForeignIds \subseteq OrderIds /\ MaxFaults \in Nat

VARIABLES
  stage,      \* how far submit_order has come with the order
  reserved,   \* the id submit_order has reserved and places the order with
  twsId,      \* ibkr_order_id of the order and of its row
  byTws,      \* _orders_by_tws_id
  adopted,    \* orders this process knows from their rows
  perm,       \* perm_id of an order: the execution it was last seen on
  applied,    \* the executions applied to an order
  over,       \* orders that are terminal in memory
  nextId,     \* next_order_id; 0 for None
  openRow,    \* orders with a row that is PENDING, SUBMITTED, PARTIALLY_FILLED or ERROR
  endedRow,
  jobs,       \* orders whose job or basket is pending
  placedId,   \* the order's id at the gateway; 0 if it never came there
  filled,     \* orders filled at the broker
  foreignId,  \* the id of the order that another client has had filled; 0 before
  reports,    \* execDetails on their way
  process,    \* "up", "down" or "boot", before the recovery scan
  link,       \* "up" or "down"
  faults,
  twins,      \* history: orders that had one id in one process, in the rows
              \* that a scan finds or at the gateway, and adopted ones whose
              \* id went to a new order
  unadopted   \* history: orders that a recovery scan did not look for

submission == <<stage, reserved, twsId, nextId, jobs>>
maps       == <<byTws, adopted, perm, applied, over>>
rowVars    == <<openRow, endedRow>>
gateway    == <<placedId, filled, foreignId, reports>>
identity   == <<submission, maps, rowVars, gateway, process, link, faults, twins, unadopted>>

InMemory  == {o \in Orders : stage[o] \in {"reserved", "recorded", "placed"}}
Known     == InMemory \cup adopted
NextAtGateway ==
  CHOOSE n \in OrderIds : (\A o \in Orders : placedId[o] < n)
                       /\ (n = 1 \/ \E o \in Orders : placedId[o] = n - 1)

IdentityInit ==
  /\ stage = [o \in Orders |-> "none"] /\ reserved = [o \in Orders |-> 0] /\ twsId = [o \in Orders |-> 0]
  /\ nextId = 1 /\ jobs = {}
  /\ byTws = [i \in OrderIds |-> NoOrder] /\ adopted = {} /\ perm = [o \in Orders |-> NoOrder]
  /\ applied = [o \in Orders |-> {}] /\ over = {} /\ openRow = {} /\ endedRow = {}
  /\ placedId = [o \in Orders |-> 0] /\ filled = {} /\ foreignId = 0 /\ reports = {}
  /\ process = "up" /\ link = "up" /\ faults = 0 /\ twins = {} /\ unadopted = {}

IdentityTypeOK ==
  /\ stage \in [Orders -> {"none", "checked", "reserved", "recorded", "placed", "gone"}]
  /\ twsId \in [Orders -> OrderIds \cup {0}] /\ byTws \in [OrderIds -> Orders \cup {NoOrder}]
  /\ nextId \in 0 .. Cardinality(Orders) + 2 /\ placedId \in [Orders -> OrderIds \cup {0}]
  /\ applied \in [Orders -> SUBSET (Orders \cup {Foreign})] /\ openRow \cap endedRow = {}
  /\ over \cup adopted \cup jobs \cup filled \cup twins \cup unadopted \subseteq Orders

Fault == faults < MaxFaults /\ faults' = faults + 1

-----------------------------------------------------------------------------
(* submit_order.                                                           *)

\* is_connected is asked before the wait for the limiter.
CheckConnected(o) ==
  /\ process = "up" /\ link = "up" /\ stage[o] = "none"
  /\ stage' = [stage EXCEPT ![o] = "checked"] /\ jobs' = jobs \cup {o}
  /\ UNCHANGED <<reserved, twsId, nextId, maps, rowVars, gateway, process, link, faults, twins, unadopted>>

\* The orders among S that have the id or are to be placed with it.
SameId(S, i) == {p \in S : i \in {reserved[p], twsId[p]}}

\* allocate_next_order_id, and the maps registered under one lock.
Reserve(o) ==
  LET before == SameId(InMemory, nextId) IN
  /\ stage[o] = "checked" /\ nextId # 0
  /\ stage' = [stage EXCEPT ![o] = "reserved"] /\ twsId' = [twsId EXCEPT ![o] = nextId]
  /\ reserved' = [reserved EXCEPT ![o] = nextId]
  /\ nextId' = nextId + 1
  /\ byTws' = [byTws EXCEPT ![nextId] = o]
  /\ twins' = twins \cup SameId(adopted, nextId) \cup (IF before = {} THEN {} ELSE before \cup {o})
  /\ UNCHANGED <<jobs, adopted, perm, applied, over, rowVars, gateway, process, link, faults, unadopted>>

\* The RuntimeError while no nextValidId has come.
NoIdYet(o) ==
  /\ stage[o] = "checked" /\ nextId = 0
  /\ stage' = [stage EXCEPT ![o] = "gone"]
  /\ UNCHANGED <<reserved, twsId, nextId, jobs, maps, rowVars, gateway, process, link, faults, twins, unadopted>>

Record(o) ==
  /\ stage[o] = "reserved"
  /\ stage' = [stage EXCEPT ![o] = "recorded"] /\ openRow' = openRow \cup {o}
  /\ UNCHANGED <<reserved, twsId, nextId, jobs, maps, endedRow, gateway, process, link, faults, twins, unadopted>>

Place_BeforeRow(o) ==
  /\ stage[o] \in {"reserved", "recorded"} /\ link = "up"
  /\ stage' = [stage EXCEPT ![o] = "placed"]
  /\ placedId' = [placedId EXCEPT ![o] = reserved[o]]
  /\ UNCHANGED <<reserved, twsId, nextId, jobs, maps, rowVars, filled, foreignId,
                 reports, process, link, faults, twins, unadopted>>

\* placeOrder: an id the gateway has seen is refused by error 103, a closed
\* socket by 504; either ends the order that the map has for the id.
Place(o) ==
  LET comes == link = "up" /\ \A p \in Orders : placedId[p] # reserved[o] IN
  /\ stage[o] = "recorded" /\ stage' = [stage EXCEPT ![o] = "placed"]
  /\ placedId' = IF comes THEN [placedId EXCEPT ![o] = reserved[o]] ELSE placedId
  /\ over' = IF comes THEN over ELSE over \cup ({byTws[reserved[o]]} \ {NoOrder})
  /\ UNCHANGED <<reserved, twsId, nextId, jobs, byTws, adopted, perm, applied, rowVars, filled, foreignId,
                 reports, process, link, faults, twins, unadopted>>

\* The job or the basket ends, which it may do while its order still works.
JobEnds(o) ==
  /\ process = "up" /\ o \in jobs /\ stage[o] \in {"placed", "gone"} /\ jobs' = jobs \ {o}
  /\ UNCHANGED <<stage, reserved, twsId, nextId, maps, rowVars, gateway, process, link, faults, twins, unadopted>>

-----------------------------------------------------------------------------
(* The broker's executions.                                                *)

Execution(o) == [of |-> o, id |-> placedId[o]]

\* What reqExecutions with an empty filter is answered.
Executions ==
  {Execution(o) : o \in filled}
    \cup (IF foreignId = 0 THEN {} ELSE {[of |-> Foreign, id |-> foreignId]})

BrokerFillsOrder(o) ==
  /\ placedId[o] # 0 /\ o \notin filled /\ filled' = filled \cup {o}
  /\ reports' = IF process # "down" /\ link = "up" THEN reports \cup {Execution(o)} ELSE reports
  /\ UNCHANGED <<submission, maps, rowVars, placedId, foreignId, process, link, faults, twins, unadopted>>

ForeignFills(i) ==
  /\ foreignId = 0 /\ foreignId' = i
  /\ UNCHANGED <<submission, maps, rowVars, placedId, filled, reports, process, link, faults, twins, unadopted>>

\* _unmapped_adopted_orders_locked with a conId: an adopted stub has none.
Unmapped == {o \in InMemory \ over : \A i \in OrderIds : byTws[i] # o}

\* _resolve_order_for_tws_callback_locked: by id, by permId, then by contract,
\* side and quantity if they leave one order.
Resolved(m) ==
  LET byPerm == {o \in Known : perm[o] = m.of} IN
  CASE byTws[m.id] # NoOrder -> {byTws[m.id]}
    [] byTws[m.id] = NoOrder /\ byPerm # {} -> byPerm
    [] byTws[m.id] = NoOrder /\ byPerm = {} /\ Cardinality(Unmapped) = 1 -> Unmapped
    [] OTHER -> {}

\* _bind_tws_id_locked, when the match was not by id.
Bound(o, i) ==
  IF byTws[i] = o THEN byTws
  ELSE [byTws EXCEPT ![twsId[o]] = NoOrder, ![i] = o]

OnExecution(m) ==
  /\ process # "down" /\ link = "up" /\ reports' = reports \ {m}
  /\ \/ /\ Resolved(m) = {} /\ UNCHANGED <<twsId, maps>>
     \/ \E o \in Resolved(m) :
          /\ byTws' = Bound(o, m.id) /\ twsId' = [twsId EXCEPT ![o] = m.id]
          /\ perm' = [perm EXCEPT ![o] = m.of]
          /\ applied' = [applied EXCEPT ![o] = @ \cup {m.of}] /\ over' = over \cup {o}
          /\ UNCHANGED adopted
  /\ UNCHANGED <<stage, reserved, nextId, jobs, rowVars, placedId, filled, foreignId, process, link, faults,
                 twins, unadopted>>

\* The row follows the order.
WriteEnd(o) ==
  /\ process # "down" /\ applied[o] # {} /\ o \in openRow
  /\ openRow' = openRow \ {o} /\ endedRow' = endedRow \cup {o}
  /\ UNCHANGED <<submission, maps, gateway, process, link, faults, twins, unadopted>>

-----------------------------------------------------------------------------
(* The session, a crash and the recovery scan.                             *)

LinkDrops ==
  /\ link = "up" /\ process # "down" /\ Fault /\ link' = "down" /\ nextId' = 0 /\ reports' = {}
  /\ UNCHANGED <<stage, reserved, twsId, jobs, maps, rowVars, placedId, filled, foreignId, process,
                 twins, unadopted>>

\* nextValidId, and on_connection_restored asking for the executions.
Handshake ==
  /\ process # "down" /\ link = "down" /\ link' = "up" /\ nextId' = NextAtGateway
  /\ reports' = Executions
  /\ UNCHANGED <<stage, reserved, twsId, jobs, maps, rowVars, placedId, filled, foreignId, process, faults,
                 twins, unadopted>>

Crash ==
  /\ process = "up" /\ Fault /\ process' = "down" /\ link' = "down" /\ nextId' = 0
  /\ stage' = [o \in Orders |-> IF stage[o] = "none" THEN "none" ELSE "gone"]
  /\ byTws' = [i \in OrderIds |-> NoOrder] /\ adopted' = {} /\ perm' = [o \in Orders |-> NoOrder]
  /\ applied' = [o \in Orders |-> {}] /\ over' = {} /\ reports' = {}
  /\ UNCHANGED <<reserved, twsId, jobs, rowVars, placedId, filled, foreignId, twins, unadopted>>

\* The first connect of the lifespan, which may fail.
Boot ==
  /\ process = "down" /\ process' = "boot"
  /\ \/ link' = "up" /\ nextId' = NextAtGateway
     \/ UNCHANGED <<link, nextId>>
  /\ UNCHANGED <<stage, reserved, twsId, jobs, maps, rowVars, gateway, faults, twins, unadopted>>

Namesakes(rows) == {o \in rows : \E p \in rows \ {o} : twsId[o] \in {twsId[p], placedId[p]}}

\* The rows the scan adopts: PENDING, SUBMITTED, PARTIALLY_FILLED and ERROR.
Adoptable == openRow

\* run_startup_recovery: it adopts nothing when no job and no basket is
\* pending; of two rows with one id the one that comes last is in the map.
Recover ==
  /\ process = "boot" /\ process' = "up"
  /\ IF jobs = {}
     THEN UNCHANGED <<byTws, adopted, reports, twins>> /\ unadopted' = {o \in Orders : placedId[o] # 0}
     ELSE /\ adopted' = Adoptable /\ unadopted' = {}
          /\ byTws' \in {f \in [OrderIds -> Adoptable \cup {NoOrder}] : \A i \in OrderIds :
                           LET rows == {o \in Adoptable : twsId[o] = i} IN
                           IF rows = {} THEN f[i] = NoOrder ELSE f[i] \in rows}
          /\ reports' = IF link = "up" THEN reports \cup Executions ELSE reports
          /\ twins' = twins \cup Namesakes(openRow \cup endedRow)
  /\ UNCHANGED <<submission, perm, applied, over, rowVars, placedId, filled, foreignId, link, faults>>

IdentityNext ==
  \/ \E o \in Orders : CheckConnected(o) \/ Reserve(o) \/ NoIdYet(o) \/ Record(o) \/ Place(o)
                         \/ JobEnds(o) \/ BrokerFillsOrder(o) \/ WriteEnd(o)
  \/ \E i \in ForeignIds : ForeignFills(i)
  \/ \E m \in reports : OnExecution(m)
  \/ LinkDrops \/ Handshake \/ Crash \/ Boot \/ Recover

\* Fills missed while the session was down or the process dead are asked for
\* again and find their order by an id that was reserved from a counter the
\* handshake overwrites.  An order is credited only with its own fill, or
\* with one of another client under the same number; and when nothing is on
\* its way every filled order whose row is open has its fill.  Excepted are
\* orders that had one id in one process, adopted rows included, or in the
\* rows a scan finds (tws_client.py:96), and those that a scan without pending
\* jobs did not look for (recovery.py:57).
FillsFindTheirOrder ==
  /\ \A o \in Orders \ twins : \A f \in applied[o] :
       f = o \/ (f = Foreign /\ foreignId = twsId[o])
  /\ process = "up" /\ link = "up" /\ reports = {}
       => \A o \in filled \ (twins \cup unadopted \cup endedRow) : o \in applied[o]
=============================================================================
