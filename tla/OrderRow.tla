------------------------------ MODULE OrderRow ------------------------------
(* One order from the broker's callbacks to its row: the adapter's handlers *)
(* on the reader thread, the coalescer that writes the order's snapshot on  *)
(* the event loop with one write in flight, and the basket's own writes of  *)
(* the same row from another transaction.                                   *)
EXTENDS Integers, Sequences, FiniteSets

CONSTANTS
  Lots,         \* the order's quantity; every execution is of one lot
  OwnWrites,    \* how often execute writes the row itself
  MaxMishaps    \* bound: drops, refused cancels and failed writes, together

ASSUME OrderRowAssumption == Lots \in Nat \ {0} /\ OwnWrites \in Nat /\ MaxMishaps \in Nat

VARIABLES
  broker,     \* the order at the broker: lots filled, and how it stands
  due,        \* callbacks on their way
  online,
  oms,        \* the OMSOrder in memory with what the adapter keeps about it
  emitted,    \* _broker_acked, _fill_event_emitted
  scheduled,  \* how many events were handed to the event loop and have not run
  write,      \* the coalescer: in flight, dirty, where its write stands
  basket,     \* execute's own write, and how many are left
  orderRow,   \* orders: status and fill_qty
  mishaps,
  late,       \* history: a fill, or its execution, was heard with or after an end
              \* that is not FILLED
  behind      \* history: the last write failed, or had begun before another
              \* one ended

orderVars == <<broker, due, online, oms, emitted, scheduled, write, basket, orderRow, mishaps,
           late, behind>>

Terminal == {"FILLED", "CANCELLED", "REJECTED", "ERROR"}

Status(st, n)  == [kind |-> "status", st |-> st, lots |-> n]
ExecMsg(n)     == [kind |-> "exec", st |-> "", lots |-> n]
CommissionMsg(n) == [kind |-> "commission", st |-> "", lots |-> n]
ErrorOf(st)    == [kind |-> "error", st |-> st, lots |-> broker.lots]

Unread == [status |-> "PENDING", lots |-> 0]

OrderRowInit ==
  /\ broker = [lots |-> 0, state |-> "working"] /\ due = {Status("SUBMITTED", 0)} /\ online = TRUE
  /\ oms = [status |-> "PENDING", lots |-> 0, execs |-> {}, commissions |-> {}, message |-> "", told |-> 0]
  /\ emitted = {} /\ scheduled = 0
  /\ write = [inFlight |-> FALSE, dirty |-> FALSE, at |-> "idle", value |-> Unread, stale |-> FALSE]
  /\ basket = [left |-> OwnWrites, at |-> "idle", value |-> Unread, stale |-> FALSE]
  /\ orderRow = [status |-> "PENDING", lots |-> 0]
  /\ mishaps = 0 /\ late = FALSE /\ behind = FALSE

OrderRowTypeOK ==
  /\ oms.lots \in 0 .. Lots /\ oms.execs \subseteq 1 .. Lots
  /\ oms.status \in Terminal \cup {"PENDING", "SUBMITTED", "PARTIALLY_FILLED"}
  /\ emitted \subseteq {"ACK", "FILL"} /\ scheduled \in Nat
  /\ orderRow.lots \in 0 .. Lots
  /\ orderRow.status \in Terminal \cup {"PENDING", "SUBMITTED", "PARTIALLY_FILLED"}

Mishap == mishaps < MaxMishaps /\ mishaps' = mishaps + 1

-----------------------------------------------------------------------------
(* The broker.                                                             *)

Send(ms) == due' = IF online THEN due \cup ms ELSE due

BrokerFills ==
  LET n == broker.lots + 1 IN
  /\ broker.state = "working"
  /\ broker' = [lots |-> n, state |-> IF n = Lots THEN "filled" ELSE "working"]
  /\ Send({ExecMsg(n), CommissionMsg(n), Status(IF n = Lots THEN "FILLED" ELSE "SUBMITTED", n)})
  /\ UNCHANGED <<online, oms, emitted, scheduled, write, basket, orderRow, mishaps, late, behind>>

BrokerCancels ==
  /\ broker.state = "working" /\ broker' = [broker EXCEPT !.state = "cancelled"]
  /\ Send({Status("CANCELLED", broker.lots), ErrorOf("CANCELLED")})
  /\ UNCHANGED <<online, oms, emitted, scheduled, write, basket, orderRow, mishaps, late, behind>>

\* A cancel of an order that has ended is answered by error 10147 or 10148.
BrokerRefusesCancel ==
  /\ broker.state # "working" /\ Mishap /\ Send({ErrorOf("REJECTED")})
  /\ UNCHANGED <<broker, online, oms, emitted, scheduled, write, basket, orderRow, late, behind>>

-----------------------------------------------------------------------------
(* The adapter's callbacks.                                                *)

Greater(a, b) == IF a > b THEN a ELSE b
IsTerminal    == oms.status \in Terminal

\* _apply_mapped_status on an order that has not ended.
Applied(st, n) ==
  LET lots == Greater(oms.lots, n) IN
  [oms EXCEPT !.lots = lots,
              !.status = CASE st = "CANCELLED" -> "CANCELLED"
                           [] st # "CANCELLED" /\ lots > 0 /\ n < Lots -> "PARTIALLY_FILLED"
                           [] st # "CANCELLED" /\ lots >= Lots /\ n >= Lots -> "FILLED"
                           [] OTHER -> st]

\* _callback_event_kinds, for the order o as the callback leaves it.
Events(o, partial) ==
  (IF "ACK" \in emitted THEN <<>> ELSE <<"ACK">>)
    \o (IF o.status = "FILLED" /\ "FILL" \notin emitted THEN <<"FILL">> ELSE <<>>)
    \o (IF o.status = "PARTIALLY_FILLED" /\ partial THEN <<"PARTIAL">> ELSE <<>>)

\* What a callback leaves behind: the order, and one task for each event.
Emit(o, kinds) ==
  /\ oms' = o /\ scheduled' = scheduled + Len(kinds)
  /\ emitted' = emitted \cup ({kinds[i] : i \in DOMAIN kinds} \cap {"ACK", "FILL"})
  /\ late' = (late \/ (o.status \in Terminal \ {"FILLED"} /\ (o.lots > oms.lots \/ o.execs # oms.execs)))
  /\ UNCHANGED <<broker, online, write, basket, orderRow, mishaps, behind>>

\* The status and the execution of a fill come in any order but after those of
\* the fills before it; commissions keep their own order.
Hears(m) ==
  /\ online /\ m \in due /\ due' = due \ {m}
  /\ \A k \in due : (k.kind = "commission") = (m.kind = "commission") => m.lots <= k.lots

\* on_order_status and on_open_order: a partial fill is told of only while no
\* execution is known.
OnOrderStatus(m) ==
  LET o       == IF IsTerminal THEN oms ELSE Applied(m.st, m.lots)
      partial == oms.execs = {} /\ o.lots > oms.told
      kinds   == Events(o, partial)
  IN  /\ m.kind = "status" /\ Hears(m)
      /\ Emit(IF o.status = "PARTIALLY_FILLED" /\ partial THEN [o EXCEPT !.told = o.lots] ELSE o, kinds)

\* on_exec_details: an order that has ended takes the fill and keeps its status.
OnExecDetails(m) ==
  LET lots == Greater(oms.lots, m.lots)
      o    == [oms EXCEPT !.lots = lots, !.execs = @ \cup {m.lots},
                          !.status = IF IsTerminal THEN @
                                     ELSE IF lots >= Lots THEN "FILLED" ELSE "PARTIALLY_FILLED"]
  IN  /\ m.kind = "exec" /\ Hears(m)
      /\ Emit(o, Events(o, m.lots \notin oms.execs))

\* on_commission_report: one that comes before its execution waits for it.
OnCommissionReport(m) ==
  /\ m.kind = "commission" /\ Hears(m)
  /\ Emit([oms EXCEPT !.commissions = @ \cup {m.lots}],
          IF m.lots \in oms.execs \ oms.commissions THEN <<"COMMISSION">> ELSE <<>>)

\* on_error: the first message ends an order that works and is kept; an event
\* named FILLED is not one the coordinator knows.
OnError(m) ==
  LET o == [oms EXCEPT !.message = m.st, !.status = IF IsTerminal THEN @ ELSE m.st]
  IN  /\ m.kind = "error" /\ Hears(m)
      /\ IF oms.message = "" THEN Emit(o, IF o.status = "FILLED" THEN <<>> ELSE <<"END">>)
                             ELSE Emit(oms, <<>>)

\* on_connection_closed parks the order; nothing is written.
Park ==
  /\ online /\ Mishap /\ online' = FALSE /\ due' = {}
  /\ oms' = IF IsTerminal THEN oms ELSE [oms EXCEPT !.status = "ERROR", !.message = "Connection closed"]
  /\ UNCHANGED <<broker, emitted, scheduled, write, basket, orderRow, late, behind>>

\* on_connection_restored: the open order and the day's executions are asked
\* for; the end of an order that was cancelled meanwhile is not reported, and a
\* commission heard again changes nothing.
Unpark ==
  /\ ~online /\ online' = TRUE
  /\ oms' = IF oms.message = "Connection closed" /\ oms.status = "ERROR"
            THEN [oms EXCEPT !.status = "SUBMITTED", !.message = ""] ELSE oms
  /\ due' = {ExecMsg(n) : n \in 1 .. broker.lots} \cup {CommissionMsg(n) : n \in (1 .. broker.lots) \ oms.commissions}
              \cup (IF broker.state = "working" THEN {Status("SUBMITTED", broker.lots)} ELSE {})
  /\ UNCHANGED <<broker, emitted, scheduled, write, basket, orderRow, mishaps, late, behind>>

-----------------------------------------------------------------------------
(* _persist_broker_snapshot_coalesced.                                     *)

\* record_oms_order reads the fill, then awaits the row.
Begun(w) == [w EXCEPT !.at = "begun", !.value.lots = oms.lots, !.stale = FALSE]

\* It has the row: a status that had ended stays and the fill only grows.  The
\* upsert is awaited with these values.
Read(w) ==
  LET ended == orderRow.status \in Terminal \ {"ERROR"} IN
  [w EXCEPT !.at = "read",
            !.value = [status |-> IF ended THEN orderRow.status ELSE oms.status,
                       lots   |-> IF ended THEN Greater(orderRow.lots, w.value.lots) ELSE w.value.lots]]

Overtaken(w) == [w EXCEPT !.stale = w.at \in {"begun", "read"}]
Idle(w)      == [w EXCEPT !.at = "idle", !.value = Unread, !.stale = FALSE]

\* The head of the loop: the mark is taken before the order is read.
Taken == [Begun(write) EXCEPT !.inFlight = TRUE, !.dirty = FALSE]

RunTask ==
  /\ scheduled > 0 /\ scheduled' = scheduled - 1
  /\ IF write.inFlight THEN write' = [write EXCEPT !.dirty = TRUE] /\ UNCHANGED late
                       ELSE write' = Taken /\ late' = FALSE
  /\ UNCHANGED <<broker, due, online, oms, emitted, basket, orderRow, mishaps, behind>>

ReadRow ==
  /\ write.at = "begun" /\ write' = Read(write)
  /\ UNCHANGED <<broker, due, online, oms, emitted, scheduled, basket, orderRow, mishaps, late, behind>>

Written_ClearsMark == [Idle(write) EXCEPT !.at = "written", !.dirty = FALSE]

\* A mark that a callback set during the write outlives it.
Written == [Idle(write) EXCEPT !.at = "written"]

CommitOrder ==
  /\ write.at = "read"
  /\ orderRow' = write.value /\ write' = Written
  /\ basket' = Overtaken(basket) /\ behind' = write.stale
  /\ UNCHANGED <<broker, due, online, oms, emitted, scheduled, mishaps, late>>

\* The end of the loop and the finally clause: no section under the lock
\* awaits, so nothing comes between them.
CheckDirty ==
  /\ write.at = "written"
  /\ IF write.dirty THEN write' = Taken /\ late' = FALSE
                    ELSE write' = [Idle(write) EXCEPT !.inFlight = FALSE] /\ UNCHANGED late
  /\ UNCHANGED <<broker, due, online, oms, emitted, scheduled, basket, orderRow, mishaps, behind>>

\* A database error ends the loop; a mark that was set meanwhile stays for
\* the next callback.
WriteFails ==
  /\ write.at = "read" /\ Mishap
  /\ write' = [Idle(write) EXCEPT !.inFlight = FALSE]
  /\ basket' = Overtaken(basket) /\ behind' = TRUE
  /\ UNCHANGED <<broker, due, online, oms, emitted, scheduled, orderRow, late>>

-----------------------------------------------------------------------------
(* execute's own writes of its child orders.                               *)

BasketBegins ==
  /\ basket.left > 0 /\ basket.at = "idle" /\ basket' = Begun(basket) /\ late' = FALSE
  /\ UNCHANGED <<broker, due, online, oms, emitted, scheduled, write, orderRow, mishaps, behind>>

BasketReads ==
  /\ basket.at = "begun" /\ basket' = Read(basket)
  /\ UNCHANGED <<broker, due, online, oms, emitted, scheduled, write, orderRow, mishaps, late, behind>>

BasketCommits ==
  /\ basket.at = "read"
  /\ orderRow' = basket.value /\ basket' = [Idle(basket) EXCEPT !.left = @ - 1]
  /\ write' = Overtaken(write) /\ behind' = basket.stale
  /\ UNCHANGED <<broker, due, online, oms, emitted, scheduled, mishaps, late>>

OrderRowNext ==
  \/ BrokerFills \/ BrokerCancels \/ BrokerRefusesCancel
  \/ \E m \in due : OnOrderStatus(m) \/ OnExecDetails(m) \/ OnCommissionReport(m) \/ OnError(m)
  \/ Park \/ Unpark
  \/ RunTask \/ ReadRow \/ CommitOrder \/ CheckDirty \/ WriteFails
  \/ BasketBegins \/ BasketReads \/ BasketCommits

\* coordinator.py:1264: callbacks come in while a write of the order is in
\* flight, and only some of them ask for a write.  When nothing is left to run
\* the row has every fill the adapter has heard of, and the end of a filled
\* order, unless the fill or its execution came with or after another end of
\* the order, or the last write failed or had begun before another one ended.
RowKnowsFills ==
  online /\ basket.left = 0 /\ due = {} /\ scheduled = 0 /\ ~write.inFlight
    => \/ late \/ behind
       \/ orderRow.lots = oms.lots /\ (oms.status = "FILLED" => orderRow.status = "FILLED")
=============================================================================
