----------------------------- MODULE PnlWriter ------------------------------
(* The writer of one trade's live P&L: ticks set the value on the reader   *)
(* thread, the event loop writes it at most once per interval with one     *)
(* write in flight, and the trade's close writes the row from another      *)
(* transaction.                                                            *)
EXTENDS Integers, Sequences

CONSTANTS
  MaxPnl,      \* bound: distinct values of the P&L
  MaxTicks     \* bound: ticks and failed writes, together

ASSUME WriterAssumption == {MaxPnl, MaxTicks} \subseteq Nat

Nothing  == -1            \* no value
Realised == MaxPnl + 1    \* what the close writes into the column

VARIABLES
  latest,      \* history: the P&L of the last tick
  pending,     \* _pending_pnl
  persisted,   \* _last_persisted_pnl
  flight,      \* the values of the writes in progress: before and after their read
  inFlight,    \* _persist_in_flight
  delayed,     \* _persist_delayed
  timers,      \* delayed callbacks that wait for the interval
  tasks,       \* calls of _schedule_persist that the event loop has to run
  recent,      \* less than the interval since the last write
  watched,     \* the trade is in _legs
  row,         \* positions.live_pnl and whether the row is OPEN
  ticks,
  overlapped,  \* history: a write had read the row when it was closed
  reverted     \* history: a tick back to the persisted value was dropped during a write

writer == <<latest, pending, persisted, flight, inFlight, delayed, timers, tasks, recent,
            watched, row, ticks, overlapped, reverted>>

Writes == [value : 0 .. MaxPnl, found : BOOLEAN]

WriterInit ==
  /\ latest = 0 /\ pending = Nothing /\ persisted = 0 /\ flight = <<>> /\ inFlight = FALSE
  /\ delayed = FALSE /\ timers = 0 /\ tasks = 0 /\ recent = FALSE
  /\ watched = TRUE /\ row = [pnl |-> 0, open |-> TRUE] /\ ticks = 0
  /\ overlapped = FALSE /\ reverted = FALSE

WriterTypeOK ==
  /\ latest \in 0 .. MaxPnl /\ {pending, persisted} \subseteq {Nothing} \cup 0 .. MaxPnl
  /\ flight \in Seq(Writes) /\ Len(flight) <= 1
  /\ {inFlight, delayed, recent, watched, overlapped, reverted} \subseteq BOOLEAN
  /\ timers \in 0 .. 1 /\ tasks \in Nat
  /\ row \in [pnl : 0 .. Realised, open : BOOLEAN] /\ ticks \in 0 .. MaxTicks

\* on_tick_price and _recompute: the value, then a task for the event loop.
TickPrice(v) ==
  /\ watched /\ ticks < MaxTicks /\ ticks' = ticks + 1
  /\ latest' = v /\ pending' = v /\ tasks' = tasks + 1 /\ reverted' = FALSE
  /\ UNCHANGED <<persisted, flight, inFlight, delayed, timers, recent, watched, row, overlapped>>

\* _schedule_persist up to its await.
SchedulePersist ==
  /\ tasks > 0 /\ tasks' = tasks - 1
  /\ CASE ~watched \/ pending = Nothing \/ (pending # persisted /\ inFlight) ->
            UNCHANGED <<pending, flight, inFlight, delayed, timers, reverted>>
       [] watched /\ pending # Nothing /\ pending = persisted ->
            /\ pending' = Nothing /\ reverted' = inFlight
            /\ UNCHANGED <<flight, inFlight, delayed, timers>>
       [] watched /\ pending \notin {Nothing, persisted} /\ ~inFlight /\ recent ->
            /\ delayed' = TRUE /\ timers' = IF delayed THEN timers ELSE timers + 1
            /\ UNCHANGED <<pending, flight, inFlight, reverted>>
       [] watched /\ pending \notin {Nothing, persisted} /\ ~inFlight /\ ~recent ->
            /\ inFlight' = TRUE /\ flight' = Append(flight, [value |-> pending, found |-> FALSE])
            /\ UNCHANGED <<pending, delayed, timers, reverted>>
  /\ UNCHANGED <<latest, persisted, recent, watched, row, ticks, overlapped>>

\* The interval is over: the delayed callbacks are due.
IntervalPasses ==
  /\ recent /\ recent' = FALSE
  /\ tasks' = tasks + timers /\ timers' = 0
  /\ UNCHANGED <<latest, pending, persisted, flight, inFlight, delayed, watched, row, ticks,
                 overlapped, reverted>>

-----------------------------------------------------------------------------
(* _persist: update_live_pnl reads the OPEN row and writes it back.        *)

ReadOpenRow ==
  /\ flight # <<>> /\ ~Head(flight).found /\ row.open
  /\ flight' = <<[Head(flight) EXCEPT !.found = TRUE]>> \o Tail(flight)
  /\ UNCHANGED <<latest, pending, persisted, inFlight, delayed, timers, tasks, recent, watched,
                 row, ticks, overlapped, reverted>>

Rescheduled_Never == tasks

\* The call of itself at the end of _schedule_persist.
Rescheduled == tasks + 1

\* The write commits, or finds no OPEN row and changes nothing.
PersistEnds ==
  /\ flight # <<>> /\ (Head(flight).found \/ ~row.open)
  /\ LET w == Head(flight) IN
       /\ row' = IF w.found THEN [row EXCEPT !.pnl = w.value] ELSE row
       /\ persisted' = w.value /\ recent' = TRUE
       /\ pending' = IF pending = w.value THEN Nothing ELSE pending
  /\ flight' = Tail(flight) /\ inFlight' = FALSE /\ delayed' = FALSE
  /\ tasks' = Rescheduled
  /\ UNCHANGED <<latest, timers, watched, ticks, overlapped, reverted>>

PersistFails ==
  /\ flight # <<>> /\ ticks < MaxTicks /\ ticks' = ticks + 1
  /\ flight' = Tail(flight) /\ inFlight' = FALSE /\ delayed' = FALSE
  /\ tasks' = Rescheduled
  /\ UNCHANGED <<latest, pending, persisted, timers, recent, watched, row, overlapped, reverted>>

-----------------------------------------------------------------------------

\* The position's close sets live_pnl to the realised P&L.
CloseRow ==
  /\ row.open /\ row' = [pnl |-> Realised, open |-> FALSE]
  /\ overlapped' = (flight # <<>> /\ Head(flight).found)
  /\ UNCHANGED <<latest, pending, persisted, flight, inFlight, delayed, timers, tasks, recent,
                 watched, ticks, reverted>>

\* unwatch, after the close has committed.
UnwatchWriter ==
  /\ ~row.open /\ watched /\ watched' = FALSE
  /\ pending' = Nothing /\ persisted' = Nothing /\ recent' = FALSE
  /\ inFlight' = FALSE /\ delayed' = FALSE
  /\ tasks' = tasks + timers /\ timers' = 0
  /\ UNCHANGED <<latest, flight, row, ticks, overlapped, reverted>>

WriterNext ==
  \/ \E v \in 0 .. MaxPnl : TickPrice(v)
  \/ SchedulePersist \/ IntervalPasses \/ ReadOpenRow \/ PersistEnds \/ PersistFails
  \/ CloseRow \/ UnwatchWriter

\* pnl.py:936: ticks come in while a write is in flight, while the interval
\* runs and while a write fails.  When nothing is left to run the row of an
\* open trade holds the P&L of the last tick, unless that tick went back to
\* the value written before the one in flight and was dropped as no change;
\* the row of a closed trade holds the realised P&L, unless a write had read
\* the row before it was closed.
RowHasItsPnl ==
  /\ ~reverted /\ watched /\ row.open /\ tasks = 0 /\ timers = 0 /\ flight = <<>> => row.pnl = latest
  /\ ~row.open /\ ~overlapped => row.pnl = Realised
=============================================================================
