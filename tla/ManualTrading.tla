--------------------------- MODULE ManualTrading ---------------------------
(* The manual desk of one account: orders sent from the REST API under a   *)
(* client key, the broker callbacks that move their rows and the manual    *)
(* position, and the square-off that flattens it.  One trade_id is         *)
(* followed: "entry" opens it, "exit" is the operator's close ticket and   *)
(* "flat" is the close order of its one square-off.  A callback handler is a*)
(* coroutine with its own session: it reads the order row when it starts   *)
(* and writes when it commits, and others run in between.                  *)
EXTENDS Integers, Sequences, FiniteSets, FiniteSetsExt, SequencesExt

CONSTANTS
  Tickets,      \* keys of the orders the operator submits
  Requests,     \* HTTP requests that submit an order, retries included
  Worker,       \* the background task of the square-off
  EntryLots,    \* lots of the entry order
  ExitLots,     \* lots of the close ticket
  MaxBusy,      \* bound: callback handlers between their read and their commit
  MaxDisturbances \* bound: crashes of the process and replacements of the broker_positions snapshot

ASSUME ConstantsAssumption ==
  /\ Tickets \subseteq {"entry", "exit"} /\ Worker \notin Requests /\ EntryLots \in Nat \ {0} /\ ExitLots \in Nat \ {0}
  /\ MaxBusy \in Nat /\ MaxDisturbances \in Nat

Keys     == Tickets \cup {"flat"}
Senders  == Requests \cup {Worker}
Terminal == {"FILLED", "CANCELLED", "REJECTED", "ERROR"}
Status   == Terminal \cup {"none", "PENDING_SUBMIT", "SUBMITTED", "PARTIALLY_FILLED"}
PosState == {"none", "OPEN", "CLOSING", "PENDING_PRICE", "CLOSED"}
OpState  == {"none", "ACTIVATING", "FLATTENING", "COMPLETE", "UNRESOLVED"}
Active   == {"ACTIVATING", "FLATTENING"}
Reports  == {"SUBMITTED", "FILLED", "CANCELLED", "REJECTED"}

VARIABLES
  status,     \* manual_orders: status by idempotency key
  bid,     \* manual_orders: broker_order_id is set
  lots,    \* manual_orders: signed quantity
  execs,   \* manual_executions: <<key, a, b>> stands for lots a+1 to b of the order
  pos,     \* manual_positions: [qty, state] of the trade
  op,      \* kill_switch_operations: the MANUAL operation
  snap,    \* its snapshot: the quantity of the position at initiation
  bpos,    \* broker_positions: the net position the last sweep stored
  doing,      \* what each request, and the square-off task, is doing
  key,     \* the key of the order a sender is about
  busy,    \* callback handlers between their read and their commit
  mcache,  \* _MANUAL_KILL_SWITCH_ACTIVE_ACCOUNTS holds the account
  verdict, \* the reconciliation found nothing unresolved
  phase,   \* "up", "down" or "boot"
  wire,    \* callbacks not yet dispatched, in order: <<key, kind, a, b>>
  book,      \* the broker's view of the order: none, working, done
  tape,    \* executions at the broker: <<key, a, b>>
  placed,  \* placeOrder calls by key
  crashes, sweeps,
  over,    \* history: keys whose status changed between a writer's read and its write
  off,     \* history: an execution was refused, or the ledger was set by hand
  misled   \* history: the square-off went by a ledger or a snapshot that lagged the broker

tables == <<status, bid, lots, execs, pos, op, snap, bpos>>
memory == <<doing, key, busy, mcache, verdict, phase>>
broker == <<wire, book, tape, placed>>
counts == <<crashes, sweeps>>
notes  == <<over, off, misled>>
deskVars   == <<tables, memory, broker, counts, notes>>

Abs(n)  == IF n < 0 THEN -n ELSE n
Sign(n) == IF n < 0 THEN -1 ELSE 1

Of(k)        == {x \in execs : x[1] = k}
Lots(xs)     == MapThenSumSet(LAMBDA x : x[3] - x[2], xs)
Filled(k)    == Lots({x \in tape : x[1] = k})
Net          == MapThenSumSet(LAMBDA x : Sign(lots[x[1]]) * (x[3] - x[2]), tape)
ToWire(msgs) == wire' = IF phase = "up" THEN wire \o msgs ELSE wire

DeskInit ==
  /\ status = [k \in Keys |-> "none"] /\ bid = [k \in Keys |-> FALSE]
  /\ lots = [k \in Keys |-> 0] /\ execs = {}
  /\ pos = [qty |-> 0, state |-> "none"] /\ op = "none" /\ snap = 0 /\ bpos = 0
  /\ doing = [s \in Senders |-> "idle"] /\ key = [s \in Senders |-> "flat"]
  /\ busy = {} /\ mcache = FALSE /\ verdict = FALSE /\ phase = "up"
  /\ wire = <<>> /\ book = [k \in Keys |-> "none"] /\ tape = {}
  /\ placed = [k \in Keys |-> 0]
  /\ crashes = 0 /\ sweeps = 0
  /\ over = {} /\ off = FALSE /\ misled = FALSE

----------------------------------------------------------------------------
(* submit_order, and the same path in _flatten_single_manual_position.     *)

Goto(s, where) == doing' = [doing EXCEPT ![s] = where]

AfterSend(s) == IF s = Worker THEN "recon" ELSE "idle"

(* validate_pretrade: every other gate is an input that may refuse.        *)
GateOpen == ~mcache /\ op \notin Active

SubmitOrder(r, k) ==
  /\ phase = "up" /\ doing[r] = "idle"
  /\ k = "exit" => pos.state # "none"
  /\ key' = [key EXCEPT ![r] = k]
  /\ GateOpen /\ status[k] = "none" /\ Goto(r, "checked")
  /\ UNCHANGED <<tables, busy, mcache, verdict, phase, broker, counts, notes>>

(* The PENDING_SUBMIT row, committed before any call to the broker; the    *)
(* unique key turns the loser of a race into a replay.                     *)
CreateOrder(r) ==
  /\ doing[r] = "checked"
  /\ IF status[key[r]] = "none"
     THEN /\ status' = [status EXCEPT ![key[r]] = "PENDING_SUBMIT"]
          /\ lots' = [lots EXCEPT ![key[r]] = IF key[r] = "entry" THEN EntryLots ELSE -ExitLots]
          /\ Goto(r, "token")
     ELSE Goto(r, "idle") /\ UNCHANGED <<status, lots>>
  /\ UNCHANGED <<bid, execs, pos, op, snap, bpos, key, busy, mcache,
                 verdict, phase, broker, counts, notes>>

(* The gateway token and the order id, or the refusal of either.           *)
AllocateOrderId(s) ==
  /\ doing[s] = "token"
  /\ \/ bid' = [bid EXCEPT ![key[s]] = TRUE] /\ Goto(s, "place")
     \/ Goto(s, "fail") /\ UNCHANGED bid
     \/ s = Worker /\ Goto(s, "recon") /\ UNCHANGED bid
  /\ UNCHANGED <<status, lots, execs, pos, op, snap, bpos, key, busy,
                 mcache, verdict, phase, broker, counts, notes>>

PlaceOrder(s) ==
  LET k == key[s] IN
  /\ doing[s] = "place"
  /\ \/ /\ placed' = [placed EXCEPT ![k] = @ + 1] /\ book' = [book EXCEPT ![k] = "working"]
        /\ ToWire(<< <<k, "SUBMITTED", 0, 0>> >>) /\ Goto(s, "mark")
     \/ Goto(s, "fail") /\ UNCHANGED <<placed, book, wire>>
  /\ UNCHANGED <<tables, key, busy, mcache, verdict, phase, tape,
                 counts, notes>>

(* SUBMITTED, or ERROR, over whatever status the row has by now.           *)
RecordSubmission(s) ==
  LET k == key[s] IN
  /\ doing[s] \in {"mark", "fail"} /\ Goto(s, AfterSend(s))
  /\ status' = [status EXCEPT ![k] = IF doing[s] = "mark" THEN "SUBMITTED" ELSE "ERROR"]
  /\ over' = IF status[k] # "PENDING_SUBMIT" THEN over \cup {k} ELSE over
  /\ UNCHANGED <<bid, lots, execs, pos, op, snap, bpos, key, busy, mcache,
                 verdict, phase, broker, counts, off, misled>>

(* cancel_order: terminal rows are refused, a row without a broker id is   *)
(* cancelled here; for any other the broker is asked, which changes no row *)
(* (the broker ends orders at any time, BrokerEnds).                       *)
CancelUnsent(k) ==
  /\ phase = "up" /\ status[k] = "PENDING_SUBMIT" /\ ~bid[k]
  /\ status' = [status EXCEPT ![k] = "CANCELLED"]
  /\ UNCHANGED <<bid, lots, execs, pos, op, snap, bpos, memory, wire, book, tape,
                 placed, counts, over, off, misled>>

----------------------------------------------------------------------------
(* The broker.                                                             *)

BrokerExecutes(k, n) ==
  LET x == <<k, Filled(k), Filled(k) + n>> IN
  /\ book[k] = "working" /\ x[3] <= Abs(lots[k])
  /\ tape' = tape \cup {x}
  /\ book' = [book EXCEPT ![k] = IF x[3] = Abs(lots[k]) THEN "done" ELSE @]
  /\ LET last == IF x[3] = Abs(lots[k]) THEN << <<k, "FILLED", 0, 0>> >> ELSE <<>> IN
     \/ ToWire(<< <<k, "exec", x[2], x[3]>> >> \o last)
     \/ ToWire(last \o << <<k, "exec", x[2], x[3]>> >>)
  /\ misled' = (misled \/ (k # "flat" /\ op # "none"))
  /\ UNCHANGED <<tables, memory, placed, counts, over, off>>

(* A confirmed cancel comes as a status and as error 202, which            *)
(* handle_error takes for a rejection; the first of the two settles the    *)
(* row.                                                                    *)
BrokerEnds(k) ==
  /\ book[k] = "working" /\ book' = [book EXCEPT ![k] = "done"]
  /\ \E kind \in {"CANCELLED", "REJECTED"} : ToWire(<< <<k, kind, 0, 0>> >>)
  /\ UNCHANGED <<tables, memory, tape, placed, counts, notes>>

----------------------------------------------------------------------------
(* ManualExecutionListener.                                                *)

(* A handler opens its session: what it has read of the order, and whether *)
(* the trade has a position row.                                           *)
Dispatch ==
  LET m == Head(wire) IN
  /\ phase = "up" /\ wire # <<>> /\ wire' = Tail(wire) /\ Cardinality(busy) < MaxBusy
  /\ busy' = busy \cup {[msg |-> m, saw |-> status[m[1]],
                         fresh |-> m[2] = "exec" /\ pos.state = "none"]}
  /\ UNCHANGED <<tables, doing, key, mcache, verdict, phase, book, tape, placed,
                 counts, notes>>

(* A session writes the column only when its value differs from the one    *)
(* it had read.                                                            *)
WriteStatus(k, saw, new) ==
  /\ status' = IF new # saw THEN [status EXCEPT ![k] = new] ELSE status
  /\ over' = IF status[k] # saw THEN over \cup {k} ELSE over

(* Plausible bug: a status report is written whatever the row says.        *)
ReportedStatus_Blind(saw, kind) == kind

(* handle_order_status, handle_open_order and handle_error.                *)
ReportedStatus(saw, kind) ==
  IF saw \in Terminal THEN saw
  ELSE IF saw = "PARTIALLY_FILLED" /\ kind = "SUBMITTED" THEN saw
  ELSE kind

HandleReport(h) ==
  /\ h.msg[2] \in Reports /\ busy' = busy \ {h}
  /\ WriteStatus(h.msg[1], h.saw, ReportedStatus(h.saw, h.msg[2]))
  /\ UNCHANGED <<bid, lots, execs, pos, op, snap, bpos, doing, key, mcache,
                 verdict, phase, broker, counts, off, misled>>

(* ManualPositionRepository.apply_execution on a position that is not      *)
(* CLOSED: open, add, reduce, close exactly, or flip.                      *)
Applied(d) ==
  LET qty == pos.qty + d IN
  [qty |-> qty, state |-> IF qty = 0 /\ pos.qty # 0 THEN "CLOSED" ELSE "OPEN"]

(* Plausible bug: an order in a terminal status keeps it whatever executed.*)
ExecutedStatus_Keeps(k, saw, total) ==
  IF saw \in Terminal THEN saw
  ELSE IF total >= Abs(lots[k]) THEN "FILLED" ELSE "PARTIALLY_FILLED"

ExecutedStatus(k, saw, total) ==
  IF total >= Abs(lots[k]) THEN "FILLED"
  ELSE IF saw \in {"CANCELLED", "REJECTED", "ERROR"} THEN saw
  ELSE "PARTIALLY_FILLED"

Reused == pos.state = "CLOSED" /\ pos.qty = 0

(* Plausible bug: the replayed execution is applied once more.             *)
Duplicate_Never(x) == FALSE

Duplicate(x) == x \in execs

(* handle_exec_details.  A trade_id that is CLOSED refuses the execution   *)
(* before it is recorded; of two first executions of a trade one finds the *)
(* position row inserted under its feet and is rolled back.                *)
HandleExecDetails(h) ==
  LET k == h.msg[1]
      x == <<k, h.msg[3], h.msg[4]>>
  IN
  /\ h.msg[2] = "exec" /\ busy' = busy \ {h}
  /\ \/ /\ Reused \/ Duplicate(x) \/ (h.fresh /\ pos.state # "none")
        /\ off' = (off \/ x \notin execs)
        /\ UNCHANGED <<status, execs, pos, over>>
     \/ /\ ~Reused /\ ~Duplicate(x)
        /\ execs' = execs \cup {x}
        /\ pos' = Applied(Sign(lots[k]) * (x[3] - x[2]))
        /\ WriteStatus(k, h.saw, ExecutedStatus(k, h.saw, Lots(Of(k) \cup {x})))
        /\ UNCHANGED off
  /\ UNCHANGED <<bid, lots, op, snap, bpos, doing, key, mcache, verdict, phase,
                 broker, counts, misled>>

----------------------------------------------------------------------------
(* The square-off of manual positions.                                     *)

(* With no open position the operation is born COMPLETE and nothing else   *)
(* changes; one that is active already is returned as it is.               *)
SquareOff ==
  /\ phase = "up"
  /\ \/ /\ op = "none" /\ pos.state \notin {"none", "CLOSED"}
        /\ op' = "ACTIVATING" /\ snap' = pos.qty /\ mcache' = TRUE /\ Goto(Worker, "start")
        /\ misled' = (misled \/ execs # tape)
     \/ op \in Active /\ ~mcache /\ mcache' = TRUE /\ UNCHANGED <<op, snap, doing, misled>>
  /\ UNCHANGED <<status, bid, lots, execs, pos, bpos, key, busy, verdict,
                 phase, broker, counts, over, off>>

StartFlatten ==
  /\ phase # "down" /\ doing[Worker] = "start"
  /\ IF op \in Active THEN op' = "FLATTENING" /\ Goto(Worker, "close")
                      ELSE Goto(Worker, "idle") /\ UNCHANGED op
  /\ UNCHANGED <<status, bid, lots, execs, pos, snap, bpos, key, busy,
                 mcache, verdict, phase, broker, counts, notes>>

(* The close order is sized by the position as it is now.  A row of the    *)
(* same key that an earlier attempt left behind ends this one: either it   *)
(* counts as sent, or the insert violates the unique key and raises.       *)
CloseOrder ==
  /\ doing[Worker] = "close"
  /\ IF pos.state = "CLOSED" \/ pos.qty = 0 \/ status["flat"] # "none"
     THEN Goto(Worker, "recon") /\ UNCHANGED <<status, lots>>
     ELSE /\ status' = [status EXCEPT !["flat"] = "PENDING_SUBMIT"]
          /\ lots' = [lots EXCEPT !["flat"] = -pos.qty]
          /\ Goto(Worker, "token")
  /\ UNCHANGED <<bid, execs, pos, op, snap, bpos, key, busy, mcache,
                 verdict, phase, broker, counts, notes>>

----------------------------------------------------------------------------
(* _reconcile_and_finalize_manual.                                         *)

Settled(p, flat) == pos' = p /\ verdict' = flat

Written(n, state) == [qty |-> n, state |-> state]

(* Plausible bug: a close order that is partly filled is taken for done.   *)
ClosedByOrder_Partly ==
  status["flat"] \in {"FILLED", "PARTIALLY_FILLED"} /\ Of("flat") # {}

ClosedByOrder ==
  status["flat"] = "FILLED" /\ Of("flat") # {} /\ Lots(Of("flat")) >= Abs(snap)

AwaitsPrice == status["flat"] = "FILLED" /\ Of("flat") = {}

Closing == status["flat"] = "PARTIALLY_FILLED"

(* The stored snapshot shows nothing of the symbol while the account has   *)
(* other lines; the executions counted against it include the entry's.     *)
BrokerSaysFlat == bpos = 0 /\ execs # {} /\ Lots(execs) >= Abs(snap)

(* A partly filled close order rewrites the position to what is left.      *)
Reduced ==
  IF Closing /\ Of("flat") # {}
  THEN Written(Sign(snap) * (Abs(snap) - Lots(Of("flat"))), "CLOSING") ELSE pos

Reconcile ==
  LET remains == Closing /\ Lots(Of("flat")) < Abs(snap) IN
  /\ doing[Worker] = "recon" /\ Goto(Worker, "final")
  /\ \/ /\ Reused /\ Settled(pos, TRUE) /\ UNCHANGED misled
     \/ /\ ~Reused /\ ClosedByOrder /\ Settled(Written(0, "CLOSED"), TRUE) /\ UNCHANGED misled
     \/ /\ ~Reused /\ AwaitsPrice /\ Settled(Written(pos.qty, "PENDING_PRICE"), FALSE)
        /\ UNCHANGED misled
     \/ /\ ~Reused /\ remains /\ Settled(Reduced, FALSE) /\ UNCHANGED misled
     \/ /\ ~Reused /\ ~ClosedByOrder /\ ~AwaitsPrice /\ ~remains
        /\ \/ BrokerSaysFlat /\ Settled(Written(0, "CLOSED"), TRUE) /\ misled' = (misled \/ Net # 0)
           \/ Settled(Reduced, FALSE) /\ UNCHANGED misled
  /\ off' = (off \/ pos'.qty # pos.qty)
  /\ UNCHANGED <<status, bid, lots, execs, op, snap, bpos, key, busy, mcache,
                 phase, broker, counts, over>>

(* COMPLETE lifts the block of manual orders.                              *)
Finalize ==
  /\ doing[Worker] = "final" /\ Goto(Worker, "idle")
  /\ mcache' = (mcache /\ ~verdict)
  /\ op' = IF verdict \/ op = "COMPLETE" THEN "COMPLETE" ELSE "UNRESOLVED"
  /\ verdict' = FALSE
  /\ UNCHANGED <<status, bid, lots, execs, pos, snap, bpos, key, busy,
                 phase, broker, counts, notes>>

(* A sweep of the reconciler stores what the broker holds, and after it    *)
(* the unresolved operations are reconciled again.  Until there is an      *)
(* operation nothing here reads the snapshot.                              *)
Sweep ==
  /\ phase = "up" /\ op # "none" /\ crashes + sweeps < MaxDisturbances /\ sweeps' = sweeps + 1 /\ bpos' = Net
  /\ IF op = "UNRESOLVED" /\ doing[Worker] = "idle" THEN Goto(Worker, "recon") ELSE UNCHANGED doing
  /\ UNCHANGED <<status, bid, lots, execs, pos, op, snap, key, busy, mcache,
                 verdict, phase, broker, crashes, notes>>

----------------------------------------------------------------------------
(* Crash and restart.                                                      *)

Crash ==
  /\ phase = "up" /\ crashes + sweeps < MaxDisturbances /\ crashes' = crashes + 1 /\ phase' = "down"
  /\ doing' = [s \in Senders |-> "idle"]
  /\ busy' = {} /\ wire' = <<>> /\ mcache' = FALSE
  /\ verdict' = FALSE
  /\ UNCHANGED <<tables, key, book, tape, placed, sweeps, notes>>

(* The cache is read back and an unfinished square-off is resumed ...      *)
Restart ==
  /\ phase = "down" /\ phase' = "boot"
  /\ mcache' = (op \in Active)
  /\ IF op \in Active THEN Goto(Worker, "start")
     ELSE IF op = "UNRESOLVED" THEN Goto(Worker, "recon") ELSE UNCHANGED doing
  /\ UNCHANGED <<tables, key, busy, verdict, broker, counts, notes>>

(* Plausible bug: an ambiguous order is sent again by hand of the scan.    *)
UnresolvedStatus_Resubmits(k) == IF status[k] = "PENDING_SUBMIT" THEN "none" ELSE status[k]

UnresolvedStatus(k) == IF status[k] = "PENDING_SUBMIT" THEN "ERROR" ELSE status[k]

(* ... before run_startup_recovery marks the ambiguous orders; then the    *)
(* broker is asked for open orders and for the executions of the day.      *)
ScanUnresolved ==
  /\ phase = "boot" /\ phase' = "up"
  /\ status' = [k \in Keys |-> UnresolvedStatus(k)]
  /\ wire' = SetToSeq({<<k, "SUBMITTED", 0, 0>> : k \in {k \in Keys : book[k] = "working"}})
             \o SetToSeq({<<x[1], "exec", x[2], x[3]>> : x \in tape})
  /\ UNCHANGED <<bid, lots, execs, pos, op, snap, bpos, doing, key, busy, mcache,
                 verdict, book, tape, placed, counts, notes>>

----------------------------------------------------------------------------

Desk ==
  \/ \E r \in Requests : CreateOrder(r) \/ \E k \in Tickets : SubmitOrder(r, k)
  \/ \E s \in Senders : AllocateOrderId(s) \/ PlaceOrder(s) \/ RecordSubmission(s)
  \/ \E k \in Keys : CancelUnsent(k)

BrokerSide == \E k \in Keys : BrokerEnds(k) \/ \E n \in 1..Abs(lots[k]) : BrokerExecutes(k, n)

Callbacks ==
  \/ Dispatch
  \/ \E h \in busy : HandleReport(h) \/ HandleExecDetails(h)

Flatten ==
  \/ SquareOff \/ StartFlatten \/ CloseOrder \/ Reconcile \/ Finalize
  \/ Sweep

DeskNext == Desk \/ BrokerSide \/ Callbacks \/ Flatten \/ Crash \/ Restart \/ ScanUnresolved

DeskSpec == DeskInit /\ [][DeskNext]_deskVars

----------------------------------------------------------------------------
(* Properties.                                                             *)

Execution == {x \in Keys \X Nat \X Nat : x[2] < x[3]}

Message == Keys \X (Reports \cup {"exec"}) \X Nat \X Nat

(* Every variable stays within its type.                                   *)
DeskTypeOK ==
  /\ status \in [Keys -> Status] /\ bid \in [Keys -> BOOLEAN] /\ lots \in [Keys -> Int]
  /\ IsFiniteSet(tape) /\ tape \subseteq Execution /\ execs \subseteq tape
  /\ pos \in [qty : Int, state : PosState]
  /\ op \in OpState /\ snap \in Int /\ bpos \in Int
  /\ doing \in [Senders -> {"idle", "checked", "token", "place", "mark", "fail",
                            "start", "close", "recon", "final"}]
  /\ key \in [Senders -> Keys]
  /\ busy \subseteq [msg : Message, saw : Status, fresh : BOOLEAN] /\ wire \in Seq(Message)
  /\ mcache \in BOOLEAN /\ verdict \in BOOLEAN
  /\ phase \in {"up", "down", "boot"} /\ book \in [Keys -> {"none", "working", "done"}]
  /\ placed \in [Keys -> Nat]
  /\ crashes \in 0..MaxDisturbances /\ sweeps \in 0..MaxDisturbances
  /\ over \subseteq Keys /\ off \in BOOLEAN /\ misled \in BOOLEAN

Quiet == phase = "up" /\ wire = <<>> /\ busy = {}

(* One idempotency key is one order at the broker, whatever is retried,    *)
(* raced or restarted, and the row is on record before it is sent.         *)
OneOrderPerKey == \A k \in Keys : placed[k] <= 1 /\ (placed[k] = 1 => status[k] # "none")

(* When every callback has been handled, the manual position is what the   *)
(* broker executed for the trade: each execution counted once, through     *)
(* replays and restarts, unless one was refused (a trade_id already        *)
(* CLOSED, two first executions at once) or the square-off wrote the row.  *)
LedgerMatchesFills == Quiet /\ ~off => pos.qty = Net

(* When every callback has been handled, an order the broker executed in   *)
(* full reads FILLED, also after a crash that made it ERROR, unless its    *)
(* status changed under a writer between its read and its write, or an     *)
(* execution was refused.                                                  *)
FilledIsRecorded ==
  \A k \in Keys : Quiet /\ ~off /\ lots[k] # 0 /\ Filled(k) = Abs(lots[k])
    => status[k] = "FILLED" \/ k \in over

(* A terminal status changes only to FILLED on a full execution, from      *)
(* FILLED to PARTIALLY_FILLED while executions of the order are missing,   *)
(* or under the pen of a writer that had read an earlier status.           *)
TerminalIsFinal ==
  [][\A k \in Keys : status[k] \in Terminal /\ status'[k] # status[k] =>
       \/ k \in over'
       \/ status'[k] = "FILLED" /\ Lots(Of(k)') = Abs(lots[k])
       \/ status[k] = "FILLED" /\ status'[k] = "PARTIALLY_FILLED" /\ Lots(Of(k)') < Abs(lots[k])]_deskVars

(* A square-off that ends COMPLETE leaves nothing of the trade at the      *)
(* broker, and the close order that still works cannot add to it, unless   *)
(* the square-off was misled: an execution was not in the books when it    *)
(* began, a ticket executed after that (nothing cancels it), or the stored *)
(* snapshot was not true.                                                  *)
CompleteIsFlat == op = "COMPLETE" /\ ~misled => Net = 0

============================================================================
