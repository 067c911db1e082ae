-------------------------- MODULE BrokerSnapshots ---------------------------
(* The two snapshots the system asks the gateway for: the positions, whose *)
(* collector has no request id, and the executions, whose collector has    *)
(* one and feeds the durable trade book.  Answers travel over one ordered  *)
(* connection and may still be on their way when a request is given up.    *)
EXTENDS TwsSession

CONSTANTS
  Holdings,     \* the broker's positions
  Execs,        \* the day's executions of the account
  Answers,      \* what the gateway may say to reqExecutions, in order
  MaxRequests   \* bound: requests of a snapshot

\* The gateway names every execution of the account before it says that these
\* were all; commissions may come at any time.
ASSUME SnapshotsAssumption ==
  /\ IsFiniteSet(Holdings) /\ MaxRequests \in Nat
  /\ Answers \subseteq Seq([kind : {"exec", "commission"}, exec : Execs]
                             \cup [kind : {"end"}, exec : {None}])
  /\ \A a \in Answers : \A i \in 1 .. Len(a) : a[i].kind = "end" =>
       \A e \in Execs : \E j \in 1 .. i - 1 : a[j].kind = "exec" /\ a[j].exec = e

VARIABLES
  wire,       \* messages on their way to the reader thread
  asking,     \* a request holds its lock and waits
  requests,   \* requests sent so far; the number of the last one is its id
  positions,  \* PositionSnapshotCollector
  fills,      \* ExecutionSnapshotCollector
  snap,       \* the last snapshot of positions handed out
  book,       \* the rows of trade_executions
  synced,     \* _last_success_at is set for the account; "hollow" without a request sent
  credited    \* history: executions whose commission a sync has written

snapshots == <<wire, asking, requests, positions, fills, snap, book, synced, credited>>

NoRow == [kept |-> FALSE, commission |-> FALSE, order |-> FALSE]

SnapshotsInit ==
  /\ wire = <<>> /\ asking = FALSE /\ requests = 0
  /\ positions = [lines |-> {}, done |-> FALSE]
  /\ fills = [req |-> 0, lines |-> {}, paid |-> {}, pending |-> {}, done |-> FALSE]
  /\ snap = [lines |-> {}, timedOut |-> TRUE, excuse |-> None]
  /\ book = [e \in Execs |-> NoRow] /\ synced = None /\ credited = {}

SnapshotsTypeOK ==
  /\ asking \in BOOLEAN /\ requests \in 0 .. MaxRequests
  /\ positions \in [lines : SUBSET Holdings, done : BOOLEAN]
  /\ fills \in [req : 0 .. MaxRequests, lines : SUBSET Execs, paid : SUBSET Execs,
                pending : SUBSET Execs, done : BOOLEAN]
  /\ snap \in [lines : SUBSET Holdings, timedOut : BOOLEAN, excuse : {None, "offline", "crossed"}]
  /\ book \in [Execs -> [kept : BOOLEAN, commission : BOOLEAN, order : BOOLEAN]]
  /\ synced \in {None, "hollow", "yes"} /\ credited \subseteq Execs

May(c) == client = c /\ at.main = "run" /\ ~asking /\ requests < MaxRequests

\* A cancel stops the gateway somewhere in what it has still to send.
CutOff == {SubSeq(wire, 1, n) : n \in 0 .. Len(wire)}

SnapshotsClosed == wire' = <<>> /\ UNCHANGED <<asking, requests, positions, fills, snap, book, synced, credited>>

-----------------------------------------------------------------------------
(* request_positions.                                                      *)

\* Every holding, then positionEnd.
PositionAnswer ==
  [i \in 1 .. Cardinality(Holdings) |-> [kind |-> "position", line |-> SetToSeq(Holdings)[i]]]
    \o <<[kind |-> "positionEnd", line |-> None]>>

\* Without a connection the caller gets an empty list that did not time out.
PositionsOffline ==
  /\ May("positions") /\ ~IsConnected
  /\ snap' = [lines |-> {}, timedOut |-> FALSE, excuse |-> "offline"]
  /\ UNCHANGED <<wire, asking, requests, positions, fills, book, synced, credited>>

Reset_KeepsDone == [positions EXCEPT !.lines = {}]

Reset == [lines |-> {}, done |-> FALSE]

\* reset, cancelPositions, reqPositions: the gateway answers after whatever it
\* had already sent.
RequestPositions ==
  /\ May("positions") /\ IsConnected
  /\ asking' = TRUE /\ requests' = requests + 1
  /\ positions' = Reset
  /\ \E rest \in CutOff :
       /\ wire' = rest \o PositionAnswer
       /\ snap' = [lines |-> {}, timedOut |-> TRUE, excuse |-> IF rest # <<>> THEN "crossed" ELSE None]
  /\ UNCHANGED <<fills, book, synced, credited>>

PositionsReturn(timedOut) ==
  /\ client = "positions" /\ asking /\ asking' = FALSE
  /\ wire' \in CutOff
  /\ snap' = [snap EXCEPT !.lines = positions.lines, !.timedOut = timedOut]
  /\ UNCHANGED <<requests, positions, fills, book, synced, credited>>

PositionsComplete == positions.done /\ PositionsReturn(FALSE)
PositionsTimeout  == ~positions.done /\ PositionsReturn(TRUE)

-----------------------------------------------------------------------------
(* request_executions and the trade book.                                  *)

\* TradeBookSyncService finds the connection up and request_executions does
\* not: an empty list that did not time out counts as a success.
SyncOffline ==
  /\ May("executions") /\ IsConnected /\ Event
  /\ synced' = IF synced = None THEN "hollow" ELSE synced
  /\ UNCHANGED <<wire, asking, requests, positions, fills, snap, book, credited>>

RequestExecutions ==
  /\ May("executions") /\ IsConnected
  /\ asking' = TRUE /\ requests' = requests + 1
  /\ fills' = [req |-> requests + 1, lines |-> {}, paid |-> {}, pending |-> {}, done |-> FALSE]
  /\ \E a \in Answers :
       wire' = wire \o [i \in 1 .. Len(a) |->
                          [kind |-> a[i].kind, line |-> a[i].exec, req |-> requests + 1]]
  /\ UNCHANGED <<positions, snap, book, synced, credited>>

\* upsert_batch: a commission or an order link once written is not replaced
\* by a missing one.  linked is what _resolve_order_map found.
Upserted(linked) ==
  [e \in Execs |->
     IF e \in fills.lines
     THEN [kept       |-> TRUE,
           commission |-> book[e].commission \/ e \in fills.paid,
           order      |-> book[e].order \/ e \in linked]
     ELSE book[e]]

\* The lines go to the book, also those of a request that timed out; a pacing
\* timeout returns none.
ExecutionsReturn(timedOut) ==
  /\ client = "executions" /\ asking /\ asking' = FALSE
  /\ fills' = [fills EXCEPT !.req = 0]
  /\ \E linked \in {{}, Execs} : book' = Upserted(linked)
  /\ synced' = IF timedOut THEN synced ELSE "yes"
  /\ credited' = credited \cup (fills.lines \cap fills.paid)
  /\ UNCHANGED <<wire, requests, positions, snap>>

ExecutionsComplete == fills.done /\ ExecutionsReturn(FALSE)
ExecutionsTimeout  == ~fills.done /\ ExecutionsReturn(TRUE)

\* GET /broker/executions takes the same lock and collector and writes nothing.
ExecutionsShown ==
  /\ client = "executions" /\ asking /\ asking' = FALSE
  /\ fills' = [fills EXCEPT !.req = 0]
  /\ UNCHANGED <<wire, requests, positions, snap, book, synced, credited>>

-----------------------------------------------------------------------------
(* The reader thread.                                                      *)

\* execDetails and execDetailsEnd go to the collector only under its request
\* id; a commission report has none and is buffered until its execution comes.
Accepts_AnyRequest(m) == fills.req # 0

Accepts(m) == fills.req # 0 /\ m.req = fills.req

Heard(m) ==
  CASE m.kind = "exec" /\ Accepts(m) ->
         [fills EXCEPT !.lines = @ \cup {m.line},
                       !.paid = IF m.line \in fills.pending THEN @ \cup {m.line} ELSE @,
                       !.pending = @ \ {m.line}]
    [] m.kind = "commission" /\ fills.req # 0 ->
         IF m.line \in fills.lines THEN [fills EXCEPT !.paid = @ \cup {m.line}]
                                   ELSE [fills EXCEPT !.pending = @ \cup {m.line}]
    [] m.kind = "end" /\ Accepts(m) -> [fills EXCEPT !.done = TRUE]
    [] OTHER -> fills

Listed(m) ==
  CASE m.kind = "position"    -> [positions EXCEPT !.lines = @ \cup {m.line}]
    [] m.kind = "positionEnd" -> [positions EXCEPT !.done = TRUE]
    [] OTHER -> positions

Deliver ==
  /\ sock = "ready" /\ wire # <<>> /\ wire' = Tail(wire)
  /\ positions' = Listed(Head(wire)) /\ fills' = Heard(Head(wire))
  /\ UNCHANGED <<asking, requests, snap, book, synced, credited>>

SnapshotsNext ==
  \/ PositionsOffline \/ RequestPositions \/ PositionsComplete \/ PositionsTimeout
  \/ RequestExecutions \/ ExecutionsComplete \/ ExecutionsTimeout \/ ExecutionsShown
  \/ Deliver

\* tws_client.py:513: one collector serves every request of positions and its
\* callbacks carry no id.  A snapshot that is said to be complete holds every
\* position of the broker, unless it was taken without a connection or an
\* answer to an earlier request was still on its way.
SnapshotIsWhole == snap.timedOut \/ snap.excuse # None \/ snap.lines = Holdings

\* trade_execution_repository.py:97: a later answer may be partial or come
\* without its commissions.  A commission once written stays, and when a sync
\* that reached the gateway has counted as a success the book holds every
\* execution of the day, whatever answers to earlier requests came in late.
BookIsWhole ==
  /\ \A e \in credited : book[e].commission
  /\ synced = "yes" => \A e \in Execs : book[e].kept
=============================================================================
