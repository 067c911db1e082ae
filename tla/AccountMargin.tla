---------------------------- MODULE AccountMargin ---------------------------
(* AccountMarginService: one subscription to the account summary, started  *)
(* by whichever of three threads comes first (the application's start, the *)
(* reader thread in nextValidId, the reconnect thread in its listeners)    *)
(* and renewed by a refresh thread.  The gateway serves a limited number   *)
(* of such subscriptions at a time and turns further ones down.            *)
EXTENDS TwsSession

CONSTANTS
  Refreshers,   \* refresh threads that can be told apart
  Served,       \* account summaries the gateway serves at a time
  MaxSummaries  \* bound: requests of the account summary

ASSUME MarginAssumption == Served \in Nat \ {0} /\ MaxSummaries \in Nat /\ IsFiniteSet(Refreshers)

Starters == {"main", "reader", "loop"}
Threads  == Starters \cup Refreshers

VARIABLES
  doing,      \* where each thread stands in start or _refresh_once
  mine,       \* the request a thread is about to cancel or to send, 0 for none
  started,    \* _started
  active,     \* _active_req_id, 0 when None
  nextReq,    \* _next_req_id
  subs,       \* the gateway's account-summary subscriptions
  refresher,  \* _refresh_thread
  halt,       \* _refresh_stop
  starts,     \* history: starts on this connection
  crossed     \* history: a refresh overlapped a start or another refresh on it

margin == <<doing, mine, started, active, nextReq, subs, refresher, halt, starts, crossed>>

MarginInit ==
  /\ doing = [t \in Threads |-> "idle"] /\ mine = [t \in Threads |-> 0]
  /\ started = FALSE /\ active = 0 /\ nextReq = 1 /\ subs = {}
  /\ refresher = None /\ halt = FALSE
  /\ starts = 0 /\ crossed = FALSE

MarginTypeOK ==
  /\ doing \in [Threads -> {"idle", "checked", "acquiring", "sending", "spawning", "asleep", "cancelling"}]
  /\ mine \in [Threads -> 0 .. MaxSummaries]
  /\ {started, halt, crossed} \subseteq BOOLEAN
  /\ active \in 0 .. MaxSummaries /\ nextReq \in 1 .. MaxSummaries + 1
  /\ subs \subseteq 1 .. MaxSummaries /\ Cardinality(subs) <= Served
  /\ refresher \in Refreshers \cup {None} /\ starts \in Nat

Alive(r) == doing[r] # "idle"

\* The threads between their first look at the state and their request.
Busy == {t \in Threads : doing[t] \notin {"idle", "asleep"}}

-----------------------------------------------------------------------------
(* The callbacks that lead to start.                                       *)

Enter(t) == doing' = [doing EXCEPT ![t] = IF @ = "idle" THEN "checked" ELSE @]

\* on_next_valid_id, at the end of the handshake.
MarginOnNextValidId ==
  /\ IF started THEN UNCHANGED doing ELSE Enter("reader")
  /\ UNCHANGED <<mine, started, active, nextReq, subs, refresher, halt, starts, crossed>>

\* on_connection_restored forgets a start that nextValidId has already made.
MarginOnRestored ==
  /\ started' = FALSE
  /\ IF IsConnected THEN Enter("loop") ELSE UNCHANGED doing
  /\ UNCHANGED <<mine, active, nextReq, subs, refresher, halt, starts, crossed>>

\* account_margin.start() of the lifespan.
MarginOnLifespan ==
  /\ IF IsConnected /\ ~started THEN Enter("main") ELSE UNCHANGED doing
  /\ UNCHANGED <<mine, started, active, nextReq, subs, refresher, halt, starts, crossed>>

\* on_connection_closed: the refresh thread is told to stop and given up after
\* the join, whether or not it has gone.
MarginOnClosed ==
  /\ halt' = TRUE /\ refresher' = None
  /\ active' = 0 /\ started' = FALSE /\ subs' = {}
  /\ starts' = 0 /\ crossed' = (Busy # {})
  /\ UNCHANGED <<doing, mine, nextReq>>

-----------------------------------------------------------------------------
(* start: the flag, the request, the refresh thread.                       *)

StartSets(t) ==
  /\ t \in Starters /\ doing[t] = "checked"
  /\ started' = TRUE /\ halt' = FALSE
  /\ doing' = [doing EXCEPT ![t] = "acquiring"]
  /\ crossed' = (crossed \/ Busy \cap Refreshers # {})
  /\ starts' = starts + 1
  /\ UNCHANGED <<mine, active, nextReq, subs, refresher>>

After(t) == IF t \in Starters THEN "spawning" ELSE "asleep"

RequestNumber_OnGrant(t) ==
  /\ doing[t] = "acquiring" /\ nextReq <= MaxSummaries
  /\ doing' = [doing EXCEPT ![t] = After(t)]
  /\ UNCHANGED <<mine, active, nextReq, started, subs, refresher, halt, starts, crossed>>

\* _request_summary does not look at what blocking_acquire returned: with or
\* without its token the number is taken and made the active one under the lock.
RequestNumber(t) ==
  /\ doing[t] = "acquiring" /\ nextReq <= MaxSummaries
  /\ active' = nextReq /\ nextReq' = nextReq + 1
  /\ mine' = [mine EXCEPT ![t] = nextReq]
  /\ doing' = [doing EXCEPT ![t] = "sending"]
  /\ UNCHANGED <<started, subs, refresher, halt, starts, crossed>>

\* A request over the gateway's limit gets an error, which is only logged.
RequestSend(t) ==
  /\ doing[t] = "sending"
  /\ subs' = IF sock = "ready" /\ Cardinality(subs) < Served THEN subs \cup {mine[t]} ELSE subs
  /\ mine' = [mine EXCEPT ![t] = 0]
  /\ doing' = [doing EXCEPT ![t] = After(t)]
  /\ UNCHANGED <<started, active, nextReq, refresher, halt, starts, crossed>>

\* _start_refresh_loop leaves a thread alone that is alive.
StartRefreshLoop(t) ==
  /\ doing[t] = "spawning"
  /\ IF refresher # None /\ Alive(refresher)
     THEN doing' = [doing EXCEPT ![t] = "idle"] /\ UNCHANGED <<refresher, halt>>
     ELSE \E r \in Refreshers :
            /\ ~Alive(r)
            /\ refresher' = r /\ halt' = FALSE
            /\ doing' = [doing EXCEPT ![t] = "idle", ![r] = "asleep"]
  /\ UNCHANGED <<mine, started, active, nextReq, subs, starts, crossed>>

-----------------------------------------------------------------------------
(* The refresh thread.                                                     *)

RefreshStops(r) ==
  /\ doing[r] = "asleep" /\ halt
  /\ doing' = [doing EXCEPT ![r] = "idle"]
  /\ UNCHANGED <<mine, started, active, nextReq, subs, refresher, halt, starts, crossed>>

\* _refresh_once reads the active request and goes to cancel it.
Refresh(r) ==
  /\ doing[r] = "asleep" /\ ~halt /\ started /\ IsConnected
  /\ mine' = [mine EXCEPT ![r] = active]
  /\ doing' = [doing EXCEPT ![r] = "cancelling"]
  /\ crossed' = (crossed \/ Busy # {})
  /\ UNCHANGED <<started, active, nextReq, subs, refresher, halt, starts>>

RefreshCancels(r) ==
  /\ doing[r] = "cancelling"
  /\ subs' = subs \ {mine[r]}
  /\ mine' = [mine EXCEPT ![r] = 0]
  /\ doing' = [doing EXCEPT ![r] = "acquiring"]
  /\ UNCHANGED <<started, active, nextReq, refresher, halt, starts, crossed>>

MarginNext ==
  \/ \E t \in Threads : StartSets(t) \/ RequestNumber(t) \/ RequestSend(t) \/ StartRefreshLoop(t)
  \/ \E r \in Refreshers : RefreshStops(r) \/ Refresh(r) \/ RefreshCancels(r)

\* account_margin.py:270: start runs on three threads without a lock, the
\* listeners of one reconnect start it twice, and each start leaves its own
\* subscription.  Once the threads are at rest, a started service on a live
\* connection has its active request served, unless a third start, or a
\* refresh that overlapped a start or another refresh, has used up with its
\* leftovers what the gateway serves.
SummaryIsLive ==
  client = "margin" /\ started /\ IsConnected /\ Busy = {} /\ at.loop = "none"
    => active \in subs \/ crossed \/ starts > Served
=============================================================================
