----------------------------- MODULE TwsSession -----------------------------
(* TWSClient's connection: the handshake, the drop, the reconnect thread   *)
(* and the clean disconnect.  connect_and_start runs on two threads, main  *)
(* (the application's start) and loop (TWSReconnect); the callbacks come   *)
(* from the reader thread.  The modules of the session's clients extend    *)
(* this one; client says which of them a behaviour follows.                *)
EXTENDS Integers, Sequences, FiniteSets, SequencesExt

CONSTANTS
  Clients,      \* the clients of the session to follow, one at a time
  MaxEvents     \* bound: drops, refusals, timeouts and faults, together

ASSUME SessionAssumption == MaxEvents \in Nat

None == "none"

VARIABLES
  client,
  sock,         \* "closed", "open" without its handshake, "ready"
  connEvent,    \* _connected_event
  intentional,  \* _intentional_disconnect
  stop,         \* _reconnect_stop
  at,           \* where main and the reconnect thread stand
  lost,         \* history: why nobody may be reconnecting, since the last handshake
  events

session == <<sock, connEvent, intentional, stop, at, lost>>

Places == [main : {"boot", "wait", "clear", "up", "down", "run", "off"},
           loop : {"none", "check", "begin", "wait", "clear", "backoff", "restored", "ending"}]

SessionInit ==
  /\ client \in Clients /\ sock = "closed" /\ connEvent = FALSE
  /\ intentional = FALSE /\ stop = FALSE
  /\ at = [main |-> "boot", loop |-> "none"]
  /\ lost = {} /\ events = 0

SessionTypeOK ==
  /\ client \in Clients /\ sock \in {"closed", "open", "ready"}
  /\ {connEvent, intentional, stop} \subseteq BOOLEAN
  /\ at \in Places /\ lost \subseteq {"refused", "unnoticed", "clobbered"}
  /\ events \in 0 .. MaxEvents

Event == events < MaxEvents /\ events' = events + 1
Quiet == events' = events

IsConnected == connEvent /\ sock # "closed"

\* _start_reconnect_loop leaves a living thread alone.
LoopAlive == at.loop # "none"

Started(place) == IF LoopAlive \/ intentional THEN place
                  ELSE [place EXCEPT !.loop = "check"]

Returned(t, ok) ==
  [at EXCEPT ![t] = CASE t = "main" -> IF ok THEN "up" ELSE "down"
                      [] t = "loop" -> IF ok THEN "restored" ELSE "backoff"]

-----------------------------------------------------------------------------
(* connect_and_start.  Main calls it first and the reconnect thread after  *)
(* a look at is_connected, so that it never finds the connection made.     *)

Begins(t) == at[t] = (IF t = "main" THEN "boot" ELSE "begin")

Connect(t) ==
  /\ Begins(t) /\ ~IsConnected
  /\ intentional' = FALSE /\ stop' = FALSE
  /\ connEvent' = FALSE /\ sock' = "open"
  /\ at' = [at EXCEPT ![t] = "wait"]
  /\ Quiet /\ UNCHANGED lost

\* connect raises OSError: no reconnect thread is started here.
Refused(t) ==
  /\ Begins(t) /\ ~IsConnected /\ Event
  /\ intentional' = FALSE /\ stop' = FALSE
  /\ connEvent' = FALSE /\ at' = Returned(t, FALSE)
  /\ lost' = IF t = "main" /\ ~LoopAlive THEN lost \cup {"refused"} ELSE lost
  /\ UNCHANGED sock

\* nextValidId, on the reader thread.
NextValidId ==
  /\ sock = "open" /\ sock' = "ready" /\ connEvent' = TRUE /\ lost' = {}
  /\ Quiet /\ UNCHANGED <<intentional, stop, at>>

Connected(t) ==
  /\ at[t] = "wait" /\ connEvent
  /\ at' = Returned(t, TRUE)
  /\ Quiet /\ UNCHANGED <<sock, connEvent, intentional, stop, lost>>

ConnectionClosed_Unwatched(place) ==
  /\ sock' = "closed" /\ connEvent' = FALSE
  /\ at' = place
  /\ lost' = IF at.loop \in {"restored", "ending"} THEN lost \cup {"unnoticed"} ELSE lost
  /\ UNCHANGED <<intentional, stop>>

\* connectionClosed, also from within disconnect().  A reconnect thread that
\* has made its connection and not yet returned takes no notice.
ConnectionClosed(place) ==
  /\ sock' = "closed" /\ connEvent' = FALSE
  /\ at' = Started(place)
  /\ stop' = (stop /\ (LoopAlive \/ intentional))
  /\ lost' = IF at.loop \in {"restored", "ending"} THEN lost \cup {"unnoticed"} ELSE lost
  /\ UNCHANGED intentional

HandshakeTimeout(t) ==
  /\ at[t] = "wait" /\ ~connEvent /\ Event
  /\ ConnectionClosed([at EXCEPT ![t] = "clear"])

\* After disconnect and the join the event is cleared once more, whoever has
\* connected in the meantime.
ClearAfterTimeout(t) ==
  /\ at[t] = "clear" /\ connEvent' = FALSE
  /\ at' = Started(Returned(t, FALSE))
  /\ stop' = (stop /\ (LoopAlive \/ intentional))
  /\ lost' = IF t = "main" /\ connEvent /\ LoopAlive THEN lost \cup {"clobbered"} ELSE lost
  /\ Quiet /\ UNCHANGED <<sock, intentional>>

Drop == sock # "closed" /\ Event /\ ConnectionClosed(at)

-----------------------------------------------------------------------------
(* The reconnect thread and the application's own steps.                   *)

LoopCheck ==
  /\ at.loop = "check"
  /\ at' = [at EXCEPT !.loop = IF stop \/ intentional \/ IsConnected THEN "ending" ELSE "begin"]
  /\ Quiet /\ UNCHANGED <<sock, connEvent, intentional, stop, lost>>

Backoff ==
  /\ at.loop = "backoff"
  /\ at' = [at EXCEPT !.loop = IF stop THEN "ending" ELSE "check"]
  /\ Quiet /\ UNCHANGED <<sock, connEvent, intentional, stop, lost>>

\* The on_connection_restored listeners, then the return.
Restored ==
  /\ at.loop = "restored" /\ at' = [at EXCEPT !.loop = "ending"]
  /\ Quiet /\ UNCHANGED <<sock, connEvent, intentional, stop, lost>>

LoopEnds ==
  /\ at.loop = "ending" /\ at' = [at EXCEPT !.loop = "none"]
  /\ Quiet /\ UNCHANGED <<sock, connEvent, intentional, stop, lost>>

\* The lifespan goes on whether or not the first connection succeeded.
Lifespan ==
  /\ at.main \in {"up", "down"} /\ at' = [at EXCEPT !.main = "run"]
  /\ Quiet /\ UNCHANGED <<sock, connEvent, intentional, stop, lost>>

DisconnectClean ==
  /\ at.main = "run" /\ at' = [at EXCEPT !.main = "off"]
  /\ intentional' = TRUE /\ stop' = TRUE
  /\ sock' = "closed" /\ connEvent' = FALSE
  /\ Quiet /\ UNCHANGED lost

\* tws_client.py:756: connectionClosed starts no second reconnect thread, and
\* a thread that is about to return still counts as alive.  An application
\* that runs without its connection has a thread that works on it, unless the
\* first connect was refused outright, the connection dropped while the
\* thread was telling its listeners, or the first attempt's timeout cleared
\* the event of a connection made in the meantime.
NotAbandoned == at.main = "run" /\ ~IsConnected => LoopAlive \/ lost # {}
=============================================================================
