------------------------------- MODULE Gateway ------------------------------
(* One IB Gateway and its clients: the session with whichever of its       *)
(* clients the behaviour follows, the limiter and the P&L writer.  The     *)
(* clients share the session and no other state, so they are followed one  *)
(* at a time; what a client gets from the limiter, a token now, a token    *)
(* later or a timeout, it chooses freely.                                  *)
EXTENDS GatewayLimiter, BrokerSnapshots, AccountMargin, LivePnl, PnlWriter,
        OrderRow, OrderIdentity

vars == <<client, session, events, limiter, snapshots, margin, lines, writer, orderVars, identity>>

Init == SessionInit /\ LimiterInit /\ SnapshotsInit /\ MarginInit /\ PnlInit /\ WriterInit
          /\ OrderRowInit /\ IdentityInit

TypeOK ==
  /\ SessionTypeOK /\ LimiterTypeOK /\ SnapshotsTypeOK /\ MarginTypeOK /\ PnlTypeOK /\ WriterTypeOK
  /\ OrderRowTypeOK /\ IdentityTypeOK

\* What a callback of the session does in its client.
OnClosed ==
  /\ SnapshotsClosed
  /\ IF client = "margin" THEN MarginOnClosed ELSE UNCHANGED margin
  /\ PnlOnClosed

\* connect puts a new socket in the place of one that is still open.
OnConnect ==
  /\ wire' = <<>> /\ UNCHANGED <<asking, requests, positions, fills, snap, book, synced, credited>>
  /\ subs' = {} /\ UNCHANGED <<doing, mine, started, active, nextReq, refresher, halt, starts, crossed>>
  /\ PnlOnClosed

\* The listeners run on the thread that calls them, which goes on when they
\* have returned.
Returns(t) == doing[t] = "idle"

OnNextValidId ==
  /\ Returns("reader")
  /\ IF client = "margin" THEN MarginOnNextValidId ELSE UNCHANGED margin
  /\ UNCHANGED <<snapshots, lines>>

OnRestored ==
  /\ IF client = "margin" THEN MarginOnRestored ELSE UNCHANGED margin
  /\ IF client = "lines" THEN PnlOnRestored ELSE UNCHANGED lines
  /\ UNCHANGED snapshots

OnLifespan ==
  /\ IF client = "margin" THEN MarginOnLifespan ELSE UNCHANGED margin
  /\ IF client = "lines" THEN PnlOnLifespan ELSE UNCHANGED lines
  /\ UNCHANGED snapshots

ThreadSteps(t) ==
  \/ (Refused(t) \/ Connected(t) \/ ClearAfterTimeout(t))
       /\ UNCHANGED <<snapshots, margin, lines>>
  \/ Connect(t) /\ OnConnect
  \/ HandshakeTimeout(t) /\ OnClosed

SessionNext ==
  \/ \E t \in {"main", "loop"} : ThreadSteps(t)
  \/ Drop /\ OnClosed
  \/ DisconnectClean /\ Returns("main") /\ OnClosed
  \/ NextValidId /\ OnNextValidId
  \/ Restored /\ OnRestored
  \/ Lifespan /\ OnLifespan
  \/ LoopEnds /\ Returns("loop") /\ UNCHANGED <<snapshots, margin, lines>>
  \/ (LoopCheck \/ Backoff) /\ UNCHANGED <<snapshots, margin, lines>>

\* The process ends with its clean disconnect.
ClientNext ==
  /\ at.main # "off"
  /\ \/ SnapshotsNext /\ Quiet /\ UNCHANGED <<margin, lines>>
     \/ SyncOffline /\ UNCHANGED <<margin, lines>>
     \/ client = "margin" /\ MarginNext /\ Quiet /\ UNCHANGED <<snapshots, lines>>
     \/ client = "lines" /\ LinesNext /\ Quiet /\ UNCHANGED <<snapshots, margin>>
     \/ client = "lines" /\ LinesFaults /\ Event /\ UNCHANGED <<snapshots, margin>>

Sessions == {"positions", "executions", "margin", "lines"}
Alone == UNCHANGED <<session, events, snapshots, margin, lines>>

Next ==
  /\ UNCHANGED client
  /\ \/ client \in Sessions /\ SessionNext /\ UNCHANGED <<limiter, writer, orderVars, identity>>
     \/ ClientNext /\ UNCHANGED <<session, limiter, writer, orderVars, identity>>
     \/ client = "limiter" /\ LimiterNext /\ Alone /\ UNCHANGED <<writer, orderVars, identity>>
     \/ client = "writer" /\ WriterNext /\ Alone /\ UNCHANGED <<limiter, orderVars, identity>>
     \/ client = "row" /\ OrderRowNext /\ Alone /\ UNCHANGED <<limiter, writer, identity>>
     \/ client = "ids" /\ IdentityNext /\ Alone /\ UNCHANGED <<limiter, writer, orderVars>>

Spec == Init /\ [][Next]_vars
=============================================================================
