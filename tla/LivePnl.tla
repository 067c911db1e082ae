------------------------------ MODULE LivePnl -------------------------------
(* LivePnlService: the market-data lines of the open trades, shared by     *)
(* contract and paced one message at a time.  Paced retries and            *)
(* qualifications are callbacks of the event loop that run some time after *)
(* the call that scheduled them.                                           *)
EXTENDS TwsSession, Functions

CONSTANTS
  Trades, Contracts,
  Legs,         \* the contracts of a trade
  Hydrated,     \* trades whose positions are open when the application starts
  Underlying,   \* the contract a line of a contract may be rerouted to
  MaxLines      \* bound: market-data request ids

ASSUME PnlAssumption ==
  /\ Legs \in [Trades -> SUBSET Contracts] /\ Hydrated \subseteq Trades
  /\ Underlying \in [Contracts -> Contracts] /\ IsFiniteSet(Contracts)
  /\ MaxLines \in Nat

Ids == 1 .. MaxLines

VARIABLES
  held,      \* trades with an OPEN row
  ended,     \* trades that have been closed: an id is not used twice
  legs,      \* the watched trades: _legs
  md,        \* the maps of the service, its pending callbacks and the gateway's lines
  cool,      \* contracts in _cooldowns
  starved,   \* history: contracts whose line an error took, or whose request failed
  skipped    \* history: trades that were open when the first connection failed

lines == <<held, ended, legs, md, cool, starved, skipped>>

Jobs == {<<"qualify", t, c>> : t \in Trades, c \in Contracts}
          \cup {<<k, r, None>> : k \in {"send", "cancel", "resub"}, r \in Ids}

PnlInit ==
  /\ held = Hydrated /\ ended = {} /\ legs = {} /\ cool = {} /\ starved = {} /\ skipped = {}
  /\ md = [reqOf |-> [c \in Contracts |-> 0], of |-> [r \in Ids |-> None],
           hear |-> [r \in Ids |-> {}], next |-> 1, live |-> {}, jobs |-> {}]

PnlTypeOK ==
  /\ held \subseteq Trades /\ ended \subseteq Trades /\ legs \subseteq Trades /\ skipped \subseteq Trades
  /\ cool \subseteq Contracts /\ starved \subseteq Contracts
  /\ md \in [reqOf : [Contracts -> 0 .. MaxLines], of : [Ids -> Contracts \cup {None}],
             hear : [Ids -> SUBSET Trades], next : 1 .. MaxLines + 1,
             live : SUBSET Ids, jobs : SUBSET Jobs]

-----------------------------------------------------------------------------
(* Messages to the gateway.  One on a closed socket is lost.               *)

Sent(m, rs)  == IF sock = "ready" THEN [m EXCEPT !.live = @ \cup rs] ELSE m
Ended(m, rs) == [m EXCEPT !.live = @ \ rs]
Later(m, js) == [m EXCEPT !.jobs = @ \cup js]

\* _try_paced_call for the requests rs: the ones granted go now, the others
\* are tried again in 50 ms.
PacedCalls(m, k, rs, granted) ==
  LET go == rs \cap granted
      n  == Later(m, {<<k, r, None>> : r \in rs \ go})
  IN  IF k = "cancel" THEN Ended(n, go) ELSE Sent(n, go)

\* reqMktData raised: the request is taken out of the maps, by contract too.
SendFailed(m, r) ==
  [m EXCEPT !.hear[r] = {}, !.reqOf = [c \in Contracts |-> IF c = m.of[r] THEN 0 ELSE @[c]]]

\* Contracts of the wanted <<trade, contract>> pairs that have no request yet,
\* and the ids they may get.
New(want) == {c \in Contracts : md.reqOf[c] = 0 /\ \E t \in Trades : <<t, c>> \in want}

Numbers(want) ==
  LET n == Cardinality(New(want)) IN
  IF md.next + n <= MaxLines + 1 THEN Injection(New(want), md.next .. md.next + n - 1) ELSE {}

\* The requests of contracts without one are numbered; every trade is attached
\* to the request of its contract.
Registered(m, want, num) ==
  LET req == [c \in Contracts |-> IF c \in New(want) THEN num[c] ELSE m.reqOf[c]] IN
  [m EXCEPT
     !.reqOf = req, !.next = @ + Cardinality(New(want)),
     !.of    = [r \in Ids |-> IF \E c \in New(want) : num[c] = r
                               THEN CHOOSE c \in New(want) : num[c] = r ELSE @[r]],
     !.hear  = [r \in Ids |-> @[r] \cup {t \in Trades : \E c \in Contracts : req[c] = r /\ <<t, c>> \in want}]]

\* The end of _request_ticks: attached to a line of the same contract, or a
\* request of its own.
Subscribed(m, want, num, granted) ==
  PacedCalls(Registered(m, want, num), "send", {num[c] : c \in New(want)}, granted)

\* _request_ticks skips a contract in a cooldown.
Wanted(ts) == {p \in Trades \X Contracts : p[1] \in ts /\ p[2] \in Legs[p[1]] \ cool}

Qualifying(m, ts) ==
  [m EXCEPT !.jobs = @ \cup UNION {{<<"qualify", t, c>> : c \in Legs[t]} : t \in ts}]

\* With a connection every leg is qualified first, on another thread; without
\* one it is requested at once, which registers it for the reconnect.
Watch(ts) ==
  IF IsConnected THEN md' = Qualifying(md, ts)
  ELSE \E num \in Numbers(Wanted(ts)), granted \in SUBSET Ids :
         md' = Subscribed(md, Wanted(ts), num, granted)

\* hydrate_live_pnl, only when the first connection was made.
PnlOnLifespan ==
  /\ IF at.main = "up"
     THEN legs' = Hydrated /\ Watch(Hydrated) /\ UNCHANGED skipped
     ELSE skipped' = Hydrated /\ UNCHANGED <<legs, md>>
  /\ UNCHANGED <<held, ended, cool, starved>>

WatchOpen(t) ==
  /\ at.main = "run" /\ t \notin held \cup ended
  /\ held' = held \cup {t} /\ legs' = legs \cup {t}
  /\ Watch({t})
  /\ starved' = IF IsConnected THEN starved ELSE starved \cup (Legs[t] \cap cool)
  /\ UNCHANGED <<ended, cool, skipped>>

Released(t) == [r \in Ids |-> md.hear[r] \ {t}]

\* unwatch: the lines nobody listens to any more are forgotten and cancelled.
\* A request or a qualification still under way is not.
Unwatch(t) ==
  LET gone == {r \in Ids : t \in md.hear[r] /\ Released(t)[r] = {}}
      m    == [md EXCEPT !.hear = Released(t),
                         !.reqOf = [c \in Contracts |-> IF c \in {md.of[r] : r \in gone} THEN 0 ELSE @[c]]]
  IN  /\ at.main = "run" /\ t \in held
      /\ held' = held \ {t} /\ ended' = ended \cup {t} /\ legs' = legs \ {t}
      /\ \E granted \in SUBSET Ids : md' = PacedCalls(m, "cancel", gone, granted)
      /\ UNCHANGED <<cool, starved, skipped>>

-----------------------------------------------------------------------------
(* Callbacks of the event loop.                                            *)

Done(j) == [md EXCEPT !.jobs = @ \ {j}]

\* _qualify_then_subscribe comes back.
QualifyThenSubscribe(t, c) ==
  /\ <<"qualify", t, c>> \in md.jobs
  /\ LET want == {<<t, c>>} \cap Wanted({t}) IN
     \E num \in Numbers(want), granted \in SUBSET Ids :
       md' = Subscribed(Done(<<"qualify", t, c>>), want, num, granted)
  /\ starved' = starved \cup ({c} \cap cool)
  /\ UNCHANGED <<held, ended, legs, cool, skipped>>

PacedRetry(k, r) ==
  /\ <<k, r, None>> \in md.jobs
  /\ md' = PacedCalls(Done(<<k, r, None>>), k, {r}, {r})
  /\ UNCHANGED <<held, ended, legs, cool, starved, skipped>>

RetryFails(r) ==
  /\ <<"send", r, None>> \in md.jobs
  /\ md' = SendFailed(Done(<<"send", r, None>>), r)
  /\ starved' = starved \cup {md.of[r]}
  /\ UNCHANGED <<held, ended, legs, cool, skipped>>

-----------------------------------------------------------------------------
(* Callbacks of the reader and the reconnect thread.                       *)

Requests(m) == {m.reqOf[c] : c \in Contracts} \ {0}

Resubscribed_FirstOnly(m, granted) ==
  PacedCalls(m, "resub", {r \in Requests(m) : \A q \in Requests(m) : r <= q}, granted)

\* _resubscribe_all_active.
Resubscribed(m, granted) == PacedCalls(m, "resub", Requests(m), granted)

\* The request is in _req_to_contract, which loses it with its listeners.
InUse(r) == md.hear[r] # {}

Active == {c \in Contracts : md.reqOf[c] # 0}

\* Contracts whose every watched trade listens to the request made again, and
\* with no older request left whose end would take this one out of the map.
Refed ==
  {c \in Active : /\ \A t \in legs : c \in Legs[t] => t \in md.hear[md.reqOf[c]]
                  /\ \A r \in Ids : md.of[r] = c /\ InUse(r) => r = md.reqOf[c]}

PnlOnRestored ==
  /\ \E granted \in SUBSET Ids : md' = Resubscribed(md, granted)
  /\ starved' = starved \ Refed
  /\ UNCHANGED <<held, ended, legs, cool, skipped>>

PnlOnClosed ==
  /\ md' = [md EXCEPT !.live = {}]
  /\ UNCHANGED <<held, ended, legs, cool, starved, skipped>>

\* Errors 354, 300, 321 and 200 end a line and start a cooldown; after it
\* nothing asks again.
NoMarketData(r) ==
  /\ r \in md.live /\ md' = Ended(md, {r})
  /\ IF InUse(r) THEN cool' = cool \cup {md.of[r]} /\ starved' = starved \cup {md.of[r]}
                 ELSE UNCHANGED <<cool, starved>>
  /\ UNCHANGED <<held, ended, legs, skipped>>

CooldownOver(c) == c \in cool /\ cool' = cool \ {c}
                   /\ UNCHANGED <<held, ended, legs, md, starved, skipped>>

\* Error 1101: the gateway has lost the lines.  The handler looks the request
\* id up before the code, and a message about the system carries none.
DataLost(named) ==
  /\ md.live # {}
  /\ IF named
     THEN /\ \E r \in md.live : InUse(r)
          /\ \E granted \in SUBSET Ids : md' = Resubscribed([md EXCEPT !.live = {}], granted)
          /\ cool' = {} /\ starved' = starved \ Refed
     ELSE md' = [md EXCEPT !.live = {}] /\ starved' = starved \cup Active /\ UNCHANGED cool
  /\ UNCHANGED <<held, ended, legs, skipped>>

\* rerouteMktDataReq: the listeners get a second line, on the underlying.
Reroute(r) ==
  LET u    == Underlying[md.of[r]]
      want == md.hear[r] \X {u}
  IN
  /\ r \in md.live /\ InUse(r) /\ u # md.of[r]
  /\ \E num \in Numbers(want), granted \in SUBSET Ids : md' = Subscribed(md, want, num, granted)
  /\ UNCHANGED <<held, ended, legs, cool, starved, skipped>>

LinesNext ==
  \/ \E t \in Trades : WatchOpen(t) \/ Unwatch(t) \/ \E c \in Legs[t] : QualifyThenSubscribe(t, c)
  \/ \E r \in Ids, k \in {"send", "cancel", "resub"} : PacedRetry(k, r)
  \/ \E c \in Contracts : CooldownOver(c)

LinesFaults ==
  \/ \E r \in Ids : RetryFails(r) \/ NoMarketData(r) \/ Reroute(r)
  \/ \E named \in BOOLEAN : DataLost(named)

\* pnl.py:379: subscriptions are shared, retried and made again after a
\* reconnect.  On a live connection with no callback pending every leg of an
\* open trade has its line, unless an error or a failed request took the
\* contract's line, or the trade was open when the first connection failed.
OpenTradeIsFed ==
  client = "lines" /\ at.main = "run" /\ IsConnected /\ at.loop = "none" /\ md.jobs = {}
    => \A t \in held \ skipped : \A c \in Legs[t] \ starved :
         \E r \in md.live : md.of[r] = c /\ t \in md.hear[r]
=============================================================================
