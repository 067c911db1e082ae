--------------------------- MODULE Gateway_proofs ---------------------------
(***************************************************************************)
(* Proofs about the gateway and its clients, for every value of the        *)
(* constants.  Each part has its inductive invariant and its own step; a   *)
(* behaviour of Gateway moves one client and leaves the others alone.      *)
(***************************************************************************)
EXTENDS Gateway, SumTheorems

----------------------------------------------------------------------------
(* The limiter.  The reserve is the distance between the two buckets.  An  *)
(* order that passes on the leftover takes a token from the global bucket  *)
(* only, but does so with the reserve above it and less than a token in    *)
(* the normal one: the distance stays above the reserve less a token.      *)

LimiterInv ==
  /\ bucket \in [global : 0 .. GlobalCap, normal : 0 .. NormalCap]
  /\ spent \in BOOLEAN
  /\ ~spent => bucket.global - bucket.normal > (ReserveMsg - 1) * Parts

LEMMA Caps ==
  /\ GlobalCap \in Nat /\ NormalCap \in Nat /\ ReserveMsg * Parts \in Nat /\ Parts \in Nat \ {0}
  /\ GlobalCap - NormalCap >= ReserveMsg * Parts
  /\ (ReserveMsg - 1) * Parts = ReserveMsg * Parts - Parts
  /\ NormalRate = NormalMsg /\ NormalMsg \in Nat /\ MaxMsg \in Nat /\ NormalMsg <= MaxMsg
<1>1. /\ MaxMsg \in Nat /\ NormalMsg \in Nat /\ ReserveMsg \in Nat /\ Parts \in Nat /\ Parts # 0
      /\ NormalMsg + ReserveMsg <= MaxMsg
  BY LimiterAssumption
<1>2. NormalRate = NormalMsg /\ NormalMsg <= MaxMsg
  BY <1>1 DEF NormalRate
<1>3. NormalCap = NormalMsg * Parts /\ GlobalCap = MaxMsg * Parts
  BY <1>1, <1>2 DEF NormalCap, GlobalCap
<1>4. PICK d \in Nat : MaxMsg = NormalMsg + ReserveMsg + d
  BY <1>1
<1>5. GlobalCap = NormalMsg * Parts + ReserveMsg * Parts + d * Parts
  BY <1>1, <1>3, <1>4
<1>6. NormalMsg * Parts \in Nat /\ ReserveMsg * Parts \in Nat /\ d * Parts \in Nat
  BY <1>1, <1>4
<1>7. (ReserveMsg - 1) * Parts = ReserveMsg * Parts - Parts
  BY <1>1
<1> QED BY <1>1, <1>2, <1>3, <1>5, <1>6, <1>7

LEMMA LimiterStart == LimiterInit => LimiterInv
<1> SUFFICES ASSUME LimiterInit PROVE LimiterInv
  OBVIOUS
<1>1. bucket = [global |-> GlobalCap, normal |-> NormalCap] /\ spent = FALSE
  BY DEF LimiterInit
<1>2. bucket.global = GlobalCap /\ bucket.normal = NormalCap
  BY <1>1
<1>3. GlobalCap - NormalCap > (ReserveMsg - 1) * Parts
  BY Caps
<1>4. bucket \in [global : 0 .. GlobalCap, normal : 0 .. NormalCap]
  BY <1>1, Caps
<1> QED BY <1>1, <1>2, <1>3, <1>4 DEF LimiterInv

LEMMA GrantKeeps ==
  ASSUME LimiterInv, NEW c \in Callers, CanConsume(Priority[c]), Grant(c)
  PROVE  LimiterInv'
<1> DEFINE p == Priority[c]
<1>p. p \in 0 .. 4 BY LimiterAssumption
<1>1. PICK g \in Int, n \in Int, cap \in Int, top \in Int, res \in Int :
        /\ g = bucket.global /\ n = bucket.normal /\ cap = NormalCap /\ top = GlobalCap
        /\ res = ReserveMsg * Parts /\ 0 <= g /\ g <= top /\ 0 <= n /\ n <= cap
        /\ ~spent => g - n > res - Parts
        /\ (ReserveMsg - 1) * Parts = res - Parts /\ Parts \in Nat \ {0}
  BY Caps DEF LimiterInv
<1>2. /\ g >= Parts
      /\ p = 1 => g - Parts >= res \/ n >= Parts
      /\ p > 1 => n >= Parts
  BY <1>1 DEF CanConsume
<1>3. bucket' = [global |-> g - Parts, normal |-> IF p # 0 /\ n >= Parts THEN n - Parts ELSE n]
  BY <1>1 DEF Grant, Consumed
<1>4. spent' \in BOOLEAN /\ (~spent' => ~spent /\ p # 0)
  BY DEF Grant, LimiterInv
<1> HIDE DEF p
<1>5. bucket' \in [global : 0 .. top, normal : 0 .. cap]
  BY <1>1, <1>2, <1>3
<1>6. ~spent' => bucket'.global - bucket'.normal > res - Parts
  <2>1. CASE n >= Parts BY <1>1, <1>3, <1>4, <2>1
  <2>2. CASE n < Parts BY <1>1, <1>2, <1>3, <1>4, <1>p, <2>2
  <2> QED BY <1>1, <2>1, <2>2
<1> QED BY <1>1, <1>4, <1>5, <1>6 DEF LimiterInv

LEMMA TickKeeps ==
  ASSUME LimiterInv, Tick
  PROVE  LimiterInv'
<1>1. PICK g \in Int, n \in Int, cap \in Int, top \in Int, res \in Int :
        /\ g = bucket.global /\ n = bucket.normal /\ cap = NormalCap /\ top = GlobalCap
        /\ res = ReserveMsg * Parts /\ 0 <= g /\ g <= top /\ 0 <= n /\ n <= cap
        /\ ~spent => g - n > res - Parts
        /\ (ReserveMsg - 1) * Parts = res - Parts /\ Parts \in Nat \ {0}
        /\ top - cap >= res
  BY Caps DEF LimiterInv
<1>2. PICK f \in Nat, m \in Nat : f = MaxMsg /\ m = NormalRate /\ m <= f
  BY Caps
<1>3. /\ bucket' = [global |-> IF top < g + f THEN top ELSE g + f,
                    normal |-> IF cap < n + m THEN cap ELSE n + m]
      /\ spent' = (spent /\ ~(bucket'.global = top)) /\ spent \in BOOLEAN
  BY <1>1, <1>2 DEF Tick, Refilled, Lesser, LimiterInv
<1>4. bucket' \in [global : 0 .. top, normal : 0 .. cap]
  BY <1>1, <1>2, <1>3
<1>5. ~spent' => bucket'.global - bucket'.normal > res - Parts
  BY <1>1, <1>2, <1>3
<1> QED BY <1>1, <1>3, <1>4, <1>5 DEF LimiterInv

LEMMA LimiterStep == LimiterInv /\ [Next]_vars => LimiterInv'
<1> SUFFICES ASSUME LimiterInv, [Next]_vars PROVE LimiterInv'
  OBVIOUS
<1>1. CASE LimiterNext
  <2>1. ASSUME NEW c \in Callers, Acquire(c) \/ Wake(c) PROVE LimiterInv'
    BY <2>1, GrantKeeps DEF Acquire, Wake
  <2>2. ASSUME NEW c \in Callers, TryAcquireDenied(c) \/ Wait(c) \/ AcquireTimeout(c)
        PROVE  LimiterInv'
    BY <2>2 DEF TryAcquireDenied, Wait, AcquireTimeout, LimiterInv
  <2>3. CASE NotifyError100
    BY <2>3, Caps DEF NotifyError100, LimiterInv
  <2>4. CASE CooldownEnds
    BY <2>4 DEF CooldownEnds, LimiterInv
  <2> QED BY <1>1, <2>1, <2>2, <2>3, <2>4, TickKeeps DEF LimiterNext
<1>2. CASE UNCHANGED limiter
  BY <1>2 DEF limiter, LimiterInv
<1> QED BY <1>1, <1>2 DEF Next, vars

(* Whatever mix of orders, requests, refills and cooldowns passes, less    *)
(* than one token of the flatten orders' reserve is ever missing, for      *)
(* every rate, burst and granularity of time that leaves the reserve.      *)
THEOREM ReserveKept == Spec => []ReserveHolds
<1>1. Init => LimiterInv BY LimiterStart DEF Init
<1>2. LimiterInv => ReserveHolds
  BY Caps DEF LimiterInv, ReserveHolds
<1> QED BY <1>1, <1>2, LimiterStep, PTL DEF Spec
----------------------------------------------------------------------------
(* The session.  A reconnect thread that is about to return has made a     *)
(* connection or left a reason; so when it is gone the application has the *)
(* one or the other.                                                       *)

LoopLeavesWord ==
  at.main # "off" /\ at.loop \in {"restored", "ending"} => connEvent \/ lost # {}

SomebodyCares ==
  at.main \in {"up", "down", "run"} => connEvent \/ LoopAlive \/ lost # {}

SessionInv ==
  /\ at \in Places
  /\ connEvent \in BOOLEAN /\ intentional \in BOOLEAN /\ stop \in BOOLEAN
  /\ sock \in {"closed", "open", "ready"}
  /\ connEvent => sock = "ready"
  /\ at.main = "boot" => at.loop = "none" /\ sock = "closed"
  /\ at.main # "off" => ~intentional /\ ~stop
  /\ LoopLeavesWord
  /\ SomebodyCares

LEMMA SessionStart == SessionInit => SessionInv
<1> SUFFICES ASSUME SessionInit PROVE SessionInv
  OBVIOUS
<1>1. at \in Places /\ at.main = "boot" /\ at.loop = "none"
  BY DEF SessionInit, Places
<1>2. sock = "closed" /\ connEvent = FALSE /\ intentional = FALSE /\ stop = FALSE
  BY DEF SessionInit
<1> QED BY <1>1, <1>2 DEF SessionInv, LoopLeavesWord, SomebodyCares

LEMMA ClosedKeeps ==
  ASSUME SessionInv, NEW place \in Places, ConnectionClosed(place),
         place.loop = at.loop \/ (at.loop = "wait" /\ place.loop = "clear"),
         place.main = at.main \/ (at.main = "wait" /\ place.main = "clear"),
         at.main # "boot"
  PROVE  SessionInv'
<1> USE DEF SessionInv, LoopLeavesWord, SomebodyCares, LoopAlive
<1>1. /\ sock' = "closed" /\ connEvent' = FALSE /\ intentional' = intentional
      /\ stop' = (stop /\ (LoopAlive \/ intentional))
      /\ lost' = IF at.loop \in {"restored", "ending"} THEN lost \cup {"unnoticed"} ELSE lost
      /\ at' = IF at.loop # "none" \/ intentional THEN place ELSE [place EXCEPT !.loop = "check"]
  BY DEF ConnectionClosed, Started
<1>2. /\ at' \in Places /\ at'.main = place.main
      /\ at'.loop = IF at.loop # "none" \/ intentional THEN place.loop ELSE "check"
  BY <1>1 DEF Places
<1>3. stop' \in BOOLEAN /\ (stop' => stop)
  BY <1>1
<1>4. LoopLeavesWord' BY <1>1, <1>2
<1>5. SomebodyCares' BY <1>1, <1>2
<1> QED BY <1>1, <1>2, <1>3, <1>4, <1>5

LEMMA SessionStep == SessionInv /\ [Next]_vars => SessionInv'
<1> SUFFICES ASSUME SessionInv, [Next]_vars PROVE SessionInv'
  OBVIOUS
<1> USE DEF SessionInv, LoopLeavesWord, SomebodyCares, LoopAlive, Places
<1>1. ASSUME NEW t \in {"main", "loop"}, Connect(t) PROVE SessionInv'
  <2>1. CASE t = "main" BY <1>1, <2>1 DEF Connect, Begins, IsConnected
  <2>2. CASE t = "loop" BY <1>1, <2>2 DEF Connect, Begins, IsConnected
  <2> QED BY <2>1, <2>2
<1>2. ASSUME NEW t \in {"main", "loop"}, Refused(t) PROVE SessionInv'
  <2>1. CASE t = "main" BY <1>2, <2>1 DEF Refused, Begins, Returned
  <2>2. CASE t = "loop" BY <1>2, <2>2 DEF Refused, Begins, Returned
  <2> QED BY <2>1, <2>2
<1>3. ASSUME NEW t \in {"main", "loop"}, Connected(t) PROVE SessionInv'
  <2>1. CASE t = "main" BY <1>3, <2>1 DEF Connected, Returned
  <2>2. CASE t = "loop" BY <1>3, <2>2 DEF Connected, Returned
  <2> QED BY <2>1, <2>2
<1>4. ASSUME NEW t \in {"main", "loop"}, HandshakeTimeout(t) PROVE SessionInv'
  <2>1. CASE t = "main" BY <1>4, <2>1, ClosedKeeps DEF HandshakeTimeout
  <2>2. CASE t = "loop" BY <1>4, <2>2, ClosedKeeps DEF HandshakeTimeout
  <2> QED BY <2>1, <2>2
<1>5. ASSUME NEW t \in {"main", "loop"}, ClearAfterTimeout(t) PROVE SessionInv'
  <2>1. stop' \in BOOLEAN /\ (stop' => stop) /\ UNCHANGED <<sock, intentional>> /\ connEvent' = FALSE
    BY <1>5 DEF ClearAfterTimeout
  <2>2. CASE t = "main"
    <3>1. /\ at.main = "clear"
          /\ at' = IF at.loop # "none" \/ intentional THEN [at EXCEPT !.main = "down"]
                   ELSE [at EXCEPT !.main = "down", !.loop = "check"]
          /\ lost' = IF connEvent /\ LoopAlive THEN lost \cup {"clobbered"} ELSE lost
      BY <1>5, <2>2 DEF ClearAfterTimeout, Started, Returned
    <3> QED BY <2>1, <3>1
  <2>3. CASE t = "loop"
    <3>1. at.loop = "clear" /\ at' = [at EXCEPT !.loop = "backoff"] /\ lost' = lost
      BY <1>5, <2>3 DEF ClearAfterTimeout, Started, Returned
    <3> QED BY <2>1, <3>1
  <2> QED BY <2>2, <2>3
<1>6. CASE Drop BY <1>6, ClosedKeeps DEF Drop
<1>7. CASE DisconnectClean BY <1>7 DEF DisconnectClean
<1>8. CASE NextValidId BY <1>8 DEF NextValidId
<1>9. CASE Restored \/ LoopEnds BY <1>9 DEF Restored, LoopEnds
<1>10. CASE Lifespan BY <1>10 DEF Lifespan
<1>11. CASE LoopCheck \/ Backoff BY <1>11 DEF LoopCheck, Backoff, IsConnected
<1>12. CASE UNCHANGED session BY <1>12 DEF session
<1> QED
  BY <1>1, <1>2, <1>3, <1>4, <1>5, <1>6, <1>7, <1>8, <1>9, <1>10, <1>11, <1>12
  DEF Next, SessionNext, ThreadSteps, Alone, vars

(* An application that runs without its connection has a reconnect thread  *)
(* at work, or one of the three known races has left it without, whatever  *)
(* drops, refusals, timeouts and interleavings of the two threads came     *)
(* before.                                                                 *)
THEOREM SessionNotAbandoned == Spec => []NotAbandoned
<1>1. Init => SessionInv BY SessionStart DEF Init
<1>2. SessionInv => NotAbandoned
  BY DEF SessionInv, SomebodyCares, NotAbandoned, IsConnected
<1> QED BY <1>1, <1>2, SessionStep, PTL DEF Spec
----------------------------------------------------------------------------
(* The snapshots.  The connection keeps the order of what the gateway      *)
(* sends: in front of the end of an answer stands whatever of the answer   *)
(* has not been heard yet.                                                 *)

PositionMsgs == [kind : {"position"}, line : Holdings] \cup [kind : {"positionEnd"}, line : {None}]
ReportMsgs   == [kind : {"exec", "commission"}, line : Execs, req : Nat]
                  \cup [kind : {"end"}, line : {None}, req : Nat]
Messages     == PositionMsgs \cup ReportMsgs

SnapshotsTyped ==
  /\ wire \in Seq(Messages) /\ requests \in Nat /\ asking \in BOOLEAN
  /\ positions \in [lines : SUBSET Holdings, done : BOOLEAN]
  /\ fills \in [req : Nat, lines : SUBSET Execs, paid : SUBSET Execs,
                pending : SUBSET Execs, done : BOOLEAN]
  /\ snap \in [lines : SUBSET Holdings, timedOut : BOOLEAN, excuse : {None, "offline", "crossed"}]
  /\ book \in [Execs -> [kept : BOOLEAN, commission : BOOLEAN, order : BOOLEAN]]
  /\ credited \subseteq Execs

(* No request number on its way or in the collector is one yet to come.    *)
NumbersArePast ==
  /\ fills.req <= requests
  /\ \A i \in 1 .. Len(wire) : wire[i] \in ReportMsgs => wire[i].req <= requests

ReportsBeforeEnd ==
  /\ \A i \in 1 .. Len(wire) :
       wire[i].kind = "end" /\ wire[i].req = fills.req /\ fills.req # 0 =>
         \A e \in Execs : \/ e \in fills.lines
                          \/ \E j \in 1 .. i - 1 : /\ wire[j].kind = "exec" /\ wire[j].req = fills.req
                                                   /\ wire[j].line = e
  /\ fills.done => fills.lines = Execs

PositionsBeforeEnd ==
  client = "positions" /\ asking /\ snap.excuse = None =>
    /\ \A i \in 1 .. Len(wire) : wire[i].kind = "positionEnd" =>
         \A h \in Holdings : \/ h \in positions.lines
                             \/ \E j \in 1 .. i - 1 : wire[j].kind = "position" /\ wire[j].line = h
    /\ positions.done => positions.lines = Holdings

SnapshotsInv ==
  SnapshotsTyped /\ NumbersArePast /\ ReportsBeforeEnd /\ PositionsBeforeEnd
    /\ SnapshotIsWhole /\ BookIsWhole

LEMMA TailAt ==
  ASSUME NEW S, NEW s \in Seq(S), s # <<>>
  PROVE  /\ Tail(s) \in Seq(S) /\ Len(Tail(s)) = Len(s) - 1 /\ Len(s) \in Nat \ {0}
         /\ Head(s) = s[1] /\ Head(s) \in S
         /\ \A i \in 1 .. Len(s) - 1 : Tail(s)[i] = s[i + 1]
OBVIOUS

LEMMA ConcatAt ==
  ASSUME NEW S, NEW s \in Seq(S), NEW t \in Seq(S)
  PROVE  /\ s \o t \in Seq(S) /\ Len(s \o t) = Len(s) + Len(t)
         /\ \A i \in 1 .. Len(s) : (s \o t)[i] = s[i]
         /\ \A i \in 1 .. Len(t) : (s \o t)[Len(s) + i] = t[i]
OBVIOUS

LEMMA CutAt ==
  ASSUME wire \in Seq(Messages), NEW rest \in CutOff
  PROVE  /\ rest \in Seq(Messages) /\ Len(rest) \in 0 .. Len(wire)
         /\ \A i \in 1 .. Len(rest) : rest[i] = wire[i]
BY DEF CutOff

(* An enumeration of the holdings that repeats none leaves out none.       *)
LEMMA EveryHoldingListed ==
  /\ Cardinality(Holdings) \in Nat
  /\ SetToSeq(Holdings) \in [1 .. Cardinality(Holdings) -> Holdings]
  /\ \A h \in Holdings : \E i \in 1 .. Cardinality(Holdings) : SetToSeq(Holdings)[i] = h
<1>1. IsFiniteSet(Holdings) BY SnapshotsAssumption
<1>2. PICK n \in Nat : n = Cardinality(Holdings) /\ ExistsBijection(1 .. n, Holdings)
  BY <1>1, FS_CardinalityType
<1>3. \E f \in [1 .. n -> Holdings] : IsInjective(f)
  BY <1>2 DEF ExistsBijection, Bijection, Injection
<1>4. SetToSeq(Holdings) \in [1 .. n -> Holdings] /\ IsInjective(SetToSeq(Holdings))
  BY <1>2, <1>3 DEF SetToSeq
<1>5. SetToSeq(Holdings) \in Injection(1 .. n, Holdings)
  BY <1>4 DEF Injection
<1>6. IsFiniteSet(1 .. n) /\ Cardinality(1 .. n) = n
  BY FS_Interval
<1>7. SetToSeq(Holdings) \in Surjection(1 .. n, Holdings)
  BY <1>1, <1>2, <1>5, <1>6, FS_Injection
<1> QED BY <1>2, <1>4, <1>7 DEF Surjection

LEMMA AnswerIsWhole ==
  /\ PositionAnswer \in Seq(Messages)
  /\ \A i \in 1 .. Len(PositionAnswer) : PositionAnswer[i] \in PositionMsgs
  /\ \A i \in 1 .. Len(PositionAnswer) : PositionAnswer[i].kind = "positionEnd" =>
       \A h \in Holdings : \E j \in 1 .. i - 1 :
         PositionAnswer[j].kind = "position" /\ PositionAnswer[j].line = h
<1> DEFINE n == Cardinality(Holdings)
           s == [i \in 1 .. n |-> [kind |-> "position", line |-> SetToSeq(Holdings)[i]]]
           e == <<[kind |-> "positionEnd", line |-> None]>>
<1>1. n \in Nat BY EveryHoldingListed
<1>2. s \in Seq(Messages) /\ Len(s) = n
  BY <1>1, EveryHoldingListed DEF Messages, PositionMsgs
<1>3. e \in Seq(Messages) /\ Len(e) = 1 /\ e[1] = [kind |-> "positionEnd", line |-> None]
  BY DEF Messages, PositionMsgs
<1>4. \A i \in 1 .. n : s[i] = [kind |-> "position", line |-> SetToSeq(Holdings)[i]]
  OBVIOUS
<1>5. PositionAnswer = s \o e BY DEF PositionAnswer
<1> HIDE DEF s, e, n
<1>6. /\ PositionAnswer \in Seq(Messages) /\ Len(PositionAnswer) = n + 1
      /\ \A i \in 1 .. n : PositionAnswer[i] = s[i]
      /\ PositionAnswer[n + 1] = e[1]
  BY <1>1, <1>2, <1>3, <1>5, ConcatAt
<1>7. ASSUME NEW i \in 1 .. n
      PROVE  /\ PositionAnswer[i] \in PositionMsgs /\ PositionAnswer[i].kind = "position"
             /\ PositionAnswer[i].line = SetToSeq(Holdings)[i]
  <2>1. PositionAnswer[i] = [kind |-> "position", line |-> SetToSeq(Holdings)[i]]
    BY <1>4, <1>6
  <2>2. SetToSeq(Holdings)[i] \in Holdings BY EveryHoldingListed DEF n
  <2> QED BY <2>1, <2>2 DEF PositionMsgs
<1>8. PositionAnswer[n + 1] \in PositionMsgs BY <1>3, <1>6 DEF PositionMsgs
<1>9. \A h \in Holdings : \E j \in 1 .. n :
        PositionAnswer[j].kind = "position" /\ PositionAnswer[j].line = h
  <2>1. TAKE h \in Holdings
  <2>2. PICK j \in 1 .. n : SetToSeq(Holdings)[j] = h BY EveryHoldingListed DEF n
  <2> QED BY <1>7, <2>2
<1>10. ASSUME NEW i \in 1 .. Len(PositionAnswer)
       PROVE  i = n + 1 \/ i \in 1 .. n
  BY <1>1, <1>6
<1>11. \A i \in 1 .. Len(PositionAnswer) : PositionAnswer[i] \in PositionMsgs
  BY <1>7, <1>8, <1>10
<1>12. ASSUME NEW i \in 1 .. Len(PositionAnswer), PositionAnswer[i].kind = "positionEnd"
       PROVE  \A h \in Holdings : \E j \in 1 .. i - 1 :
                PositionAnswer[j].kind = "position" /\ PositionAnswer[j].line = h
  <2>1. i = n + 1
    <3>1. i \in 1 .. n => PositionAnswer[i].kind = "position" BY <1>7
    <3>2. "position" # "positionEnd" OBVIOUS
    <3> QED BY <1>10, <1>12, <3>1, <3>2
  <2>2. i - 1 = n BY <1>1, <2>1
  <2> QED BY <1>9, <2>2
<1> QED BY <1>6, <1>11, <1>12
LEMMA SnapshotsStart == SnapshotsInit => SnapshotsInv
<1> SUFFICES ASSUME SnapshotsInit PROVE SnapshotsInv
  OBVIOUS
<1>1. /\ wire = <<>> /\ asking = FALSE /\ requests = 0 /\ synced = None /\ credited = {}
      /\ fills.req = 0 /\ fills.done = FALSE /\ snap.timedOut = TRUE
  BY DEF SnapshotsInit
<1>2. SnapshotsTyped
  <2>1. book \in [Execs -> [kept : BOOLEAN, commission : BOOLEAN, order : BOOLEAN]]
    BY DEF SnapshotsInit, NoRow
  <2>2. wire \in Seq(Messages) BY <1>1
  <2>3. positions \in [lines : SUBSET Holdings, done : BOOLEAN]
    BY DEF SnapshotsInit
  <2>4. fills \in [req : Nat, lines : SUBSET Execs, paid : SUBSET Execs,
                   pending : SUBSET Execs, done : BOOLEAN]
    BY DEF SnapshotsInit
  <2>5. snap \in [lines : SUBSET Holdings, timedOut : BOOLEAN, excuse : {None, "offline", "crossed"}]
    BY DEF SnapshotsInit
  <2> QED BY <1>1, <2>1, <2>2, <2>3, <2>4, <2>5 DEF SnapshotsTyped
<1>3. NumbersArePast BY <1>1 DEF NumbersArePast
<1>4. ReportsBeforeEnd BY <1>1 DEF ReportsBeforeEnd
<1>5. PositionsBeforeEnd BY <1>1 DEF PositionsBeforeEnd
<1>6. SnapshotIsWhole /\ BookIsWhole BY <1>1 DEF SnapshotIsWhole, BookIsWhole, None
<1> QED BY <1>2, <1>3, <1>4, <1>5, <1>6 DEF SnapshotsInv

LEMMA ClosedWire ==
  ASSUME SnapshotsInv, client' = client, wire' = <<>>,
         UNCHANGED <<asking, requests, positions, fills, snap, book, synced, credited>>
  PROVE  SnapshotsInv'
BY DEF SnapshotsInv, SnapshotsTyped, NumbersArePast, ReportsBeforeEnd, PositionsBeforeEnd,
       SnapshotIsWhole, BookIsWhole

LEMMA RequestPositionsKeeps ==
  ASSUME SnapshotsInv, client' = client, RequestPositions
  PROVE  SnapshotsInv'
<1>1. PICK rest \in CutOff :
        /\ wire' = rest \o PositionAnswer
        /\ snap' = [lines |-> {}, timedOut |-> TRUE, excuse |-> IF rest # <<>> THEN "crossed" ELSE None]
  BY DEF RequestPositions
<1>2. /\ asking' = TRUE /\ requests' = requests + 1 /\ positions' = [lines |-> {}, done |-> FALSE]
      /\ UNCHANGED <<fills, book, synced, credited>>
  BY DEF RequestPositions, Reset
<1>3. /\ rest \in Seq(Messages) /\ Len(rest) \in 0 .. Len(wire)
      /\ \A i \in 1 .. Len(rest) : rest[i] = wire[i]
  BY CutAt DEF SnapshotsInv, SnapshotsTyped
<1>4. PICK m \in Nat, n \in Nat : m = Len(rest) /\ n = Len(PositionAnswer)
  BY <1>3, AnswerIsWhole
<1>5. /\ wire' \in Seq(Messages) /\ Len(wire') = m + n
      /\ \A i \in 1 .. m : wire'[i] = wire[i]
      /\ \A i \in 1 .. n : wire'[m + i] = PositionAnswer[i]
  BY <1>1, <1>3, <1>4, AnswerIsWhole, ConcatAt
<1>6. ASSUME NEW i \in 1 .. m + n
      PROVE  \/ i \in 1 .. m
             \/ i \notin 1 .. m /\ i - m \in 1 .. n /\ i = m + (i - m)
  BY <1>4
<1>7. ASSUME NEW i \in 1 .. m + n
      PROVE  \/ i \in 1 .. m /\ i \in 1 .. Len(wire) /\ wire'[i] = wire[i]
             \/ wire'[i] \in PositionMsgs
  <2>1. 1 .. m \subseteq 1 .. Len(wire) BY <1>3, <1>4
  <2>2. CASE i \in 1 .. m BY <1>5, <2>1, <2>2
  <2>3. CASE i - m \in 1 .. n /\ i = m + (i - m) BY <1>4, <1>5, <2>3, AnswerIsWhole
  <2> QED BY <1>6, <2>2, <2>3
<1>8. SnapshotsTyped'
  BY <1>1, <1>2, <1>5 DEF SnapshotsInv, SnapshotsTyped
<1>9. \A p \in PositionMsgs : p \notin ReportMsgs /\ p.kind \in {"position", "positionEnd"}
  BY DEF PositionMsgs, ReportMsgs
<1>10. NumbersArePast'
  <2>1. fills.req <= requests /\ fills.req \in Nat /\ requests \in Nat
    BY DEF SnapshotsInv, SnapshotsTyped, NumbersArePast
  <2>2. ASSUME NEW i \in 1 .. m + n, wire'[i] \in ReportMsgs
        PROVE  wire'[i].req <= requests + 1
    <3>1. i \in 1 .. Len(wire) /\ wire'[i] = wire[i] BY <1>7, <1>9, <2>2
    <3>2. wire[i].req <= requests BY <2>2, <3>1 DEF SnapshotsInv, NumbersArePast
    <3>3. wire[i].req \in Nat BY <2>2, <3>1 DEF ReportMsgs
    <3> QED BY <2>1, <3>1, <3>2, <3>3
  <2> QED BY <1>2, <1>5, <2>1, <2>2 DEF NumbersArePast
<1>11. ReportsBeforeEnd'
  <2>1. SUFFICES ASSUME NEW i \in 1 .. m + n, wire'[i].kind = "end", wire'[i].req = fills.req, fills.req # 0,
                        NEW e \in Execs, e \notin fills.lines
                 PROVE  \E j \in 1 .. i - 1 : /\ wire'[j].kind = "exec" /\ wire'[j].req = fills.req
                                              /\ wire'[j].line = e
    BY <1>2, <1>5 DEF SnapshotsInv, ReportsBeforeEnd
  <2>2. i \in 1 .. m /\ i \in 1 .. Len(wire) /\ wire'[i] = wire[i]
    BY <1>7, <1>9, <2>1
  <2>3. PICK j \in 1 .. i - 1 : wire[j].kind = "exec" /\ wire[j].req = fills.req /\ wire[j].line = e
    BY <2>1, <2>2 DEF SnapshotsInv, ReportsBeforeEnd
  <2>4. j \in 1 .. m BY <1>4, <2>2, <2>3
  <2> QED BY <1>5, <2>3, <2>4
<1>12. PositionsBeforeEnd'
  <2>1. CASE rest # <<>>
    <3>1. snap'.excuse = "crossed" BY <1>1, <2>1
    <3> QED BY <3>1 DEF PositionsBeforeEnd, None
  <2>2. CASE rest = <<>>
    <3>1. wire' = PositionAnswer BY <1>1, <2>2, AnswerIsWhole
    <3>2. positions'.done = FALSE BY <1>2
    <3> QED BY <3>1, <3>2, AnswerIsWhole DEF PositionsBeforeEnd
  <2> QED BY <2>1, <2>2
<1>13. SnapshotIsWhole' BY <1>1 DEF SnapshotIsWhole
<1>14. BookIsWhole' BY <1>2 DEF SnapshotsInv, BookIsWhole
<1> QED BY <1>8, <1>10, <1>11, <1>12, <1>13, <1>14 DEF SnapshotsInv

LEMMA PositionsReturnKeeps ==
  ASSUME SnapshotsInv, client' = client, NEW timedOut \in BOOLEAN, PositionsReturn(timedOut),
         timedOut \/ positions.done
  PROVE  SnapshotsInv'
<1>1. /\ client = "positions" /\ asking /\ asking' = FALSE /\ wire' \in CutOff
      /\ snap' = [snap EXCEPT !.lines = positions.lines, !.timedOut = timedOut]
      /\ UNCHANGED <<requests, positions, fills, book, synced, credited>>
  BY DEF PositionsReturn
<1>2. /\ wire' \in Seq(Messages) /\ Len(wire') \in 0 .. Len(wire)
      /\ \A i \in 1 .. Len(wire') : wire'[i] = wire[i]
  BY <1>1, CutAt DEF SnapshotsInv, SnapshotsTyped
<1>3. Len(wire) \in Nat /\ 1 .. Len(wire') \subseteq 1 .. Len(wire)
  BY <1>2 DEF SnapshotsInv, SnapshotsTyped
<1>4. SnapshotsTyped' BY <1>1, <1>2 DEF SnapshotsInv, SnapshotsTyped
<1>5. NumbersArePast' BY <1>1, <1>2, <1>3 DEF SnapshotsInv, NumbersArePast
<1>6. ReportsBeforeEnd'
  <2>1. SUFFICES ASSUME NEW i \in 1 .. Len(wire'), wire'[i].kind = "end", wire'[i].req = fills.req,
                        fills.req # 0, NEW e \in Execs, e \notin fills.lines
                 PROVE  \E j \in 1 .. i - 1 : /\ wire'[j].kind = "exec" /\ wire'[j].req = fills.req
                                              /\ wire'[j].line = e
    BY <1>1 DEF SnapshotsInv, ReportsBeforeEnd
  <2>2. i \in 1 .. Len(wire) /\ wire'[i] = wire[i] BY <1>2, <1>3
  <2>3. PICK j \in 1 .. i - 1 : wire[j].kind = "exec" /\ wire[j].req = fills.req /\ wire[j].line = e
    BY <2>1, <2>2 DEF SnapshotsInv, ReportsBeforeEnd
  <2>4. j \in 1 .. Len(wire') BY <1>2, <1>3, <2>3
  <2> QED BY <1>2, <2>3, <2>4
<1>7. PositionsBeforeEnd' BY <1>1 DEF PositionsBeforeEnd
<1>8. SnapshotIsWhole'
  <2>1. snap'.lines = positions.lines /\ snap'.timedOut = timedOut /\ snap'.excuse = snap.excuse
    BY <1>1 DEF SnapshotsInv, SnapshotsTyped
  <2> QED BY <1>1, <2>1 DEF SnapshotsInv, PositionsBeforeEnd, SnapshotIsWhole
<1>9. BookIsWhole' BY <1>1 DEF SnapshotsInv, BookIsWhole
<1> QED BY <1>4, <1>5, <1>6, <1>7, <1>8, <1>9 DEF SnapshotsInv
LEMMA RequestExecutionsKeeps ==
  ASSUME SnapshotsInv, client' = client, RequestExecutions
  PROVE  SnapshotsInv'
<1> DEFINE r == requests + 1
<1>1. /\ client = "executions" /\ asking' = TRUE /\ requests' = r
      /\ fills' = [req |-> r, lines |-> {}, paid |-> {}, pending |-> {}, done |-> FALSE]
      /\ UNCHANGED <<positions, snap, book, synced, credited>>
  BY DEF RequestExecutions, May
<1>2. requests \in Nat /\ r \in Nat /\ r # 0 /\ fills'.req = r /\ fills'.done = FALSE
  BY <1>1 DEF SnapshotsInv, SnapshotsTyped
<1>3. PICK a \in Answers :
        wire' = wire \o [i \in 1 .. Len(a) |-> [kind |-> a[i].kind, line |-> a[i].exec, req |-> r]]
  BY DEF RequestExecutions
<1> DEFINE t == [i \in 1 .. Len(a) |-> [kind |-> a[i].kind, line |-> a[i].exec, req |-> r]]
<1>4. /\ a \in Seq([kind : {"exec", "commission"}, exec : Execs] \cup [kind : {"end"}, exec : {None}])
      /\ \A i \in 1 .. Len(a) : a[i].kind = "end" =>
           \A e \in Execs : \E j \in 1 .. i - 1 : a[j].kind = "exec" /\ a[j].exec = e
  BY SnapshotsAssumption
<1>5. PICK m \in Nat, n \in Nat : m = Len(wire) /\ n = Len(a)
  BY <1>4 DEF SnapshotsInv, SnapshotsTyped
<1>6. ASSUME NEW i \in 1 .. n
      PROVE  /\ t[i] \in ReportMsgs /\ t[i].kind = a[i].kind /\ t[i].line = a[i].exec /\ t[i].req = r
  BY <1>2, <1>4, <1>5 DEF ReportMsgs
<1>7. t \in Seq(Messages) /\ Len(t) = n
  BY <1>5, <1>6 DEF Messages
<1>8. wire' = wire \o t BY <1>3
<1>9. wire \in Seq(Messages) BY DEF SnapshotsInv, SnapshotsTyped
<1> HIDE DEF t, r
<1>10. /\ wire' \in Seq(Messages) /\ Len(wire') = m + n
       /\ \A i \in 1 .. m : wire'[i] = wire[i]
       /\ \A i \in 1 .. n : wire'[m + i] = t[i]
  <2>1. PICK w \in Seq(Messages), u \in Seq(Messages) : w = wire /\ u = t
    BY <1>7, <1>9
  <2>2. wire' = w \o u /\ Len(w) = m /\ Len(u) = n BY <1>5, <1>7, <1>8, <2>1
  <2>3. /\ w \o u \in Seq(Messages) /\ Len(w \o u) = Len(w) + Len(u)
        /\ \A i \in 1 .. Len(w) : (w \o u)[i] = w[i]
        /\ \A i \in 1 .. Len(u) : (w \o u)[Len(w) + i] = u[i]
    BY ConcatAt
  <2>4. /\ wire' \in Seq(Messages) /\ Len(wire') = m + n
        /\ \A i \in 1 .. m : wire'[i] = w[i]
        /\ \A i \in 1 .. n : wire'[m + i] = u[i]
    BY <2>2, <2>3
  <2> QED BY <2>1, <2>4
<1>11. ASSUME NEW i \in 1 .. m + n
       PROVE  \/ i \in 1 .. m /\ wire'[i] = wire[i]
              \/ i - m \in 1 .. n /\ i = m + (i - m) /\ wire'[i] = t[i - m]
  <2>1. i \in 1 .. m \/ (i - m \in 1 .. n /\ i = m + (i - m)) BY <1>5
  <2>2. CASE i \in 1 .. m BY <1>10, <2>2
  <2>3. CASE i - m \in 1 .. n /\ i = m + (i - m) BY <1>10, <2>3
  <2> QED BY <2>1, <2>2, <2>3
<1>12. SnapshotsTyped'
  BY <1>1, <1>2, <1>10 DEF SnapshotsInv, SnapshotsTyped
<1>13. ASSUME NEW i \in 1 .. m, wire[i] \in ReportMsgs
       PROVE  wire[i].req \in Nat /\ wire[i].req < r
  <2>1. wire[i].req <= requests BY <1>5, <1>13 DEF SnapshotsInv, NumbersArePast
  <2>2. wire[i].req \in Nat BY <1>13 DEF ReportMsgs
  <2> QED BY <1>2, <2>1, <2>2 DEF r
<1>14. NumbersArePast'
  <2>1. ASSUME NEW i \in 1 .. m + n, wire'[i] \in ReportMsgs
        PROVE  wire'[i].req <= r
    <3>1. CASE i \in 1 .. m /\ wire'[i] = wire[i] BY <1>2, <1>13, <2>1, <3>1
    <3>2. CASE i - m \in 1 .. n /\ wire'[i] = t[i - m] BY <1>2, <1>6, <3>2
    <3> QED BY <1>11, <3>1, <3>2
  <2> QED BY <1>1, <1>2, <1>10, <2>1 DEF NumbersArePast
<1>15. ReportsBeforeEnd'
  <2>1. SUFFICES ASSUME NEW i \in 1 .. m + n, wire'[i].kind = "end", wire'[i].req = r, NEW e \in Execs
                 PROVE  \E j \in 1 .. i - 1 : wire'[j].kind = "exec" /\ wire'[j].req = r /\ wire'[j].line = e
    BY <1>2, <1>10 DEF ReportsBeforeEnd
  <2>2. CASE i \in 1 .. m /\ wire'[i] = wire[i]
    <3>1. wire[i] \in Messages BY <1>5, <1>9, <2>2
    <3>2. wire[i] \in ReportMsgs BY <2>1, <2>2, <3>1 DEF Messages, PositionMsgs
    <3> QED BY <1>2, <1>13, <2>1, <2>2, <3>2
  <2>3. CASE i - m \in 1 .. n /\ i = m + (i - m) /\ wire'[i] = t[i - m]
    <3>1. a[i - m].kind = "end" BY <1>6, <2>1, <2>3
    <3>2. PICK k \in 1 .. (i - m) - 1 : a[k].kind = "exec" /\ a[k].exec = e
      BY <1>4, <1>5, <2>3, <3>1
    <3>3. k \in 1 .. n /\ m + k \in 1 .. i - 1 BY <1>5, <2>3, <3>2
    <3>4. wire'[m + k] = t[k] BY <1>10, <3>3
    <3> QED BY <1>6, <3>2, <3>3, <3>4
  <2> QED BY <1>11, <2>2, <2>3
<1>16. PositionsBeforeEnd' BY <1>1 DEF PositionsBeforeEnd
<1>17. SnapshotIsWhole' /\ BookIsWhole' BY <1>1 DEF SnapshotsInv, SnapshotIsWhole, BookIsWhole
<1> QED BY <1>12, <1>14, <1>15, <1>16, <1>17 DEF SnapshotsInv

LEMMA ExecutionsReturnKeeps ==
  ASSUME SnapshotsInv, client' = client, NEW timedOut \in BOOLEAN, ExecutionsReturn(timedOut),
         timedOut \/ fills.done
  PROVE  SnapshotsInv'
<1>1. PICK linked \in {{}, Execs} : book' = Upserted(linked)
  BY DEF ExecutionsReturn
<1>2. /\ client = "executions" /\ asking' = FALSE /\ fills' = [fills EXCEPT !.req = 0]
      /\ synced' = (IF timedOut THEN synced ELSE "yes")
      /\ credited' = credited \cup (fills.lines \cap fills.paid)
      /\ UNCHANGED <<wire, requests, positions, snap>>
  BY DEF ExecutionsReturn
<1>3. fills'.req = 0 /\ fills'.lines = fills.lines /\ fills'.done = fills.done
  BY <1>2 DEF SnapshotsInv, SnapshotsTyped
<1>4. ASSUME NEW e \in Execs
      PROVE  /\ book'[e] \in [kept : BOOLEAN, commission : BOOLEAN, order : BOOLEAN]
             /\ book[e].kept => book'[e].kept
             /\ book[e].commission => book'[e].commission
             /\ e \in fills.lines => book'[e].kept
             /\ e \in fills.lines /\ e \in fills.paid => book'[e].commission
  <2>1. book[e] \in [kept : BOOLEAN, commission : BOOLEAN, order : BOOLEAN]
    BY DEF SnapshotsInv, SnapshotsTyped
  <2>2. CASE e \in fills.lines
    <3>1. PICK paid \in BOOLEAN, order \in BOOLEAN :
            /\ paid = (book[e].commission \/ e \in fills.paid)
            /\ order = (book[e].order \/ e \in linked)
      OBVIOUS
    <3>2. book'[e] = [kept |-> TRUE, commission |-> paid, order |-> order]
      BY <1>1, <2>2, <3>1 DEF Upserted
    <3>3. book'[e].kept = TRUE /\ book'[e].commission = paid BY <3>2
    <3>4. book'[e] \in [kept : BOOLEAN, commission : BOOLEAN, order : BOOLEAN] BY <3>2
    <3>5. book[e].commission \/ e \in fills.paid => paid BY <3>1
    <3> QED BY <3>3, <3>4, <3>5
  <2>3. CASE e \notin fills.lines
    <3>1. book'[e] = book[e] BY <1>1, <2>3 DEF Upserted
    <3> QED BY <2>1, <2>3, <3>1
  <2> QED BY <2>2, <2>3
<1>5. book' \in [Execs -> [kept : BOOLEAN, commission : BOOLEAN, order : BOOLEAN]]
  <2>1. DOMAIN book' = Execs /\ book' = [e \in Execs |-> book'[e]] BY <1>1 DEF Upserted
  <2> QED BY <1>4, <2>1
<1>6. SnapshotsTyped' BY <1>2, <1>5 DEF SnapshotsInv, SnapshotsTyped
<1>7. NumbersArePast' BY <1>2, <1>3 DEF SnapshotsInv, SnapshotsTyped, NumbersArePast
<1>8. ReportsBeforeEnd' BY <1>3 DEF SnapshotsInv, ReportsBeforeEnd
<1>9. PositionsBeforeEnd' BY <1>2 DEF PositionsBeforeEnd
<1>10. SnapshotIsWhole' BY <1>2 DEF SnapshotsInv, SnapshotIsWhole
<1>11. BookIsWhole'
  <2>1. \A e \in credited' : book'[e].commission
    BY <1>2, <1>4 DEF SnapshotsInv, SnapshotsTyped, BookIsWhole
  <2>2. ASSUME synced' = "yes", NEW e \in Execs PROVE book'[e].kept
    <3>1. CASE timedOut BY <1>2, <1>4, <2>2, <3>1 DEF SnapshotsInv, BookIsWhole
    <3>2. CASE ~timedOut BY <1>4, <3>2 DEF SnapshotsInv, ReportsBeforeEnd
    <3> QED BY <3>1, <3>2
  <2> QED BY <2>1, <2>2 DEF BookIsWhole
<1> QED BY <1>6, <1>7, <1>8, <1>9, <1>10, <1>11 DEF SnapshotsInv
LEMMA DeliverKeeps ==
  ASSUME SnapshotsInv, client' = client, Deliver
  PROVE  SnapshotsInv'
<1>1. /\ wire # <<>> /\ wire' = Tail(wire)
      /\ positions' = Listed(Head(wire)) /\ fills' = Heard(Head(wire))
      /\ UNCHANGED <<asking, requests, snap, book, synced, credited>>
  BY DEF Deliver
<1>2. PICK w \in Seq(Messages) : w = wire
  BY DEF SnapshotsInv, SnapshotsTyped
<1>3. PICK n \in Nat : n = Len(w) /\ n # 0
  BY <1>1, <1>2
<1>4. PICK m \in Messages : m = w[1] /\ m = Head(w)
  BY <1>1, <1>2, TailAt
<1>5. /\ wire' \in Seq(Messages) /\ Len(wire') = n - 1
      /\ \A i \in 1 .. n - 1 : wire'[i] = w[i + 1] /\ i + 1 \in 1 .. n
  <2>1. /\ Tail(w) \in Seq(Messages) /\ Len(Tail(w)) = Len(w) - 1
        /\ \A i \in 1 .. Len(w) - 1 : Tail(w)[i] = w[i + 1]
    BY <1>1, <1>2, TailAt
  <2> QED BY <1>1, <1>2, <1>3, <2>1
<1>6. /\ m \in PositionMsgs \/ m \in ReportMsgs
      /\ m \in PositionMsgs => m.kind \in {"position", "positionEnd"}
      /\ m.kind = "position" => m.line \in Holdings
      /\ m.kind \in {"exec", "commission"} => m.line \in Execs
      /\ m.kind \in {"exec", "commission", "end"} => m \in ReportMsgs
  BY DEF Messages, PositionMsgs, ReportMsgs
<1>7. /\ positions' = CASE m.kind = "position"    -> [positions EXCEPT !.lines = @ \cup {m.line}]
                        [] m.kind = "positionEnd" -> [positions EXCEPT !.done = TRUE]
                        [] OTHER -> positions
      /\ positions \in [lines : SUBSET Holdings, done : BOOLEAN]
  BY <1>1, <1>2, <1>4 DEF Listed, SnapshotsInv, SnapshotsTyped
<1>8. /\ positions' \in [lines : SUBSET Holdings, done : BOOLEAN]
      /\ positions'.lines = IF m.kind = "position" THEN positions.lines \cup {m.line} ELSE positions.lines
      /\ positions'.done = IF m.kind = "positionEnd" THEN TRUE ELSE positions.done
  <2>1. CASE m.kind = "position" BY <1>6, <1>7, <2>1
  <2>2. CASE m.kind = "positionEnd" BY <1>7, <2>2
  <2>3. CASE m.kind # "position" /\ m.kind # "positionEnd" BY <1>7, <2>3
  <2> QED BY <2>1, <2>2, <2>3
<1>9. /\ fills' = Heard(m)
      /\ fills \in [req : Nat, lines : SUBSET Execs, paid : SUBSET Execs,
                    pending : SUBSET Execs, done : BOOLEAN]
  BY <1>1, <1>2, <1>4 DEF SnapshotsInv, SnapshotsTyped
<1>10. /\ fills' \in [req : Nat, lines : SUBSET Execs, paid : SUBSET Execs,
                      pending : SUBSET Execs, done : BOOLEAN]
       /\ fills'.req = fills.req
       /\ fills'.lines = IF m.kind = "exec" /\ Accepts(m) THEN fills.lines \cup {m.line} ELSE fills.lines
       /\ fills'.done = IF m.kind = "end" /\ Accepts(m) THEN TRUE ELSE fills.done
  <2>1. CASE m.kind = "exec" /\ Accepts(m) BY <1>6, <1>9, <2>1 DEF Heard
  <2>2. CASE m.kind = "commission" /\ fills.req # 0 BY <1>6, <1>9, <2>2 DEF Heard
  <2>3. CASE m.kind = "end" /\ Accepts(m) BY <1>9, <2>3 DEF Heard
  <2>4. CASE /\ ~(m.kind = "exec" /\ Accepts(m)) /\ ~(m.kind = "commission" /\ fills.req # 0)
             /\ ~(m.kind = "end" /\ Accepts(m))
    BY <1>9, <2>4 DEF Heard
  <2> QED BY <2>1, <2>2, <2>3, <2>4
<1>11. SnapshotsTyped' BY <1>1, <1>5, <1>8, <1>10 DEF SnapshotsInv, SnapshotsTyped
<1>12. NumbersArePast'
  <2>1. \A i \in 1 .. n : w[i] \in ReportMsgs => w[i].req <= requests
    BY <1>2, <1>3 DEF SnapshotsInv, NumbersArePast
  <2> QED BY <1>1, <1>5, <1>10, <2>1 DEF SnapshotsInv, NumbersArePast
<1>13. ReportsBeforeEnd'
  <2> DEFINE Named(j, e) == w[j].kind = "exec" /\ w[j].req = fills.req /\ w[j].line = e
  <2>1. ASSUME NEW i \in 1 .. n, w[i].kind = "end", w[i].req = fills.req, fills.req # 0, NEW e \in Execs
        PROVE  e \in fills.lines \/ \E j \in 1 .. i - 1 : Named(j, e)
    BY <1>2, <1>3, <2>1 DEF SnapshotsInv, ReportsBeforeEnd
  <2>2. ASSUME NEW i \in 1 .. n - 1, wire'[i].kind = "end", wire'[i].req = fills'.req, fills'.req # 0,
               NEW e \in Execs, e \notin fills'.lines
        PROVE  \E j \in 1 .. i - 1 : /\ wire'[j].kind = "exec" /\ wire'[j].req = fills'.req
                                     /\ wire'[j].line = e
    <3>1. i + 1 \in 1 .. n /\ w[i + 1].kind = "end" /\ w[i + 1].req = fills.req /\ fills.req # 0
      BY <1>5, <1>10, <2>2
    <3>2. e \notin fills.lines /\ ~(m.kind = "exec" /\ Accepts(m) /\ m.line = e)
      BY <1>10, <2>2
    <3>3. PICK j \in 1 .. (i + 1) - 1 : Named(j, e) BY <2>1, <3>1, <3>2
    <3>4. j # 1 BY <1>4, <3>1, <3>2, <3>3 DEF Accepts
    <3>5. j - 1 \in 1 .. i - 1 /\ j - 1 \in 1 .. n - 1 /\ (j - 1) + 1 = j BY <1>3, <2>2, <3>3, <3>4
    <3>6. wire'[j - 1] = w[j] BY <1>5, <3>5
    <3> QED BY <1>10, <3>3, <3>5, <3>6
  <2>3. fills'.done => fills'.lines = Execs
    <3>1. CASE m.kind = "end" /\ Accepts(m)
      <4>1. 1 \in 1 .. n /\ w[1].kind = "end" /\ w[1].req = fills.req /\ fills.req # 0
        BY <1>3, <1>4, <3>1 DEF Accepts
      <4>2. \A e \in Execs : e \in fills.lines \/ \E j \in 1 .. 1 - 1 : Named(j, e)
        BY <2>1, <4>1
      <4>3. fills.lines = Execs
        <5>1. 1 .. 1 - 1 = {} OBVIOUS
        <5>2. \A e \in Execs : e \in fills.lines BY <4>2, <5>1
        <5>3. fills.lines \subseteq Execs BY <1>9
        <5> QED BY <5>2, <5>3
      <4> QED BY <1>10, <3>1, <4>3
    <3>2. CASE ~(m.kind = "end" /\ Accepts(m))
      <4>1. fills.done => fills.lines = Execs BY DEF SnapshotsInv, ReportsBeforeEnd
      <4> QED BY <1>6, <1>10, <3>2, <4>1
    <3> QED BY <3>1, <3>2
  <2> QED BY <1>5, <2>2, <2>3 DEF ReportsBeforeEnd
<1>14. PositionsBeforeEnd'
  <2>1. SUFFICES ASSUME client = "positions", asking, snap.excuse = None
                 PROVE  /\ \A i \in 1 .. n - 1 : wire'[i].kind = "positionEnd" =>
                             \A h \in Holdings :
                               \/ h \in positions'.lines
                               \/ \E j \in 1 .. i - 1 : wire'[j].kind = "position" /\ wire'[j].line = h
                        /\ positions'.done => positions'.lines = Holdings
    BY <1>1, <1>5, SMTT(30) DEF PositionsBeforeEnd
  <2>2. ASSUME NEW i \in 1 .. n, w[i].kind = "positionEnd", NEW h \in Holdings
        PROVE  h \in positions.lines \/ \E j \in 1 .. i - 1 : w[j].kind = "position" /\ w[j].line = h
    BY <1>2, <1>3, <2>1, <2>2 DEF SnapshotsInv, PositionsBeforeEnd
  <2>3. ASSUME NEW i \in 1 .. n - 1, wire'[i].kind = "positionEnd",
               NEW h \in Holdings, h \notin positions'.lines
        PROVE  \E j \in 1 .. i - 1 : wire'[j].kind = "position" /\ wire'[j].line = h
    <3>1. i + 1 \in 1 .. n /\ w[i + 1].kind = "positionEnd" BY <1>5, <2>3
    <3>2. h \notin positions.lines /\ ~(m.kind = "position" /\ m.line = h) BY <1>8, <2>3
    <3>3. PICK j \in 1 .. (i + 1) - 1 : w[j].kind = "position" /\ w[j].line = h BY <2>2, <3>1, <3>2
    <3>4. j # 1 BY <1>4, <3>2, <3>3
    <3>5. j - 1 \in 1 .. i - 1 /\ j - 1 \in 1 .. n - 1 /\ (j - 1) + 1 = j BY <1>3, <2>3, <3>3, <3>4
    <3>6. wire'[j - 1] = w[j] BY <1>5, <3>5
    <3> QED BY <3>3, <3>5, <3>6
  <2>4. positions'.done => positions'.lines = Holdings
    <3>1. CASE m.kind = "positionEnd"
      <4>1. 1 \in 1 .. n /\ w[1].kind = "positionEnd" BY <1>3, <1>4, <3>1
      <4>2. \A h \in Holdings :
              h \in positions.lines \/ \E j \in 1 .. 1 - 1 : w[j].kind = "position" /\ w[j].line = h
        BY <2>2, <4>1
      <4>3. positions.lines = Holdings
        <5>1. 1 .. 1 - 1 = {} OBVIOUS
        <5>2. \A h \in Holdings : h \in positions.lines BY <4>2, <5>1
        <5>3. positions.lines \subseteq Holdings BY <1>7
        <5> QED BY <5>2, <5>3
      <4> QED BY <1>8, <3>1, <4>3
    <3>2. CASE m.kind # "positionEnd"
      <4>1. positions.done => positions.lines = Holdings
        BY <2>1 DEF SnapshotsInv, PositionsBeforeEnd
      <4> QED BY <1>6, <1>8, <3>2, <4>1
    <3> QED BY <3>1, <3>2
  <2> QED BY <2>3, <2>4
<1>15. SnapshotIsWhole' /\ BookIsWhole' BY <1>1 DEF SnapshotsInv, SnapshotIsWhole, BookIsWhole
<1> QED BY <1>11, <1>12, <1>13, <1>14, <1>15 DEF SnapshotsInv

LEMMA SnapshotsStep == SnapshotsInv /\ [Next]_vars => SnapshotsInv'
<1> SUFFICES ASSUME SnapshotsInv, [Next]_vars PROVE SnapshotsInv'
  OBVIOUS
<1>1. client' = client BY DEF Next, vars
<1>2. CASE UNCHANGED snapshots
  BY <1>1, <1>2
  DEF snapshots, SnapshotsInv, SnapshotsTyped, NumbersArePast, ReportsBeforeEnd, PositionsBeforeEnd,
      SnapshotIsWhole, BookIsWhole
<1>3. CASE SnapshotsClosed
  BY <1>1, <1>3, ClosedWire DEF SnapshotsClosed
<1>4. CASE PositionsOffline
  <2>1. /\ ~asking /\ snap' = [lines |-> {}, timedOut |-> FALSE, excuse |-> "offline"]
        /\ UNCHANGED <<wire, asking, requests, positions, fills, book, synced, credited>>
    BY <1>4 DEF PositionsOffline, May
  <2>2. snap'.excuse = "offline" BY <2>1
  <2> QED BY <1>1, <2>1, <2>2
          DEF SnapshotsInv, SnapshotsTyped, NumbersArePast, ReportsBeforeEnd, PositionsBeforeEnd,
              SnapshotIsWhole, BookIsWhole, None
<1>5. CASE SyncOffline
  BY <1>1, <1>5
  DEF SyncOffline, SnapshotsInv, SnapshotsTyped, NumbersArePast, ReportsBeforeEnd, PositionsBeforeEnd,
      SnapshotIsWhole, BookIsWhole
<1>6. CASE ExecutionsShown
  <2>1. /\ fills' = [fills EXCEPT !.req = 0] /\ asking' = FALSE
        /\ UNCHANGED <<wire, requests, positions, snap, book, synced, credited>>
    BY <1>6 DEF ExecutionsShown
  <2>2. fills'.req = 0 /\ fills'.lines = fills.lines /\ fills'.done = fills.done
    BY <2>1 DEF SnapshotsInv, SnapshotsTyped
  <2>3. SnapshotsTyped' BY <2>1 DEF SnapshotsInv, SnapshotsTyped
  <2> QED BY <1>1, <2>1, <2>2, <2>3
          DEF SnapshotsInv, SnapshotsTyped, NumbersArePast, ReportsBeforeEnd, PositionsBeforeEnd,
              SnapshotIsWhole, BookIsWhole
<1>7. CASE PositionsComplete \/ PositionsTimeout
  BY <1>1, <1>7, PositionsReturnKeeps DEF PositionsComplete, PositionsTimeout
<1>8. CASE ExecutionsComplete \/ ExecutionsTimeout
  BY <1>1, <1>8, ExecutionsReturnKeeps DEF ExecutionsComplete, ExecutionsTimeout
<1>9. \/ UNCHANGED snapshots \/ SnapshotsClosed \/ SnapshotsNext \/ SyncOffline
  <2>1. CASE SessionNext
    BY <2>1 DEF SessionNext, ThreadSteps, OnConnect, OnClosed, OnNextValidId, OnRestored, OnLifespan,
                SnapshotsClosed
  <2>2. CASE ClientNext BY <2>2 DEF ClientNext
  <2> QED BY <2>1, <2>2 DEF Next, vars, Alone
<1> QED
  BY <1>1, <1>2, <1>3, <1>4, <1>5, <1>6, <1>7, <1>8, <1>9,
     RequestPositionsKeeps, RequestExecutionsKeeps, DeliverKeeps
  DEF SnapshotsNext

(* A snapshot of the positions that is said to be complete is complete,    *)
(* unless it was taken offline or an earlier answer was still on its way,  *)
(* for every set of holdings and every place a cancel may cut an answer.   *)
THEOREM SnapshotWhole == Spec => []SnapshotIsWhole
<1>1. Init => SnapshotsInv BY SnapshotsStart DEF Init
<1>2. SnapshotsInv => SnapshotIsWhole BY DEF SnapshotsInv
<1> QED BY <1>1, <1>2, SnapshotsStep, PTL DEF Spec

(* A commission once written stays in the trade book, and a sync that      *)
(* reached the gateway and counted as a success leaves it with every       *)
(* execution of the day, for every answer that names the executions before *)
(* it ends and however many earlier answers come in late.                  *)
THEOREM BookWhole == Spec => []BookIsWhole
<1>1. Init => SnapshotsInv BY SnapshotsStart DEF Init
<1>2. SnapshotsInv => BookIsWhole BY DEF SnapshotsInv
<1> QED BY <1>1, <1>2, SnapshotsStep, PTL DEF Spec

----------------------------------------------------------------------------
(* The P&L writer.  What the last tick left is pending until it is written *)
(* or found to be written, and while it is pending something is left that  *)
(* will look at it: a task, a timer or the write in flight, which calls    *)
(* _schedule_persist again when it ends.                                   *)

WriterValues ==
  /\ latest \in 0 .. MaxPnl /\ pending \in {Nothing, latest} /\ timers \in Nat /\ tasks \in Nat
  /\ row \in [pnl : 0 .. Realised, open : BOOLEAN]

WriterFlags ==
  /\ inFlight \in BOOLEAN /\ delayed \in BOOLEAN /\ recent \in BOOLEAN /\ watched \in BOOLEAN
  /\ overlapped \in BOOLEAN /\ reverted \in BOOLEAN

FlightIsOne == flight = <<>> \/ \E w \in Writes : flight = <<w>>

WriterTyped == WriterValues /\ WriterFlags /\ FlightIsOne

OneWrite ==
  /\ watched => inFlight = (flight # <<>>)
  /\ ~watched => ~row.open

PendingIsSeen ==
  /\ delayed /\ recent => timers > 0
  /\ watched /\ pending # Nothing => tasks > 0 \/ timers > 0 \/ flight # <<>>

RowIsPersisted ==
  watched /\ row.open =>
    /\ row.pnl = persisted
    /\ pending = Nothing /\ ~reverted => latest = persisted /\ flight = <<>>

ClosedIsRealised ==
  ~row.open =>
    /\ flight # <<>> /\ Head(flight).found => overlapped
    /\ overlapped \/ row.pnl = Realised

WriterInv == WriterTyped /\ OneWrite /\ PendingIsSeen /\ RowIsPersisted /\ ClosedIsRealised

LEMMA WriterStart == WriterInit => WriterInv
<1> SUFFICES ASSUME WriterInit PROVE WriterInv
  OBVIOUS
<1>1. /\ latest = 0 /\ pending = Nothing /\ persisted = 0 /\ flight = <<>> /\ inFlight = FALSE
      /\ delayed = FALSE /\ timers = 0 /\ tasks = 0 /\ recent = FALSE /\ watched = TRUE
      /\ overlapped = FALSE /\ reverted = FALSE
      /\ row.open = TRUE /\ row.pnl = 0 /\ row = [pnl |-> 0, open |-> TRUE]
  BY DEF WriterInit
<1>2. MaxPnl \in Nat BY WriterAssumption
<1>3. WriterTyped
  <2>1. WriterValues BY <1>1, <1>2 DEF WriterValues, Realised
  <2>2. WriterFlags BY <1>1 DEF WriterFlags
  <2>3. FlightIsOne BY <1>1 DEF FlightIsOne
  <2> QED BY <2>1, <2>2, <2>3 DEF WriterTyped
<1> QED BY <1>1, <1>3 DEF WriterInv, OneWrite, PendingIsSeen, RowIsPersisted, ClosedIsRealised

LEMMA WriteEndsKeeps ==
  ASSUME WriterInv, flight # <<>>, inFlight' = FALSE, delayed' = FALSE, flight' = Tail(flight), tasks' = tasks + 1,
         UNCHANGED <<latest, timers, watched, overlapped, reverted>>,
         recent' \in BOOLEAN,
         \/ UNCHANGED <<row, pending, persisted>>
         \/ /\ Head(flight).found \/ ~row.open
            /\ row' = IF Head(flight).found THEN [row EXCEPT !.pnl = Head(flight).value] ELSE row
            /\ persisted' = Head(flight).value
            /\ pending' = IF pending = Head(flight).value THEN Nothing ELSE pending
  PROVE  WriterInv'
<1> USE DEF WriterInv
<1>1. PICK w \in Writes : flight = <<w>> BY DEF WriterTyped, WriterValues, WriterFlags, FlightIsOne
<1>2. Head(flight) = w /\ flight' = <<>> BY <1>1
<1>3. w.value \in 0 .. MaxPnl /\ w.found \in BOOLEAN /\ MaxPnl \in Nat BY WriterAssumption DEF Writes
<1>4. row \in [pnl : 0 .. Realised, open : BOOLEAN] BY DEF WriterTyped, WriterValues, WriterFlags, FlightIsOne
<1>5. /\ row' \in [pnl : 0 .. Realised, open : BOOLEAN] /\ row'.open = row.open
      /\ row' # row => row'.pnl = w.value /\ w.found
      /\ row.open => row'.pnl = persisted' \/ (row'.pnl = row.pnl /\ persisted' = persisted)
  <2>1. CASE UNCHANGED <<row, pending, persisted>>
    <3>1. row' = row /\ persisted' = persisted BY <2>1
    <3> QED BY <1>4, <3>1
  <2>2. CASE /\ w.found \/ ~row.open
             /\ persisted' = w.value
             /\ row' = IF w.found THEN [row EXCEPT !.pnl = w.value] ELSE row
    <3>1. CASE w.found
      <4>1. row' = [row EXCEPT !.pnl = w.value] BY <2>2, <3>1
      <4>2. row'.pnl = w.value /\ row'.open = row.open BY <1>4, <4>1
      <4>3. w.value \in 0 .. Realised BY <1>3 DEF Realised
      <4>4. row' \in [pnl : 0 .. Realised, open : BOOLEAN] BY <1>4, <4>1, <4>3
      <4>5. persisted' = w.value
        BY <2>2
      <4> QED BY <3>1, <4>2, <4>4, <4>5
    <3>2. CASE ~w.found
      <4>1. row' = row /\ ~row.open BY <2>2, <3>2
      <4> QED BY <1>4, <4>1
    <3> QED BY <3>1, <3>2
  <2> QED BY <1>2, <2>1, <2>2
<1>6. /\ pending' \in {Nothing, latest} /\ pending \in {Nothing, latest}
      /\ pending' = Nothing /\ pending # Nothing => persisted' = latest
      /\ pending' # Nothing => pending # Nothing
  BY <1>2 DEF WriterTyped, WriterValues, WriterFlags, FlightIsOne
<1>7. WriterTyped'
  <2>1. WriterValues' BY <1>2, <1>5, <1>6 DEF WriterTyped, WriterValues
  <2>2. WriterFlags' BY <1>2, <1>5, <1>6 DEF WriterTyped, WriterFlags
  <2>3. FlightIsOne' BY <1>2, <1>5, <1>6 DEF WriterTyped, FlightIsOne
  <2> QED BY <2>1, <2>2, <2>3 DEF WriterTyped
<1>8. OneWrite' BY <1>2, <1>5 DEF OneWrite
<1>9. PendingIsSeen' BY DEF PendingIsSeen, WriterTyped, WriterValues, WriterFlags, FlightIsOne
<1>10. RowIsPersisted' BY <1>1, <1>2, <1>5, <1>6 DEF RowIsPersisted
<1>11. ClosedIsRealised' BY <1>1, <1>2, <1>5 DEF ClosedIsRealised
<1> QED BY <1>7, <1>8, <1>9, <1>10, <1>11

LEMMA WriterStep == WriterInv /\ [Next]_vars => WriterInv'
<1> SUFFICES ASSUME WriterInv, [Next]_vars PROVE WriterInv'
  OBVIOUS
<1> USE DEF WriterInv
<1>n. Nothing = -1 /\ MaxPnl \in Nat /\ Realised = MaxPnl + 1 /\ latest \in 0 .. MaxPnl
  BY WriterAssumption DEF Nothing, Realised, WriterTyped, WriterValues, WriterFlags, FlightIsOne
<1>1. ASSUME NEW v \in 0 .. MaxPnl, TickPrice(v) PROVE WriterInv'
  <2>1. WriterTyped'
    <3>1. WriterValues' BY <1>1 DEF TickPrice, WriterTyped, WriterValues
    <3>2. WriterFlags' BY <1>1 DEF TickPrice, WriterTyped, WriterFlags
    <3>3. FlightIsOne' BY <1>1 DEF TickPrice, WriterTyped, FlightIsOne
    <3> QED BY <3>1, <3>2, <3>3 DEF WriterTyped
  <2>2. OneWrite' /\ ClosedIsRealised' BY <1>1 DEF TickPrice, OneWrite, ClosedIsRealised
  <2>3. PendingIsSeen' BY <1>1 DEF TickPrice, PendingIsSeen, WriterTyped, WriterValues, WriterFlags, FlightIsOne
  <2>4. RowIsPersisted' BY <1>1, <1>n DEF TickPrice, RowIsPersisted
  <2> QED BY <2>1, <2>2, <2>3, <2>4
<1>2. CASE SchedulePersist
  <2> DEFINE Same == UNCHANGED <<latest, persisted, recent, watched, row, ticks, overlapped>>
  <2>t. tasks > 0 /\ tasks' = tasks - 1 /\ tasks' \in Nat /\ Same
    BY <1>2 DEF SchedulePersist, WriterTyped, WriterValues, WriterFlags, FlightIsOne
  <2>1. CASE ~watched \/ pending = Nothing \/ (pending # persisted /\ inFlight)
    <3>1. UNCHANGED <<pending, flight, inFlight, delayed, timers, reverted>>
      BY <1>2, <2>1 DEF SchedulePersist
    <3>2. WriterTyped'
      <4>1. WriterValues' BY <2>t, <3>1 DEF WriterTyped, WriterValues
      <4>2. WriterFlags' BY <2>t, <3>1 DEF WriterTyped, WriterFlags
      <4>3. FlightIsOne' BY <2>t, <3>1 DEF WriterTyped, FlightIsOne
      <4> QED BY <4>1, <4>2, <4>3 DEF WriterTyped
    <3>3. PendingIsSeen' BY <2>1, <2>t, <3>1 DEF PendingIsSeen, OneWrite, WriterTyped, WriterValues, WriterFlags, FlightIsOne
    <3> QED BY <2>t, <3>1, <3>2, <3>3 DEF OneWrite, RowIsPersisted, ClosedIsRealised
  <2>2. CASE watched /\ pending # Nothing /\ pending = persisted
    <3>1. /\ pending' = Nothing /\ reverted' = inFlight /\ UNCHANGED <<flight, inFlight, delayed, timers>>
      BY <1>2, <2>2 DEF SchedulePersist
    <3>2. pending = latest BY <2>2 DEF WriterTyped, WriterValues, WriterFlags, FlightIsOne
    <3>3. WriterTyped'
      <4>1. WriterValues' BY <2>t, <3>1 DEF WriterTyped, WriterValues
      <4>2. WriterFlags' BY <2>t, <3>1 DEF WriterTyped, WriterFlags
      <4>3. FlightIsOne' BY <2>t, <3>1 DEF WriterTyped, FlightIsOne
      <4> QED BY <4>1, <4>2, <4>3 DEF WriterTyped
    <3>4. PendingIsSeen' BY <2>t, <3>1 DEF PendingIsSeen
    <3> QED BY <2>2, <2>t, <3>1, <3>2, <3>3, <3>4 DEF OneWrite, RowIsPersisted, ClosedIsRealised
  <2>3. CASE watched /\ pending \notin {Nothing, persisted} /\ ~inFlight /\ recent
    <3>1. /\ delayed' = TRUE /\ timers' = IF delayed THEN timers ELSE timers + 1
          /\ UNCHANGED <<pending, flight, inFlight, reverted>>
      BY <1>2, <2>3 DEF SchedulePersist
    <3>2. timers' \in Nat /\ timers' > 0 BY <2>3, <3>1 DEF PendingIsSeen, WriterTyped, WriterValues, WriterFlags, FlightIsOne
    <3>3. WriterTyped'
      <4>1. WriterValues' BY <2>t, <3>1, <3>2 DEF WriterTyped, WriterValues
      <4>2. WriterFlags' BY <2>t, <3>1, <3>2 DEF WriterTyped, WriterFlags
      <4>3. FlightIsOne' BY <2>t, <3>1, <3>2 DEF WriterTyped, FlightIsOne
      <4> QED BY <4>1, <4>2, <4>3 DEF WriterTyped
    <3>4. PendingIsSeen' BY <3>2 DEF PendingIsSeen
    <3> QED BY <2>t, <3>1, <3>3, <3>4 DEF OneWrite, RowIsPersisted, ClosedIsRealised
  <2>4. CASE watched /\ pending \notin {Nothing, persisted} /\ ~inFlight /\ ~recent
    <3>1. /\ inFlight' = TRUE /\ flight' = Append(flight, [value |-> pending, found |-> FALSE])
          /\ UNCHANGED <<pending, delayed, timers, reverted>>
      BY <1>2, <2>4 DEF SchedulePersist
    <3>2. flight = <<>> /\ pending = latest BY <2>4 DEF OneWrite, WriterTyped, WriterValues, WriterFlags, FlightIsOne
    <3>3. PICK w \in Writes : flight' = <<w>> /\ w.found = FALSE
      <4>1. [value |-> pending, found |-> FALSE] \in Writes BY <3>2, <1>n DEF Writes
      <4>2. flight' = <<[value |-> pending, found |-> FALSE]>> BY <3>1, <3>2
      <4> QED BY <4>1, <4>2
    <3>4. flight' # <<>> /\ Head(flight') = w BY <3>3
    <3>5. WriterTyped'
      <4>1. WriterValues' BY <2>t, <3>1, <3>3 DEF WriterTyped, WriterValues
      <4>2. WriterFlags' BY <2>t, <3>1, <3>3 DEF WriterTyped, WriterFlags
      <4>3. FlightIsOne' BY <2>t, <3>1, <3>3 DEF WriterTyped, FlightIsOne
      <4> QED BY <4>1, <4>2, <4>3 DEF WriterTyped
    <3>6. PendingIsSeen' BY <2>t, <3>1, <3>4 DEF PendingIsSeen
    <3>7. RowIsPersisted' BY <2>4, <2>t, <3>1 DEF RowIsPersisted
    <3>8. ClosedIsRealised' BY <2>t, <3>3, <3>4 DEF ClosedIsRealised
    <3>9. OneWrite' BY <2>t, <3>1, <3>4 DEF OneWrite
    <3> QED BY <3>5, <3>6, <3>7, <3>8, <3>9
  <2> QED BY <2>1, <2>2, <2>3, <2>4 DEF WriterTyped, WriterValues, WriterFlags, FlightIsOne
<1>3. CASE IntervalPasses
  <2>1. /\ recent' = FALSE /\ tasks' = tasks + timers /\ timers' = 0
        /\ UNCHANGED <<latest, pending, persisted, flight, inFlight, delayed, watched, row, ticks,
                       overlapped, reverted>>
    BY <1>3 DEF IntervalPasses
  <2>2. WriterTyped'
    <3>1. WriterValues' BY <2>1 DEF WriterTyped, WriterValues
    <3>2. WriterFlags' BY <2>1 DEF WriterTyped, WriterFlags
    <3>3. FlightIsOne' BY <2>1 DEF WriterTyped, FlightIsOne
    <3> QED BY <3>1, <3>2, <3>3 DEF WriterTyped
  <2>3. PendingIsSeen' BY <2>1 DEF PendingIsSeen, WriterTyped, WriterValues, WriterFlags, FlightIsOne
  <2> QED BY <2>1, <2>2, <2>3 DEF OneWrite, RowIsPersisted, ClosedIsRealised
<1>4. CASE ReadOpenRow
  <2>1. PICK w \in Writes : flight = <<w>> BY <1>4 DEF ReadOpenRow, WriterTyped, WriterValues, WriterFlags, FlightIsOne
  <2>2. /\ row.open /\ flight' = <<[w EXCEPT !.found = TRUE]>>
        /\ UNCHANGED <<latest, pending, persisted, inFlight, delayed, timers, tasks, recent, watched,
                       row, ticks, overlapped, reverted>>
    <3>1. Head(flight) = w /\ Tail(flight) = <<>> BY <2>1
    <3>2. flight' = <<[w EXCEPT !.found = TRUE]>> \o <<>> BY <1>4, <3>1 DEF ReadOpenRow
    <3>3. flight' = <<[w EXCEPT !.found = TRUE]>> BY <3>2
    <3> QED BY <1>4, <3>3 DEF ReadOpenRow
  <2>3. [w EXCEPT !.found = TRUE] \in Writes BY DEF Writes
  <2>4. flight # <<>> /\ flight' # <<>> BY <2>1, <2>2
  <2>5. WriterTyped'
    <3>1. WriterValues' BY <2>2, <2>3 DEF WriterTyped, WriterValues
    <3>2. WriterFlags' BY <2>2, <2>3 DEF WriterTyped, WriterFlags
    <3>3. FlightIsOne' BY <2>2, <2>3 DEF WriterTyped, FlightIsOne
    <3> QED BY <3>1, <3>2, <3>3 DEF WriterTyped
  <2> QED BY <2>2, <2>4, <2>5 DEF OneWrite, PendingIsSeen, RowIsPersisted, ClosedIsRealised
<1>5. CASE PersistEnds BY <1>5, WriteEndsKeeps DEF PersistEnds, Rescheduled
<1>6. CASE PersistFails
  <2>1. recent' \in BOOLEAN BY <1>6 DEF PersistFails, WriterTyped, WriterValues, WriterFlags, FlightIsOne
  <2> QED BY <1>6, <2>1, WriteEndsKeeps DEF PersistFails, Rescheduled
<1>7. CASE CloseRow
  <2>1. /\ row' = [pnl |-> Realised, open |-> FALSE]
        /\ overlapped' = (flight # <<>> /\ Head(flight).found)
        /\ UNCHANGED <<latest, pending, persisted, flight, inFlight, delayed, timers, tasks, recent,
                       watched, ticks, reverted>>
    BY <1>7 DEF CloseRow
  <2>2. row'.open = FALSE /\ row'.pnl = Realised /\ row' \in [pnl : 0 .. Realised, open : BOOLEAN]
    BY <1>n, <2>1
  <2>3. overlapped' \in BOOLEAN /\ (flight' # <<>> /\ Head(flight').found => overlapped')
    BY <2>1
  <2>4. WriterTyped'
    <3>1. WriterValues' BY <2>1, <2>2, <2>3 DEF WriterTyped, WriterValues
    <3>2. WriterFlags' BY <2>1, <2>2, <2>3 DEF WriterTyped, WriterFlags
    <3>3. FlightIsOne' BY <2>1, <2>2, <2>3 DEF WriterTyped, FlightIsOne
    <3> QED BY <3>1, <3>2, <3>3 DEF WriterTyped
  <2> QED BY <2>1, <2>2, <2>3, <2>4 DEF OneWrite, PendingIsSeen, RowIsPersisted, ClosedIsRealised
<1>8. CASE UnwatchWriter
  <2>1. WriterTyped'
    <3>1. WriterValues' BY <1>8 DEF UnwatchWriter, WriterTyped, WriterValues
    <3>2. WriterFlags' BY <1>8 DEF UnwatchWriter, WriterTyped, WriterFlags
    <3>3. FlightIsOne' BY <1>8 DEF UnwatchWriter, WriterTyped, FlightIsOne
    <3> QED BY <3>1, <3>2, <3>3 DEF WriterTyped
  <2> QED BY <1>8, <2>1
          DEF UnwatchWriter, OneWrite, PendingIsSeen, RowIsPersisted, ClosedIsRealised
<1>9. CASE UNCHANGED writer
  BY <1>9
  DEF writer, WriterTyped, WriterValues, WriterFlags, FlightIsOne, OneWrite, PendingIsSeen, RowIsPersisted, ClosedIsRealised
<1> QED BY <1>1, <1>2, <1>3, <1>4, <1>5, <1>6, <1>7, <1>8, <1>9 DEF Next, WriterNext, vars

(* When nothing is left to run the row of an open trade holds the P&L of   *)
(* the last tick and that of a closed one the realised P&L, save the two   *)
(* known races, for every number of values, ticks and failed writes.       *)
THEOREM RowPnl == Spec => []RowHasItsPnl
<1>1. Init => WriterInv BY WriterStart DEF Init
<1>2. ASSUME WriterInv PROVE RowHasItsPnl
  <2>1. ASSUME ~reverted, watched, row.open, tasks = 0, timers = 0, flight = <<>>
        PROVE  row.pnl = latest
    <3>1. pending = Nothing BY <1>2, <2>1 DEF WriterInv, PendingIsSeen
    <3> QED BY <1>2, <2>1, <3>1 DEF WriterInv, RowIsPersisted
  <2>2. ~row.open /\ ~overlapped => row.pnl = Realised
    BY <1>2 DEF WriterInv, ClosedIsRealised
  <2> QED BY <2>1, <2>2 DEF RowHasItsPnl
<1> QED BY <1>1, <1>2, WriterStep, PTL DEF Spec

----------------------------------------------------------------------------
(* The order's row.  Two writers race for it, and not every callback that  *)
(* changes the order asks for a write.  At any time a write is owed, or    *)
(* one that is up to date is under way, or the row is up to date and every *)
(* write under way is marked as overtaken.                                 *)

FinalStatus == Terminal \ {"ERROR"}

BrokerMsgs ==
  [kind : {"status"}, st : {"SUBMITTED", "FILLED", "CANCELLED"}, lots : Nat]
    \cup [kind : {"exec", "commission"}, st : {""}, lots : Nat]
    \cup [kind : {"error"}, st : {"CANCELLED", "REJECTED"}, lots : Nat]

Values == [status : Terminal \cup {"PENDING", "SUBMITTED", "PARTIALLY_FILLED"}, lots : Nat]

OmsRecords ==
  [status : Terminal \cup {"PENDING", "SUBMITTED", "PARTIALLY_FILLED"}, lots : Nat,
   execs : SUBSET Nat, commissions : SUBSET Nat,
   message : {"", "CANCELLED", "REJECTED", "Connection closed"}, told : Nat]

OrderTyped ==
  /\ broker \in [lots : 0 .. Lots, state : {"working", "filled", "cancelled"}]
  /\ broker.state = "working" => broker.lots < Lots
  /\ due \subseteq BrokerMsgs /\ scheduled \in Nat
  /\ oms \in OmsRecords
  /\ emitted \subseteq {"ACK", "FILL"}
  /\ orderRow \in Values

WritesTyped ==
  /\ write \in [inFlight : BOOLEAN, dirty : BOOLEAN, at : {"idle", "begun", "read", "written"},
                value : Values, stale : BOOLEAN]
  /\ basket \in [left : Nat, at : {"idle", "begun", "read"}, value : Values, stale : BOOLEAN]
  /\ write.inFlight = (write.at # "idle")
  /\ basket.at # "idle" => basket.left > 0

(* The adapter knows no more than the broker, and of what it does not know *)
(* the execution is on its way.                                            *)
FillsComeIn ==
  /\ oms.lots <= broker.lots /\ oms.told <= oms.lots /\ \A n \in oms.execs : n \in 1 .. oms.lots
  /\ \A m \in due : /\ m.lots <= broker.lots
                    /\ m.kind = "exec" => m.lots > 0
                    /\ m.kind = "status" /\ m.st = "FILLED" => m.lots = Lots
  /\ online => \A n \in 1 .. broker.lots : n \in oms.execs \/ ExecMsg(n) \in due
  /\ oms.status = "FILLED" => oms.lots = Lots
  /\ "FILL" \in emitted => oms.status = "FILLED"

(* No write knows of more fills or of another end than the order in memory. *)
Behind(v) == v.lots <= oms.lots /\ (v.status \in FinalStatus => oms.status = v.status)

NothingAhead ==
  /\ Behind(orderRow)
  /\ write.value.lots <= oms.lots /\ (write.at = "read" => Behind(write.value))
  /\ basket.value.lots <= oms.lots /\ (basket.at = "read" => Behind(basket.value))

UnderWay(w) == w.at \in {"begun", "read"}
UpToDate(v) == v.lots = oms.lots /\ (oms.status = "FILLED" => v.status = "FILLED")
Fresh(w)    == UnderWay(w) /\ w.value.lots = oms.lots /\ (w.at = "read" => UpToDate(w.value))

WriteOwed ==
  \/ late \/ scheduled > 0 \/ (write.inFlight /\ write.dirty)
  \/ oms.status # "FILLED" /\ oms.execs # {} /\ oms.lots \notin oms.execs

RowFollows ==
  \/ WriteOwed \/ Fresh(write) \/ Fresh(basket)
  \/ /\ behind \/ UpToDate(orderRow)
     /\ UnderWay(write) => write.stale
     /\ UnderWay(basket) => basket.stale

RowInv == OrderTyped /\ WritesTyped /\ FillsComeIn /\ NothingAhead /\ RowFollows
Unsaid == oms.status # "FILLED" /\ oms.execs # {} /\ oms.lots \notin oms.execs

LEMMA RowStart == OrderRowInit => RowInv
<1> SUFFICES ASSUME OrderRowInit PROVE RowInv
  OBVIOUS
<1>1. /\ broker = [lots |-> 0, state |-> "working"] /\ due = {Status("SUBMITTED", 0)} /\ scheduled = 0
      /\ oms = [status |-> "PENDING", lots |-> 0, execs |-> {}, commissions |-> {}, message |-> "", told |-> 0]
      /\ emitted = {} /\ orderRow = [status |-> "PENDING", lots |-> 0]
      /\ write = [inFlight |-> FALSE, dirty |-> FALSE, at |-> "idle", value |-> Unread, stale |-> FALSE]
      /\ basket = [left |-> OwnWrites, at |-> "idle", value |-> Unread, stale |-> FALSE]
  BY DEF OrderRowInit
<1>2. Lots \in Nat /\ Lots > 0 /\ OwnWrites \in Nat BY OrderRowAssumption
<1>3. /\ oms.lots = 0 /\ oms.execs = {} /\ oms.told = 0 /\ oms.status = "PENDING"
      /\ broker.lots = 0 /\ orderRow.lots = 0 /\ orderRow.status = "PENDING"
      /\ write.at = "idle" /\ write.inFlight = FALSE /\ write.value.lots = 0
      /\ basket.at = "idle" /\ basket.value.lots = 0
  BY <1>1 DEF Unread
<1>4. Status("SUBMITTED", 0) \in BrokerMsgs BY DEF Status, BrokerMsgs
<1>5. OrderTyped
  <2>1. oms \in OmsRecords BY <1>1 DEF OmsRecords
  <2>2. orderRow \in Values BY <1>1 DEF Values
  <2>3. broker \in [lots : 0 .. Lots, state : {"working", "filled", "cancelled"}]
    <3>1. 0 \in 0 .. Lots BY <1>2
    <3> QED BY <1>1, <3>1
  <2> QED BY <1>1, <1>2, <1>3, <1>4, <2>1, <2>2, <2>3 DEF OrderTyped
<1>6. WritesTyped
  <2>1. Unread \in Values BY DEF Unread, Values
  <2> QED BY <1>1, <1>2, <1>3, <2>1 DEF WritesTyped
<1>7. FillsComeIn
  <2>1. PICK m : m = Status("SUBMITTED", 0) /\ due = {m} BY <1>1
  <2>m. m.lots = 0 /\ m.kind = "status" /\ m.st = "SUBMITTED" BY <2>1 DEF Status
  <2>2. 1 .. broker.lots = {} BY <1>3
  <2>3. oms.lots <= broker.lots /\ oms.told <= oms.lots /\ \A n \in oms.execs : n \in 1 .. oms.lots
    BY <1>3
  <2>4. \A k \in due : /\ k.lots <= broker.lots
                       /\ k.kind = "exec" => k.lots > 0
                       /\ k.kind = "status" /\ k.st = "FILLED" => k.lots = Lots
    BY <1>3, <2>1, <2>m
  <2>5. oms.status # "FILLED" /\ "FILL" \notin emitted BY <1>1, <1>3
  <2> QED BY <2>2, <2>3, <2>4, <2>5 DEF FillsComeIn
<1>8. NothingAhead BY <1>3 DEF NothingAhead, Behind, FinalStatus, Terminal
<1>9. RowFollows BY <1>3 DEF RowFollows, UpToDate, UnderWay
<1> QED BY <1>5, <1>6, <1>7, <1>8, <1>9 DEF RowInv

(* What the order goes through while no write moves.                       *)
LEMMA OrderKeeps ==
  ASSUME RowInv, OrderTyped', FillsComeIn', UNCHANGED <<write, basket, orderRow, behind>>,
         late => late', scheduled' >= scheduled, oms'.lots >= oms.lots,
         oms.status \in FinalStatus => oms'.status = oms.status,
         oms'.status = "FILLED" => oms.status = "FILLED" \/ scheduled' > 0,
         oms'.lots # oms.lots => late' \/ scheduled' > 0 \/ Unsaid',
         Unsaid => late' \/ scheduled' > 0 \/ Unsaid'
  PROVE  RowInv'
<1> USE DEF RowInv
<1>1. /\ oms.lots \in Nat /\ oms'.lots \in Nat /\ scheduled \in Nat /\ scheduled' \in Nat
      /\ orderRow.lots \in Nat /\ write.value.lots \in Nat /\ basket.value.lots \in Nat
  BY DEF OrderTyped, OmsRecords, WritesTyped, Values
<1>2. WritesTyped' BY DEF WritesTyped
<1>3. ASSUME NEW v, v.lots \in Nat, Behind(v)
      PROVE  v.lots <= oms'.lots /\ (v.status \in FinalStatus => oms'.status = v.status)
  BY <1>1, <1>3 DEF Behind
<1>4. NothingAhead'
  <2>1. Behind(orderRow)' BY <1>1, <1>3 DEF NothingAhead, Behind
  <2>2. write.value.lots <= oms'.lots /\ basket.value.lots <= oms'.lots BY <1>1 DEF NothingAhead
  <2>3. write.at = "read" => Behind(write.value)' BY <1>1, <1>3 DEF NothingAhead, Behind
  <2>4. basket.at = "read" => Behind(basket.value)' BY <1>1, <1>3 DEF NothingAhead, Behind
  <2> QED BY <2>1, <2>2, <2>3, <2>4 DEF NothingAhead
<1>5. RowFollows'
  <2>1. CASE WriteOwed'
    BY <2>1 DEF RowFollows
  <2>2. CASE ~WriteOwed'
    <3>1. /\ ~late' /\ scheduled' = 0 /\ ~Unsaid' /\ ~(write.inFlight /\ write.dirty)
      BY <1>1, <2>2 DEF WriteOwed, Unsaid
    <3>2. /\ ~late /\ scheduled = 0 /\ ~Unsaid /\ oms'.lots = oms.lots
          /\ oms'.status = "FILLED" => oms.status = "FILLED"
      BY <1>1, <3>1
    <3>3. ~WriteOwed BY <1>1, <3>1, <3>2 DEF WriteOwed, Unsaid
    <3>4. Fresh(write) => Fresh(write)' BY <3>2 DEF Fresh, UnderWay, UpToDate
    <3>5. Fresh(basket) => Fresh(basket)' BY <3>2 DEF Fresh, UnderWay, UpToDate
    <3>6. UpToDate(orderRow) => UpToDate(orderRow)' BY <3>2 DEF UpToDate
    <3> QED BY <3>3, <3>4, <3>5, <3>6 DEF RowFollows, UnderWay
  <2> QED BY <2>1, <2>2
<1> QED BY <1>2, <1>4, <1>5

LEMMA EventsAt ==
  ASSUME NEW STATE o, NEW STATE partial
  PROVE  /\ Len(Events(o, partial)) \in Nat
         /\ o.status = "FILLED" /\ "FILL" \notin emitted => Len(Events(o, partial)) > 0
         /\ o.status = "PARTIALLY_FILLED" /\ partial => Len(Events(o, partial)) > 0
         /\ \A i \in DOMAIN Events(o, partial) :
              Events(o, partial)[i] \in {"ACK", "FILL", "PARTIAL"}
                /\ (Events(o, partial)[i] = "FILL" => o.status = "FILLED")
<1>s. PICK S : S = IF o.status = "FILLED" THEN {"ACK", "FILL", "PARTIAL"} ELSE {"ACK", "PARTIAL"}
  OBVIOUS
<1>e. <<>> \in Seq(S) /\ \A x \in S : <<x>> \in Seq(S) OBVIOUS
<1>1. PICK a \in Seq(S) : a = IF "ACK" \in emitted THEN <<>> ELSE <<"ACK">>
  <2>1. "ACK" \in S BY <1>s
  <2>2. CASE "ACK" \in emitted BY <1>e, <2>2
  <2>3. CASE "ACK" \notin emitted BY <1>e, <2>1, <2>3
  <2> QED BY <2>2, <2>3
<1>2. PICK b \in Seq(S) : b = IF o.status = "FILLED" /\ "FILL" \notin emitted THEN <<"FILL">> ELSE <<>>
  <2>1. o.status = "FILLED" => "FILL" \in S BY <1>s
  <2>2. CASE o.status = "FILLED" /\ "FILL" \notin emitted BY <1>e, <2>1, <2>2
  <2>3. CASE ~(o.status = "FILLED" /\ "FILL" \notin emitted) BY <1>e, <2>3
  <2> QED BY <2>2, <2>3
<1>3. PICK c \in Seq(S) : c = IF o.status = "PARTIALLY_FILLED" /\ partial THEN <<"PARTIAL">> ELSE <<>>
  <2>1. "PARTIAL" \in S BY <1>s
  <2>2. CASE o.status = "PARTIALLY_FILLED" /\ partial BY <1>e, <2>1, <2>2
  <2>3. CASE ~(o.status = "PARTIALLY_FILLED" /\ partial) BY <1>e, <2>3
  <2> QED BY <2>2, <2>3
<1>4. Events(o, partial) = (a \o b) \o c BY <1>1, <1>2, <1>3 DEF Events
<1>5. /\ (a \o b) \o c \in Seq(S) /\ Len((a \o b) \o c) = Len(a) + Len(b) + Len(c)
      /\ Len(a) \in Nat /\ Len(b) \in Nat /\ Len(c) \in Nat
  OBVIOUS
<1>6. o.status = "FILLED" /\ "FILL" \notin emitted => Len(b) = 1 BY <1>2
<1>7. o.status = "PARTIALLY_FILLED" /\ partial => Len(c) = 1 BY <1>3
<1>8. \A i \in DOMAIN ((a \o b) \o c) : ((a \o b) \o c)[i] \in S BY <1>5
<1>9. \A x \in S : x \in {"ACK", "FILL", "PARTIAL"} /\ (x = "FILL" => o.status = "FILLED") BY <1>s
<1>10. \A i \in DOMAIN Events(o, partial) : Events(o, partial)[i] \in S BY <1>4, <1>8
<1>11. PICK n \in Nat : n = Len(Events(o, partial)) /\ n = Len(a) + Len(b) + Len(c) BY <1>4, <1>5
<1>12. /\ o.status = "FILLED" /\ "FILL" \notin emitted => n > 0
       /\ o.status = "PARTIALLY_FILLED" /\ partial => n > 0
  BY <1>5, <1>6, <1>7, <1>11
<1> QED BY <1>9, <1>10, <1>11, <1>12
(* What every callback leaves behind.                                      *)
LEMMA CallbackKeeps ==
  ASSUME RowInv, NEW m \in due, Hears(m), NEW n \in Nat, scheduled' = scheduled + n,
         UNCHANGED <<broker, online, write, basket, orderRow, behind>>, late => late',
         emitted' \subseteq {"ACK", "FILL"},
         "FILL" \in emitted' => "FILL" \in emitted \/ oms'.status = "FILLED",
         oms' \in OmsRecords, oms'.lots \in {oms.lots, m.lots}, oms'.lots >= oms.lots,
         oms'.told \in {oms.told, oms'.lots},
         oms'.execs = oms.execs \cup (IF m.kind = "exec" THEN {m.lots} ELSE {}),
         m.kind = "exec" => oms'.lots >= m.lots,
         oms.status \in FinalStatus => oms'.status = oms.status,
         oms'.status = "FILLED" => oms.status = "FILLED" \/ (n > 0 /\ oms'.lots = Lots),
         oms'.lots # oms.lots => late' \/ n > 0 \/ Unsaid',
         Unsaid => late' \/ n > 0 \/ Unsaid'
  PROVE  RowInv'
<1>1. /\ m \in BrokerMsgs /\ m.lots \in Nat /\ m.lots <= broker.lots /\ (m.kind = "exec" => m.lots > 0)
      /\ due' = due \ {m} /\ online
  BY DEF Hears, RowInv, OrderTyped, FillsComeIn, BrokerMsgs
<1>2. /\ oms.lots \in Nat /\ oms.told \in Nat /\ oms.lots <= broker.lots /\ oms.told <= oms.lots
      /\ broker.lots \in Nat /\ broker.lots <= Lots /\ Lots \in Nat
      /\ oms.execs \subseteq Nat /\ \A k \in oms.execs : k \in 1 .. oms.lots
      /\ oms.status = "FILLED" => oms.lots = Lots
      /\ "FILL" \in emitted => oms.status = "FILLED"
  <2>1. Lots \in Nat /\ broker.lots \in 0 .. Lots BY OrderRowAssumption DEF RowInv, OrderTyped
  <2>2. oms.lots \in Nat /\ oms.told \in Nat /\ oms.execs \subseteq Nat
    BY DEF RowInv, OrderTyped, OmsRecords
  <2> QED BY <2>1, <2>2 DEF RowInv, FillsComeIn
<1>3. OrderTyped'
  <2>1. scheduled' \in Nat BY DEF RowInv, OrderTyped
  <2>2. due' \subseteq BrokerMsgs BY <1>1 DEF RowInv, OrderTyped
  <2> QED BY <2>1, <2>2 DEF RowInv, OrderTyped
<1>4. FillsComeIn'
  <2>1. oms'.lots <= broker.lots /\ oms'.lots \in Nat BY <1>1, <1>2
  <2>2. oms'.told <= oms'.lots BY <1>2, <2>1
  <2>3. \A k \in oms'.execs : k \in 1 .. oms'.lots
    <3>1. \A k \in oms.execs : k \in 1 .. oms'.lots BY <1>2, <2>1
    <3>2. m.kind = "exec" => m.lots \in 1 .. oms'.lots BY <1>1, <2>1
    <3> QED BY <3>1, <3>2
  <2>4. \A k \in due' : /\ k.lots <= broker.lots /\ (k.kind = "exec" => k.lots > 0)
                        /\ k.kind = "status" /\ k.st = "FILLED" => k.lots = Lots
    BY <1>1 DEF RowInv, FillsComeIn
  <2>5. ASSUME NEW k \in 1 .. broker.lots PROVE k \in oms'.execs \/ ExecMsg(k) \in due'
    <3>1. k \in oms.execs \/ ExecMsg(k) \in due BY <1>1 DEF RowInv, FillsComeIn
    <3>2. ExecMsg(k).kind = "exec" /\ ExecMsg(k).lots = k BY DEF ExecMsg
    <3>3. CASE k \in oms.execs BY <3>3
    <3>4. CASE ExecMsg(k) \in due /\ ExecMsg(k) # m BY <1>1, <3>4
    <3>5. CASE ExecMsg(k) = m BY <3>2, <3>5
    <3> QED BY <3>1, <3>3, <3>4, <3>5
  <2>6. oms'.status = "FILLED" => oms'.lots = Lots BY <1>2, <2>1
  <2>7. "FILL" \in emitted' => oms'.status = "FILLED"
    <3>1. oms.status = "FILLED" => oms'.status = "FILLED" BY DEF FinalStatus, Terminal
    <3> QED BY <1>2, <3>1
  <2> QED BY <2>1, <2>2, <2>3, <2>4, <2>5, <2>6, <2>7 DEF FillsComeIn
<1>5. scheduled' >= scheduled /\ (n > 0 => scheduled' > 0) BY DEF RowInv, OrderTyped
<1> QED BY <1>3, <1>4, <1>5, OrderKeeps

LEMMA EmitAt ==
  ASSUME RowInv, NEW STATE o, NEW STATE kinds, Emit(o, kinds), Len(kinds) \in Nat,
         \A i \in DOMAIN kinds : kinds[i] = "FILL" => o.status = "FILLED"
  PROVE  /\ oms' = o /\ scheduled' = scheduled + Len(kinds) /\ emitted' \subseteq {"ACK", "FILL"}
         /\ "FILL" \in emitted' => "FILL" \in emitted \/ o.status = "FILLED"
         /\ late => late'
         /\ o.status \in Terminal \ {"FILLED"} /\ (o.lots > oms.lots \/ o.execs # oms.execs) => late'
         /\ UNCHANGED <<broker, online, write, basket, orderRow, behind>>
<1>1. emitted' = emitted \cup ({kinds[i] : i \in DOMAIN kinds} \cap {"ACK", "FILL"}) BY DEF Emit
<1>2. emitted \subseteq {"ACK", "FILL"} BY DEF RowInv, OrderTyped
<1>3. "FILL" \in emitted' => "FILL" \in emitted \/ \E i \in DOMAIN kinds : kinds[i] = "FILL" BY <1>1
<1> QED BY <1>1, <1>2, <1>3 DEF Emit
LEMMA StatusKeeps ==
  ASSUME RowInv, NEW m \in due, OnOrderStatus(m)
  PROVE  RowInv'
<1> DEFINE o       == IF IsTerminal THEN oms ELSE Applied(m.st, m.lots)
           partial == oms.execs = {} /\ o.lots > oms.told
           tells   == o.status = "PARTIALLY_FILLED" /\ partial
           x       == IF tells THEN [o EXCEPT !.told = o.lots] ELSE o
<1>1. m.kind = "status" /\ Hears(m) /\ Emit(x, Events(o, partial)) BY DEF OnOrderStatus
<1>2. /\ oms \in OmsRecords /\ oms.lots \in Nat /\ oms.told \in Nat /\ oms.told <= oms.lots
      /\ m.lots \in Nat /\ m.st \in {"SUBMITTED", "FILLED", "CANCELLED"} /\ Lots \in Nat /\ Lots > 0
      /\ m.lots <= Lots /\ oms.lots <= Lots /\ (m.st = "FILLED" => m.lots = Lots)
      /\ "FILL" \in emitted => oms.status = "FILLED"
      /\ \A k \in oms.execs : k \in 1 .. oms.lots
  <2>1. m \in BrokerMsgs /\ Lots \in Nat /\ Lots > 0 /\ broker.lots \in 0 .. Lots
    BY OrderRowAssumption DEF RowInv, OrderTyped
  <2>2. m.lots \in Nat /\ m.st \in {"SUBMITTED", "FILLED", "CANCELLED"} BY <1>1, <2>1 DEF BrokerMsgs
  <2>3. oms \in OmsRecords /\ oms.lots \in Nat /\ oms.told \in Nat BY DEF RowInv, OrderTyped, OmsRecords
  <2>4. m.lots <= broker.lots /\ oms.lots <= broker.lots BY DEF RowInv, FillsComeIn
  <2> QED BY <1>1, <2>1, <2>2, <2>3, <2>4 DEF RowInv, FillsComeIn
<1>3. /\ o \in OmsRecords /\ o.lots \in {oms.lots, m.lots} /\ o.lots >= oms.lots /\ o.told = oms.told
      /\ o.execs = oms.execs
      /\ IsTerminal => o = oms
      /\ ~IsTerminal => \/ o.status = "CANCELLED" \/ o.status = "PARTIALLY_FILLED"
                        \/ o.status = "FILLED" /\ o.lots = Lots
                        \/ o.status = "SUBMITTED" /\ o.lots = oms.lots
  <2>1. CASE IsTerminal BY <1>2, <2>1
  <2>2. CASE ~IsTerminal
    <3>1. PICK l \in Nat : l = Greater(oms.lots, m.lots) /\ l \in {oms.lots, m.lots} /\ l >= oms.lots
                            /\ l >= m.lots
      BY <1>2 DEF Greater
    <3>2. PICK s : s = CASE m.st = "CANCELLED" -> "CANCELLED"
                         [] m.st # "CANCELLED" /\ l > 0 /\ m.lots < Lots -> "PARTIALLY_FILLED"
                         [] m.st # "CANCELLED" /\ l >= Lots /\ m.lots >= Lots -> "FILLED"
                         [] OTHER -> m.st
      OBVIOUS
    <3>3. o = [oms EXCEPT !.lots = l, !.status = s] BY <2>2, <3>1, <3>2 DEF Applied
    <3>4. \/ s = "CANCELLED" \/ s = "PARTIALLY_FILLED"
          \/ s = "FILLED" /\ l = Lots
          \/ s = "SUBMITTED" /\ l = oms.lots
      <4>1. CASE m.st = "CANCELLED" BY <3>2, <4>1
      <4>2. CASE m.st # "CANCELLED" /\ l > 0 /\ m.lots < Lots BY <1>2, <3>2, <4>2
      <4>3. CASE m.st # "CANCELLED" /\ l >= Lots /\ m.lots >= Lots BY <1>2, <3>1, <3>2, <4>3
      <4>4. CASE m.st # "CANCELLED" /\ ~(l > 0 /\ m.lots < Lots) /\ ~(l >= Lots /\ m.lots >= Lots)
        <5>1. l = 0 /\ oms.lots = 0 /\ m.lots = 0 BY <1>2, <3>1, <4>4
        <5>2. s = m.st BY <3>2, <4>4
        <5> QED BY <1>2, <4>4, <5>1, <5>2
      <4> QED BY <4>1, <4>2, <4>3, <4>4
    <3>5. o \in OmsRecords BY <1>2, <3>3, <3>4 DEF OmsRecords, Terminal
    <3>6. o.lots = l /\ o.status = s /\ o.told = oms.told /\ o.execs = oms.execs
      BY <1>2, <3>3 DEF OmsRecords
    <3> QED BY <2>2, <3>1, <3>4, <3>5, <3>6
  <2> QED BY <2>1, <2>2
<1>4. PICK n \in Nat :
        /\ n = Len(Events(o, partial))
        /\ o.status = "FILLED" /\ "FILL" \notin emitted => n > 0
        /\ tells => n > 0
        /\ \A i \in DOMAIN Events(o, partial) : Events(o, partial)[i] = "FILL" => o.status = "FILLED"
  BY EventsAt
<1> HIDE DEF o, partial
<1>5. /\ x \in OmsRecords /\ x.lots = o.lots /\ x.execs = o.execs /\ x.status = o.status
      /\ x.told \in {oms.told, o.lots}
  <2>1. CASE tells BY <1>3, <2>1 DEF OmsRecords
  <2>2. CASE ~tells BY <1>3, <2>2
  <2> QED BY <2>1, <2>2
<1> HIDE DEF x, tells
<1>6. /\ oms' = x /\ scheduled' = scheduled + n /\ emitted' \subseteq {"ACK", "FILL"}
      /\ "FILL" \in emitted' => "FILL" \in emitted \/ x.status = "FILLED"
      /\ late => late'
      /\ x.status \in Terminal \ {"FILLED"} /\ (x.lots > oms.lots \/ x.execs # oms.execs) => late'
      /\ UNCHANGED <<broker, online, write, basket, orderRow, behind>>
  BY <1>1, <1>4, <1>5, EmitAt
<1>7. oms.status \in FinalStatus => oms'.status = oms.status
  BY <1>3, <1>5, <1>6 DEF FinalStatus, IsTerminal
<1>8. oms'.status = "FILLED" => oms.status = "FILLED" \/ (n > 0 /\ oms'.lots = Lots)
  BY <1>2, <1>3, <1>4, <1>5, <1>6
<1>9. oms'.lots # oms.lots => late' \/ n > 0 \/ Unsaid'
  <2>1. SUFFICES ASSUME o.lots # oms.lots PROVE late' \/ n > 0 \/ Unsaid'
    BY <1>5, <1>6
  <2>2. o.lots > oms.lots /\ o.lots \in Nat /\ ~IsTerminal BY <1>2, <1>3, <2>1
  <2>3. CASE o.status = "CANCELLED" BY <1>5, <1>6, <2>2, <2>3 DEF Terminal
  <2>4. CASE o.status = "FILLED"
    <3>1. "FILL" \notin emitted BY <1>2, <2>2 DEF IsTerminal, Terminal
    <3> QED BY <1>4, <2>4, <3>1
  <2>5. CASE o.status = "PARTIALLY_FILLED"
    <3>1. CASE oms.execs = {} BY <1>2, <1>4, <2>2, <2>5, <3>1 DEF tells, partial
    <3>2. CASE oms.execs # {}
      <4>1. o.lots \notin oms.execs BY <1>2, <2>2
      <4> QED BY <1>3, <1>5, <1>6, <2>5, <3>2, <4>1 DEF Unsaid
    <3> QED BY <3>1, <3>2
  <2> QED BY <1>3, <2>1, <2>2, <2>3, <2>4, <2>5
<1>10. Unsaid => late' \/ n > 0 \/ Unsaid'
  <2>1. CASE o.lots # oms.lots BY <1>5, <1>6, <1>9, <2>1
  <2>2. CASE o.lots = oms.lots /\ o.status # "FILLED"
    BY <1>3, <1>5, <1>6, <2>2 DEF Unsaid
  <2>3. CASE o.status = "FILLED" BY <1>5, <1>6, <1>8, <2>3 DEF Unsaid
  <2> QED BY <2>1, <2>2, <2>3
<1>11. oms'.execs = oms.execs \cup (IF m.kind = "exec" THEN {m.lots} ELSE {})
  BY <1>1, <1>3, <1>5, <1>6
<1>12. oms' \in OmsRecords /\ oms'.lots \in {oms.lots, m.lots} /\ oms'.lots >= oms.lots
         /\ oms'.told \in {oms.told, oms'.lots}
  BY <1>3, <1>5, <1>6
<1>13. "FILL" \in emitted' => "FILL" \in emitted \/ oms'.status = "FILLED" BY <1>6
<1> QED BY <1>1, <1>6, <1>7, <1>8, <1>9, <1>10, <1>11, <1>12, <1>13, CallbackKeeps
LEMMA ExecKeeps ==
  ASSUME RowInv, NEW m \in due, OnExecDetails(m)
  PROVE  RowInv'
<1> DEFINE lots == Greater(oms.lots, m.lots)
           s    == IF IsTerminal THEN oms.status ELSE IF lots >= Lots THEN "FILLED" ELSE "PARTIALLY_FILLED"
           o    == [oms EXCEPT !.lots = lots, !.execs = oms.execs \cup {m.lots}, !.status = s]
           new  == m.lots \notin oms.execs
<1>1. m.kind = "exec" /\ Hears(m) /\ Emit(o, Events(o, new)) BY DEF OnExecDetails
<1>2. /\ oms \in OmsRecords /\ oms.lots \in Nat /\ m.lots \in Nat /\ m.lots > 0
      /\ Lots \in Nat /\ Lots > 0 /\ m.lots <= Lots /\ oms.lots <= Lots
      /\ "FILL" \in emitted => oms.status = "FILLED"
      /\ oms.status = "FILLED" => oms.lots = Lots
      /\ \A k \in oms.execs : k \in 1 .. oms.lots
  <2>1. m \in BrokerMsgs /\ Lots \in Nat /\ Lots > 0 /\ broker.lots \in 0 .. Lots
    BY OrderRowAssumption DEF RowInv, OrderTyped
  <2>2. m.lots \in Nat BY <1>1, <2>1 DEF BrokerMsgs
  <2>3. oms \in OmsRecords /\ oms.lots \in Nat BY DEF RowInv, OrderTyped, OmsRecords
  <2>4. m.lots <= broker.lots /\ oms.lots <= broker.lots /\ m.lots > 0 BY <1>1 DEF RowInv, FillsComeIn
  <2> QED BY <2>1, <2>2, <2>3, <2>4 DEF RowInv, FillsComeIn
<1>3. lots \in Nat /\ lots \in {oms.lots, m.lots} /\ lots >= oms.lots /\ lots >= m.lots /\ lots <= Lots
  BY <1>2 DEF Greater
<1>4. /\ IsTerminal => s = oms.status
      /\ ~IsTerminal => (s = "FILLED" /\ lots = Lots) \/ s = "PARTIALLY_FILLED"
  BY <1>2, <1>3
<1> HIDE DEF lots, s
<1>5. /\ o \in OmsRecords /\ o.lots = lots /\ o.execs = oms.execs \cup {m.lots} /\ o.status = s
      /\ o.told = oms.told
  <2>1. s \in Terminal \cup {"PENDING", "SUBMITTED", "PARTIALLY_FILLED"}
    BY <1>2, <1>4 DEF OmsRecords, Terminal
  <2> QED BY <1>2, <1>3, <2>1 DEF OmsRecords
<1>6. PICK n \in Nat :
        /\ n = Len(Events(o, new))
        /\ o.status = "FILLED" /\ "FILL" \notin emitted => n > 0
        /\ o.status = "PARTIALLY_FILLED" /\ new => n > 0
        /\ \A i \in DOMAIN Events(o, new) : Events(o, new)[i] = "FILL" => o.status = "FILLED"
  <2> HIDE DEF o, new
  <2> QED BY EventsAt
<1> HIDE DEF o
<1>7. /\ oms' = o /\ scheduled' = scheduled + n /\ emitted' \subseteq {"ACK", "FILL"}
      /\ "FILL" \in emitted' => "FILL" \in emitted \/ o.status = "FILLED"
      /\ late => late'
      /\ o.status \in Terminal \ {"FILLED"} /\ (o.lots > oms.lots \/ o.execs # oms.execs) => late'
      /\ UNCHANGED <<broker, online, write, basket, orderRow, behind>>
  BY <1>1, <1>6, EmitAt
<1>8. oms.status \in FinalStatus => oms'.status = oms.status
  BY <1>4, <1>5, <1>7 DEF FinalStatus, IsTerminal
<1>9. oms'.status = "FILLED" => oms.status = "FILLED" \/ (n > 0 /\ oms'.lots = Lots)
  BY <1>2, <1>4, <1>5, <1>6, <1>7
<1>10. ASSUME new, oms.status # "FILLED" PROVE late' \/ n > 0
  <2>1. CASE IsTerminal
    <3>1. o.status \in Terminal \ {"FILLED"} BY <1>4, <1>5, <1>10, <2>1 DEF IsTerminal
    <3>2. o.execs # oms.execs BY <1>5, <1>10
    <3> QED BY <1>7, <3>1, <3>2
  <2>2. CASE ~IsTerminal BY <1>2, <1>4, <1>5, <1>6, <1>10, <2>2
  <2> QED BY <2>1, <2>2
<1>11. oms'.lots # oms.lots => late' \/ n > 0 \/ Unsaid'
  <2>1. SUFFICES ASSUME lots # oms.lots PROVE late' \/ n > 0
    BY <1>5, <1>7
  <2>2. m.lots > oms.lots BY <1>2, <1>3, <2>1
  <2>3. new BY <1>2, <2>2
  <2>4. oms.status # "FILLED" BY <1>2, <2>2
  <2> QED BY <1>10, <2>3, <2>4
<1>12. Unsaid => late' \/ n > 0 \/ Unsaid'
  <2>1. SUFFICES ASSUME Unsaid, ~late', n = 0 PROVE Unsaid'
    BY <1>6
  <2>2. oms.status # "FILLED" /\ oms.lots \notin oms.execs /\ oms.execs # {} BY <2>1 DEF Unsaid
  <2>3. ~new BY <1>10, <2>1, <2>2
  <2>4. lots = oms.lots
    <3>1. m.lots \in oms.execs BY <2>3
    <3>2. m.lots <= oms.lots BY <1>2, <3>1
    <3> QED BY <1>2, <1>3, <3>2
  <2>5. oms'.execs = oms.execs /\ oms'.lots = oms.lots BY <1>5, <1>7, <2>3, <2>4
  <2>6. oms'.status # "FILLED" BY <1>9, <2>1, <2>2
  <2> QED BY <2>2, <2>5, <2>6 DEF Unsaid
<1>13. oms'.execs = oms.execs \cup (IF m.kind = "exec" THEN {m.lots} ELSE {})
  BY <1>1, <1>5, <1>7
<1>14. oms' \in OmsRecords /\ oms'.lots \in {oms.lots, m.lots} /\ oms'.lots >= oms.lots
         /\ oms'.told \in {oms.told, oms'.lots} /\ oms'.lots >= m.lots
  BY <1>3, <1>5, <1>7
<1>15. "FILL" \in emitted' => "FILL" \in emitted \/ oms'.status = "FILLED" BY <1>7
<1> QED BY <1>1, <1>7, <1>8, <1>9, <1>11, <1>12, <1>13, <1>14, <1>15, CallbackKeeps

LEMMA CommissionKeeps ==
  ASSUME RowInv, NEW m \in due, OnCommissionReport(m)
  PROVE  RowInv'
<1> DEFINE o     == [oms EXCEPT !.commissions = oms.commissions \cup {m.lots}]
           kinds == IF m.lots \in oms.execs \ oms.commissions THEN <<"COMMISSION">> ELSE <<>>
<1>1. m.kind = "commission" /\ Hears(m) /\ Emit(o, kinds) BY DEF OnCommissionReport
<1>2. PICK n \in Nat : n = Len(kinds) /\ \A i \in DOMAIN kinds : kinds[i] # "FILL"
  <2>1. CASE m.lots \in oms.execs \ oms.commissions BY <2>1
  <2>2. CASE m.lots \notin oms.execs \ oms.commissions BY <2>2
  <2> QED BY <2>1, <2>2
<1>3. oms \in OmsRecords /\ m.lots \in Nat /\ oms.lots \in Nat
  BY <1>1 DEF RowInv, OrderTyped, OmsRecords, BrokerMsgs
<1>4. /\ o \in OmsRecords /\ o.lots = oms.lots /\ o.execs = oms.execs /\ o.status = oms.status
      /\ o.told = oms.told
  BY <1>3 DEF OmsRecords
<1> HIDE DEF o, kinds
<1>5. /\ oms' = o /\ scheduled' = scheduled + n /\ emitted' \subseteq {"ACK", "FILL"}
      /\ "FILL" \in emitted' => "FILL" \in emitted \/ o.status = "FILLED"
      /\ late => late'
      /\ UNCHANGED <<broker, online, write, basket, orderRow, behind>>
  BY <1>1, <1>2, EmitAt
<1>6. Unsaid => Unsaid' BY <1>4, <1>5 DEF Unsaid
<1> QED BY <1>1, <1>3, <1>4, <1>5, <1>6, CallbackKeeps

LEMMA ErrorKeeps ==
  ASSUME RowInv, NEW m \in due, OnError(m)
  PROVE  RowInv'
<1> DEFINE o     == [oms EXCEPT !.message = m.st, !.status = IF IsTerminal THEN oms.status ELSE m.st]
           kinds == IF o.status = "FILLED" THEN <<>> ELSE <<"END">>
<1>1. /\ m.kind = "error" /\ Hears(m)
      /\ (oms.message = "" /\ Emit(o, kinds)) \/ Emit(oms, <<>>)
  BY DEF OnError
<1>2. oms \in OmsRecords /\ m.lots \in Nat /\ oms.lots \in Nat /\ m.st \in {"CANCELLED", "REJECTED"}
  BY <1>1 DEF RowInv, OrderTyped, OmsRecords, BrokerMsgs
<1>3. /\ o \in OmsRecords /\ o.lots = oms.lots /\ o.execs = oms.execs /\ o.told = oms.told
      /\ oms.status \in Terminal => o.status = oms.status
      /\ o.status = "FILLED" => oms.status = "FILLED"
  <2>1. CASE IsTerminal BY <1>2, <2>1 DEF OmsRecords, IsTerminal
  <2>2. CASE ~IsTerminal BY <1>2, <2>2 DEF OmsRecords, IsTerminal, Terminal
  <2> QED BY <2>1, <2>2
<1>4. PICK n \in Nat : n = Len(kinds) /\ \A i \in DOMAIN kinds : kinds[i] # "FILL"
  <2>1. CASE o.status = "FILLED" BY <2>1
  <2>2. CASE o.status # "FILLED" BY <2>2
  <2> QED BY <2>1, <2>2
<1>5. Len(<<>>) = 0 /\ \A i \in DOMAIN <<>> : <<>>[i] # "FILL" OBVIOUS
<1> HIDE DEF o, kinds
<1>6. CASE Emit(o, kinds)
  <2>1. /\ oms' = o /\ scheduled' = scheduled + n /\ emitted' \subseteq {"ACK", "FILL"}
        /\ "FILL" \in emitted' => "FILL" \in emitted \/ o.status = "FILLED"
        /\ late => late'
        /\ UNCHANGED <<broker, online, write, basket, orderRow, behind>>
    BY <1>4, <1>6, EmitAt
  <2>2. Unsaid => Unsaid' BY <1>3, <2>1 DEF Unsaid
  <2>3. oms.status \in FinalStatus => oms'.status = oms.status BY <1>3, <2>1 DEF FinalStatus
  <2>4. /\ oms'.execs = oms.execs \cup (IF m.kind = "exec" THEN {m.lots} ELSE {})
        /\ oms'.lots >= oms.lots /\ oms'.lots \in {oms.lots, m.lots} /\ m.kind # "exec"
        /\ oms'.told = oms.told /\ oms'.lots = oms.lots /\ oms' \in OmsRecords
        /\ oms'.status = "FILLED" => oms.status = "FILLED"
        /\ "FILL" \in emitted' => "FILL" \in emitted \/ oms'.status = "FILLED"
    <3>1. m.kind # "exec" BY <1>1
    <3>2. oms'.lots = oms.lots /\ oms'.execs = oms.execs BY <1>3, <2>1
    <3>3. oms'.lots >= oms.lots BY <1>2, <3>2
    <3> QED BY <1>3, <2>1, <3>1, <3>2, <3>3
  <2> QED BY <1>1, <2>1, <2>2, <2>3, <2>4, CallbackKeeps
<1>7. CASE Emit(oms, <<>>)
  <2>1. /\ oms' = oms /\ scheduled' = scheduled + 0 /\ emitted' \subseteq {"ACK", "FILL"}
        /\ "FILL" \in emitted' => "FILL" \in emitted \/ oms.status = "FILLED"
        /\ late => late'
        /\ UNCHANGED <<broker, online, write, basket, orderRow, behind>>
    BY <1>5, <1>7, EmitAt
  <2>2. Unsaid => Unsaid' BY <2>1 DEF Unsaid
  <2>3. /\ oms'.execs = oms.execs \cup (IF m.kind = "exec" THEN {m.lots} ELSE {})
        /\ oms'.lots >= oms.lots /\ oms'.lots \in {oms.lots, m.lots} /\ m.kind # "exec"
    <3>1. m.kind # "exec" BY <1>1
    <3>2. oms'.lots = oms.lots /\ oms'.execs = oms.execs BY <2>1
    <3>3. oms'.lots >= oms.lots BY <1>2, <3>2
    <3> QED BY <3>1, <3>2, <3>3
  <2> QED BY <1>1, <1>2, <2>1, <2>2, <2>3, CallbackKeeps
<1> QED BY <1>1, <1>6, <1>7
(* The broker's own steps, and the session's, change what is on its way.   *)
LEMMA BrokerKeeps ==
  ASSUME RowInv, UNCHANGED <<emitted, scheduled, write, basket, orderRow, late, behind>>,
         OrderTyped', FillsComeIn', oms'.lots = oms.lots, oms'.execs = oms.execs,
         oms.status \in FinalStatus => oms'.status = oms.status,
         oms'.status = "FILLED" => oms.status = "FILLED"
  PROVE  RowInv'
<1>1. oms.lots \in Nat /\ scheduled \in Nat BY DEF RowInv, OrderTyped, OmsRecords
<1>2. Unsaid => Unsaid' BY DEF Unsaid
<1>3. scheduled' >= scheduled /\ oms'.lots >= oms.lots BY <1>1
<1> QED BY <1>2, <1>3, OrderKeeps

LEMMA BrokerFillsKeeps ==
  ASSUME RowInv, BrokerFills
  PROVE  RowInv'
<1>1. PICK n \in Nat : n = broker.lots + 1 BY DEF RowInv, OrderTyped
<1> DEFINE st == IF n = Lots THEN "FILLED" ELSE "SUBMITTED"
           ms == {ExecMsg(n), CommissionMsg(n), Status(st, n)}
<1>2. /\ broker.state = "working" /\ broker' = [lots |-> n, state |-> IF n = Lots THEN "filled" ELSE "working"]
      /\ due' = (IF online THEN due \cup ms ELSE due)
      /\ UNCHANGED <<online, oms, emitted, scheduled, write, basket, orderRow, late, behind>>
  BY <1>1 DEF BrokerFills, Send
<1>3. broker.lots \in Nat /\ Lots \in Nat /\ broker.lots < Lots /\ n <= Lots /\ n > 0
  <2>1. broker.lots \in 0 .. Lots /\ broker.lots < Lots BY <1>2 DEF RowInv, OrderTyped
  <2> QED BY <1>1, <2>1, OrderRowAssumption
<1>4. \A m \in ms : /\ m \in BrokerMsgs /\ m.lots = n
                    /\ m.kind = "status" /\ m.st = "FILLED" => n = Lots
  <2>1. ExecMsg(n) \in BrokerMsgs /\ ExecMsg(n).lots = n /\ ExecMsg(n).kind = "exec"
    BY DEF ExecMsg, BrokerMsgs
  <2>2. CommissionMsg(n) \in BrokerMsgs /\ CommissionMsg(n).lots = n /\ CommissionMsg(n).kind = "commission"
    BY DEF CommissionMsg, BrokerMsgs
  <2>3. st \in {"FILLED", "SUBMITTED"} OBVIOUS
  <2>4. Status(st, n) \in BrokerMsgs /\ Status(st, n).lots = n /\ Status(st, n).st = st
    BY <2>3 DEF Status, BrokerMsgs
  <2> QED BY <2>1, <2>2, <2>4
<1> HIDE DEF st
<1>5. broker'.lots = n /\ broker' \in [lots : 0 .. Lots, state : {"working", "filled", "cancelled"}]
        /\ (broker'.state = "working" => n < Lots)
  <2>1. n \in 0 .. Lots BY <1>3
  <2>2. CASE n = Lots BY <1>2, <2>1, <2>2
  <2>3. CASE n # Lots
    <3>1. n < Lots BY <1>3, <2>3
    <3> QED BY <1>2, <2>1, <2>3, <3>1
  <2> QED BY <2>2, <2>3
<1>6. OrderTyped'
  <2>1. due' \subseteq BrokerMsgs BY <1>2, <1>4 DEF RowInv, OrderTyped
  <2> QED BY <1>2, <1>5, <2>1 DEF RowInv, OrderTyped
<1>7. FillsComeIn'
  <2>1. oms'.lots <= n
    <3>1. oms.lots \in Nat /\ oms.lots <= broker.lots BY DEF RowInv, FillsComeIn, OrderTyped, OmsRecords
    <3> QED BY <1>1, <1>2, <1>3, <3>1
  <2>2. ASSUME NEW k \in due'
        PROVE  /\ k.lots <= n
               /\ k.kind = "exec" => k.lots > 0
               /\ k.kind = "status" /\ k.st = "FILLED" => k.lots = Lots
    <3>1. CASE k \in due
      <4>1. k.lots \in Nat BY <3>1 DEF RowInv, OrderTyped, BrokerMsgs
      <4> QED BY <1>1, <1>3, <3>1, <4>1 DEF RowInv, FillsComeIn
    <3>2. CASE k \in ms BY <1>3, <1>4, <3>2
    <3> QED BY <1>2, <3>1, <3>2
  <2>3. ASSUME online, NEW k \in 1 .. n PROVE k \in oms.execs \/ ExecMsg(k) \in due'
    <3>1. CASE k = n BY <1>2, <2>3, <3>1
    <3>2. CASE k # n
      <4>1. k \in 1 .. broker.lots BY <1>1, <1>3, <3>2
      <4> QED BY <1>2, <2>3, <4>1 DEF RowInv, FillsComeIn
    <3> QED BY <3>1, <3>2
  <2> QED BY <1>2, <1>5, <2>1, <2>2, <2>3 DEF RowInv, FillsComeIn
<1> QED BY <1>2, <1>6, <1>7, BrokerKeeps

(* A cancel and the refusal of one add to what is on its way.              *)
LEMMA BrokerSaysKeeps ==
  ASSUME RowInv, NEW ms \in SUBSET BrokerMsgs, Send(ms),
         \A m \in ms : m.lots = broker.lots /\ m.kind # "exec" /\ m.st # "FILLED",
         broker' \in [lots : 0 .. Lots, state : {"working", "filled", "cancelled"}],
         broker'.lots = broker.lots, broker'.state = "working" => broker.state = "working",
         UNCHANGED <<online, oms, emitted, scheduled, write, basket, orderRow, late, behind>>
  PROVE  RowInv'
<1>1. due \subseteq due' /\ due' \subseteq due \cup ms BY DEF Send
<1>2. broker.lots \in Nat /\ Lots \in Nat
  <2>1. broker.lots \in 0 .. Lots BY DEF RowInv, OrderTyped
  <2> QED BY <2>1, OrderRowAssumption
<1>3. OrderTyped' BY <1>1 DEF RowInv, OrderTyped
<1>4. FillsComeIn'
  <2>1. ASSUME NEW k \in due'
        PROVE  /\ k.lots <= broker.lots
               /\ k.kind = "exec" => k.lots > 0
               /\ k.kind = "status" /\ k.st = "FILLED" => k.lots = Lots
    <3>1. CASE k \in due BY <3>1 DEF RowInv, FillsComeIn
    <3>2. CASE k \in ms BY <1>2, <3>2
    <3> QED BY <1>1, <3>1, <3>2
  <2>2. online => \A n \in 1 .. broker.lots : n \in oms.execs \/ ExecMsg(n) \in due'
    BY <1>1 DEF RowInv, FillsComeIn
  <2> QED BY <2>1, <2>2 DEF RowInv, FillsComeIn
<1> QED BY <1>3, <1>4, BrokerKeeps

LEMMA ParkKeeps ==
  ASSUME RowInv, Park
  PROVE  RowInv'
<1>1. /\ online' = FALSE /\ due' = {}
      /\ oms' = IF IsTerminal THEN oms ELSE [oms EXCEPT !.status = "ERROR", !.message = "Connection closed"]
      /\ UNCHANGED <<broker, emitted, scheduled, write, basket, orderRow, late, behind>>
  BY DEF Park
<1>2. oms \in OmsRecords BY DEF RowInv, OrderTyped
<1>3. /\ oms' \in OmsRecords /\ oms'.lots = oms.lots /\ oms'.execs = oms.execs /\ oms'.told = oms.told
      /\ oms.status \in FinalStatus => oms'.status = oms.status
      /\ (oms'.status = "FILLED") = (oms.status = "FILLED")
  <2>1. CASE IsTerminal BY <1>1, <1>2, <2>1
  <2>2. CASE ~IsTerminal BY <1>1, <1>2, <2>2 DEF IsTerminal, OmsRecords, Terminal, FinalStatus
  <2> QED BY <2>1, <2>2
<1>4. OrderTyped' BY <1>1, <1>3 DEF RowInv, OrderTyped
<1>5. FillsComeIn' BY <1>1, <1>3 DEF RowInv, FillsComeIn
<1> QED BY <1>1, <1>3, <1>4, <1>5, BrokerKeeps

LEMMA UnparkKeeps ==
  ASSUME RowInv, Unpark
  PROVE  RowInv'
<1> DEFINE execMsgs == {ExecMsg(n) : n \in 1 .. broker.lots}
           paid  == {CommissionMsg(n) : n \in (1 .. broker.lots) \ oms.commissions}
           open  == IF broker.state = "working" THEN {Status("SUBMITTED", broker.lots)} ELSE {}
<1>1. /\ due' = execMsgs \cup paid \cup open
      /\ oms' = IF oms.message = "Connection closed" /\ oms.status = "ERROR"
                THEN [oms EXCEPT !.status = "SUBMITTED", !.message = ""] ELSE oms
      /\ UNCHANGED <<broker, emitted, scheduled, write, basket, orderRow, late, behind>>
  BY DEF Unpark
<1>2. oms \in OmsRecords /\ Lots \in Nat /\ broker.lots \in 0 .. Lots /\ broker.lots \in Nat
  <2>1. broker.lots \in 0 .. Lots BY DEF RowInv, OrderTyped
  <2> QED BY <2>1, OrderRowAssumption DEF RowInv, OrderTyped
<1>3. /\ oms' \in OmsRecords /\ oms'.lots = oms.lots /\ oms'.execs = oms.execs /\ oms'.told = oms.told
      /\ oms.status \in FinalStatus => oms'.status = oms.status
      /\ oms'.status = "FILLED" => oms.status = "FILLED"
      /\ oms.status = "FILLED" => oms'.status = "FILLED"
  <2>1. CASE oms.message = "Connection closed" /\ oms.status = "ERROR"
    BY <1>1, <1>2, <2>1 DEF OmsRecords, FinalStatus
  <2>2. CASE ~(oms.message = "Connection closed" /\ oms.status = "ERROR") BY <1>1, <1>2, <2>2
  <2> QED BY <2>1, <2>2
<1>4. ASSUME NEW k \in due'
      PROVE  /\ k \in BrokerMsgs /\ k.lots <= broker.lots
             /\ k.kind = "exec" => k.lots > 0
             /\ k.kind = "status" => k.st = "SUBMITTED"
  <2>1. CASE k \in execMsgs
    <3>1. PICK n \in 1 .. broker.lots : k = ExecMsg(n) BY <2>1
    <3>2. n \in Nat /\ n <= broker.lots /\ n > 0 BY <1>2, <3>1
    <3>3. k \in BrokerMsgs /\ k.lots = n /\ k.kind = "exec" BY <3>1, <3>2 DEF ExecMsg, BrokerMsgs
    <3> QED BY <3>2, <3>3
  <2>2. CASE k \in paid
    <3>1. PICK n \in 1 .. broker.lots : k = CommissionMsg(n) BY <2>2
    <3>2. n \in Nat /\ n <= broker.lots BY <1>2, <3>1
    <3>3. k \in BrokerMsgs /\ k.lots = n /\ k.kind = "commission" BY <3>1, <3>2 DEF CommissionMsg, BrokerMsgs
    <3> QED BY <3>2, <3>3
  <2>3. CASE k \in open
    <3>1. k = Status("SUBMITTED", broker.lots) BY <2>3
    <3>2. k \in BrokerMsgs /\ k.lots = broker.lots /\ k.kind = "status" /\ k.st = "SUBMITTED"
      BY <1>2, <3>1 DEF Status, BrokerMsgs
    <3> QED BY <1>2, <3>2
  <2> QED BY <1>1, <2>1, <2>2, <2>3
<1>5. \A n \in 1 .. broker.lots : ExecMsg(n) \in due' BY <1>1
<1> HIDE DEF execMsgs, paid, open
<1>6. OrderTyped' BY <1>1, <1>3, <1>4 DEF RowInv, OrderTyped
<1>7. FillsComeIn' BY <1>1, <1>3, <1>4, <1>5 DEF RowInv, FillsComeIn
<1> QED BY <1>1, <1>3, <1>6, <1>7, BrokerKeeps
WriteRecords  == [inFlight : BOOLEAN, dirty : BOOLEAN, at : {"idle", "begun", "read", "written"},
                  value : Values, stale : BOOLEAN]
BasketRecords == [left : Nat, at : {"idle", "begun", "read"}, value : Values, stale : BOOLEAN]

LEMMA WritersTyped ==
  ASSUME RowInv
  PROVE  /\ write \in WriteRecords /\ basket \in BasketRecords /\ orderRow \in Values
         /\ oms.lots \in Nat /\ oms.status \in Terminal \cup {"PENDING", "SUBMITTED", "PARTIALLY_FILLED"}
         /\ orderRow.lots \in Nat /\ write.value.lots \in Nat /\ basket.value.lots \in Nat
         /\ scheduled \in Nat /\ Behind(orderRow)
         /\ write.value \in Values /\ basket.value \in Values
BY DEF RowInv, OrderTyped, WritesTyped, NothingAhead, WriteRecords, BasketRecords, Values, OmsRecords

LEMMA BegunAt ==
  ASSUME RowInv
  PROVE  /\ Taken \in WriteRecords /\ Taken.at = "begun" /\ Taken.value.lots = oms.lots
         /\ Taken.inFlight = TRUE /\ Taken.value \in Values
         /\ Begun(basket) \in BasketRecords /\ Begun(basket).at = "begun"
         /\ Begun(basket).value.lots = oms.lots /\ Begun(basket).left = basket.left
<1>1. [write.value EXCEPT !.lots = oms.lots] \in Values /\ [write.value EXCEPT !.lots = oms.lots].lots = oms.lots
  BY WritersTyped DEF Values
<1>2. [basket.value EXCEPT !.lots = oms.lots] \in Values /\ [basket.value EXCEPT !.lots = oms.lots].lots = oms.lots
  BY WritersTyped DEF Values
<1>3. Begun(write) = [write EXCEPT !.at = "begun", !.value = [write.value EXCEPT !.lots = oms.lots], !.stale = FALSE]
  BY WritersTyped DEF Begun, WriteRecords
<1>4. Begun(basket) = [basket EXCEPT !.at = "begun", !.value = [basket.value EXCEPT !.lots = oms.lots], !.stale = FALSE]
  BY WritersTyped DEF Begun, BasketRecords
<1>5. Taken = [write EXCEPT !.at = "begun", !.value = [write.value EXCEPT !.lots = oms.lots], !.stale = FALSE,
                            !.inFlight = TRUE, !.dirty = FALSE]
  BY <1>3 DEF Taken
<1> QED BY <1>1, <1>2, <1>4, <1>5, WritersTyped DEF WriteRecords, BasketRecords

(* What a writer makes of the row it reads is no newer than the order, and *)
(* up to date when the writer was.                                         *)
LEMMA ReadAt ==
  ASSUME RowInv, NEW v \in Values, v.lots <= oms.lots,
         NEW r, r = [status |-> IF orderRow.status \in FinalStatus THEN orderRow.status ELSE oms.status,
                     lots   |-> IF orderRow.status \in FinalStatus THEN Greater(orderRow.lots, v.lots) ELSE v.lots]
  PROVE  /\ r \in Values /\ Behind(r) /\ r.lots <= oms.lots
         /\ v.lots = oms.lots => UpToDate(r)
<1>1. /\ orderRow.lots \in Nat /\ oms.lots \in Nat /\ v.lots \in Nat /\ orderRow.lots <= oms.lots
      /\ orderRow.status \in FinalStatus => oms.status = orderRow.status
      /\ oms.status \in Terminal \cup {"PENDING", "SUBMITTED", "PARTIALLY_FILLED"}
  BY WritersTyped DEF Values, Behind
<1>2. r.status = oms.status BY <1>1
<1>3. r.lots \in Nat /\ r.lots <= oms.lots /\ (v.lots = oms.lots => r.lots = oms.lots)
  BY <1>1 DEF Greater
<1>4. r \in Values BY <1>1, <1>2, <1>3 DEF Values
<1> QED BY <1>2, <1>3, <1>4 DEF Behind, UpToDate

LEMMA OvertakenAt ==
  ASSUME RowInv
  PROVE  /\ Overtaken(basket) \in BasketRecords /\ Overtaken(basket).at = basket.at
         /\ Overtaken(basket).value = basket.value /\ Overtaken(basket).left = basket.left
         /\ UnderWay(basket) => Overtaken(basket).stale = TRUE
         /\ Overtaken(write) \in WriteRecords /\ Overtaken(write).at = write.at
         /\ Overtaken(write).value = write.value /\ Overtaken(write).inFlight = write.inFlight
         /\ Overtaken(write).dirty = write.dirty
         /\ UnderWay(write) => Overtaken(write).stale = TRUE
<1>b. PICK b \in BOOLEAN : b = (basket.at \in {"begun", "read"})
  <2>1. CASE basket.at \in {"begun", "read"} BY <2>1
  <2>2. CASE basket.at \notin {"begun", "read"}
    <3>1. (basket.at \in {"begun", "read"}) = FALSE BY <2>2
    <3> QED BY <3>1
  <2> QED BY <2>1, <2>2
<1>w. PICK w \in BOOLEAN : w = (write.at \in {"begun", "read"})
  <2>1. CASE write.at \in {"begun", "read"} BY <2>1
  <2>2. CASE write.at \notin {"begun", "read"}
    <3>1. (write.at \in {"begun", "read"}) = FALSE BY <2>2
    <3> QED BY <3>1
  <2> QED BY <2>1, <2>2
<1>1. b = (basket.at \in {"begun", "read"}) /\ w = (write.at \in {"begun", "read"})
  BY <1>b, <1>w
<1>2. Overtaken(basket) = [basket EXCEPT !.stale = b] /\ Overtaken(write) = [write EXCEPT !.stale = w]
  BY <1>1 DEF Overtaken
<1>3. (UnderWay(basket) => b = TRUE) /\ (UnderWay(write) => w = TRUE) BY <1>1 DEF UnderWay
<1>4. basket \in BasketRecords /\ write \in WriteRecords BY WritersTyped
<1>5. /\ [basket EXCEPT !.stale = b] \in BasketRecords /\ [basket EXCEPT !.stale = b].stale = b
      /\ [write EXCEPT !.stale = w] \in WriteRecords /\ [write EXCEPT !.stale = w].stale = w
  BY <1>4 DEF BasketRecords, WriteRecords
<1> QED BY <1>2, <1>3, <1>4, <1>5 DEF BasketRecords, WriteRecords

(* The steps of the coalescer.                                             *)
LEMMA CoalescerKeeps ==
  ASSUME RowInv, RunTask \/ ReadRow \/ CommitOrder \/ CheckDirty \/ WriteFails
  PROVE  RowInv'
<1>t. /\ write \in WriteRecords /\ basket \in BasketRecords /\ orderRow \in Values
      /\ oms.lots \in Nat /\ write.value \in Values /\ basket.value \in Values /\ scheduled \in Nat
  BY WritersTyped
<1>u. UNCHANGED <<broker, due, online, oms, emitted>>
  BY DEF RunTask, ReadRow, CommitOrder, CheckDirty, WriteFails
<1>f. FillsComeIn' BY <1>u DEF RowInv, FillsComeIn
<1>i. write.inFlight = (write.at # "idle") /\ (basket.at # "idle" => basket.left > 0)
  BY DEF RowInv, WritesTyped
<1>1. CASE write' = Taken /\ scheduled' \in Nat /\ UNCHANGED <<basket, orderRow, behind>>
  <2>1. OrderTyped' BY <1>1, <1>u DEF RowInv, OrderTyped
  <2>2. write' \in WriteRecords /\ write'.at = "begun" /\ write'.value.lots = oms.lots /\ write'.inFlight = TRUE
    BY <1>1, BegunAt
  <2>3. WritesTyped' BY <1>1, <2>2 DEF RowInv, WritesTyped, WriteRecords
  <2>4. NothingAhead' BY <1>1, <1>t, <1>u, <2>2 DEF RowInv, NothingAhead, Behind
  <2>5. Fresh(write)' BY <1>u, <2>2 DEF Fresh, UnderWay
  <2> QED BY <1>f, <2>1, <2>3, <2>4, <2>5 DEF RowInv, RowFollows
<1>2. CASE RunTask /\ write.inFlight
  <2>1. /\ scheduled' \in Nat /\ write' = [write EXCEPT !.dirty = TRUE] /\ UNCHANGED <<basket, orderRow, behind>>
    BY <1>2, <1>t DEF RunTask
  <2>2. /\ write' \in WriteRecords /\ write'.at = write.at /\ write'.value = write.value
        /\ write'.inFlight = write.inFlight /\ write'.dirty = TRUE
    BY <1>t, <2>1 DEF WriteRecords
  <2>3. OrderTyped' BY <1>u, <2>1 DEF RowInv, OrderTyped
  <2>4. WritesTyped' BY <1>i, <2>1, <2>2 DEF RowInv, WritesTyped, WriteRecords
  <2>5. NothingAhead' BY <1>u, <2>1, <2>2 DEF RowInv, NothingAhead, Behind
  <2>6. WriteOwed' BY <1>2, <2>2 DEF WriteOwed
  <2> QED BY <1>f, <2>3, <2>4, <2>5, <2>6 DEF RowInv, RowFollows
<1>3. CASE ReadRow
  <2>1. write.at = "begun" /\ write' = Read(write) /\ UNCHANGED <<scheduled, basket, orderRow, late, behind>>
    BY <1>3 DEF ReadRow
  <2>2. PICK r : r = [status |-> IF orderRow.status \in FinalStatus THEN orderRow.status ELSE oms.status,
                      lots   |-> IF orderRow.status \in FinalStatus
                                 THEN Greater(orderRow.lots, write.value.lots) ELSE write.value.lots]
    OBVIOUS
  <2>3. write' = [write EXCEPT !.at = "read", !.value = r] BY <2>1, <2>2 DEF Read, FinalStatus
  <2>4. r \in Values /\ Behind(r) /\ r.lots <= oms.lots /\ (write.value.lots = oms.lots => UpToDate(r))
    <3>1. write.value.lots <= oms.lots BY DEF RowInv, NothingAhead
    <3>2. PICK v \in Values : v = write.value BY <1>t
    <3> QED BY <2>2, <3>1, <3>2, ReadAt
  <2>5. /\ write' \in WriteRecords /\ write'.at = "read" /\ write'.value = r /\ write'.stale = write.stale
        /\ write'.inFlight = write.inFlight /\ write'.dirty = write.dirty
    BY <1>t, <2>3, <2>4 DEF WriteRecords
  <2>6. OrderTyped' BY <1>u, <2>1 DEF RowInv, OrderTyped
  <2>7. WritesTyped' BY <1>i, <2>1, <2>5 DEF RowInv, WritesTyped, WriteRecords
  <2>8. NothingAhead' BY <1>u, <2>1, <2>4, <2>5 DEF RowInv, NothingAhead, Behind
  <2>9. RowFollows'
    <3>1. WriteOwed => WriteOwed' BY <1>u, <2>1, <2>5 DEF WriteOwed
    <3>2. Fresh(write) => Fresh(write)' BY <1>u, <2>4, <2>5 DEF Fresh, UnderWay, UpToDate
    <3>3. Fresh(basket) => Fresh(basket)' BY <1>u, <2>1 DEF Fresh, UnderWay, UpToDate
    <3>4. UpToDate(orderRow) => UpToDate(orderRow)' BY <1>u, <2>1 DEF UpToDate
    <3> QED BY <2>1, <2>5, <3>1, <3>2, <3>3, <3>4 DEF RowInv, RowFollows, UnderWay
  <2> QED BY <1>f, <2>6, <2>7, <2>8, <2>9 DEF RowInv
<1>4. CASE CommitOrder
  <2>1. /\ write.at = "read" /\ orderRow' = write.value /\ write' = Written
        /\ basket' = Overtaken(basket) /\ behind' = write.stale /\ UNCHANGED <<scheduled, late>>
    BY <1>4 DEF CommitOrder
  <2>2. /\ write' \in WriteRecords /\ write'.at = "written" /\ write'.value.lots = 0
        /\ write'.inFlight = write.inFlight /\ write'.dirty = write.dirty
    BY <1>t, <2>1 DEF Written, Idle, Unread, WriteRecords, Values
  <2>3. /\ basket' \in BasketRecords /\ basket'.at = basket.at /\ basket'.value = basket.value
        /\ basket'.left = basket.left /\ (UnderWay(basket) => basket'.stale = TRUE)
    BY <2>1, OvertakenAt
  <2>4. OrderTyped' BY <1>t, <1>u, <2>1 DEF RowInv, OrderTyped
  <2>5. WritesTyped' BY <1>i, <2>1, <2>2, <2>3 DEF RowInv, WritesTyped, WriteRecords, BasketRecords
  <2>6. NothingAhead' BY <1>t, <1>u, <2>1, <2>2, <2>3 DEF RowInv, NothingAhead, Behind
  <2>7. RowFollows'
    <3>1. WriteOwed => WriteOwed' BY <1>u, <2>1, <2>2 DEF WriteOwed
    <3>2. Fresh(write) => UpToDate(orderRow)' BY <1>u, <2>1 DEF Fresh, UpToDate
    <3>3. Fresh(basket) => Fresh(basket)' BY <1>u, <2>3 DEF Fresh, UnderWay, UpToDate
    <3>4. UnderWay(basket)' => basket'.stale BY <2>3 DEF UnderWay
    <3>5. ~UnderWay(write)' BY <2>2 DEF UnderWay
    <3>6. UnderWay(write) BY <2>1 DEF UnderWay
    <3>7. (UnderWay(write) => write.stale) => behind' BY <2>1, <3>6
    <3> QED BY <3>1, <3>2, <3>3, <3>4, <3>5, <3>7 DEF RowInv, RowFollows
  <2> QED BY <1>f, <2>4, <2>5, <2>6, <2>7 DEF RowInv
<1>5. CASE CheckDirty /\ ~write.dirty
  <2>1. write.at = "written" /\ write' = [Idle(write) EXCEPT !.inFlight = FALSE]
          /\ UNCHANGED <<scheduled, basket, orderRow, late, behind>>
    BY <1>5 DEF CheckDirty
  <2>2. /\ write' \in WriteRecords /\ write'.at = "idle" /\ write'.value.lots = 0 /\ write'.inFlight = FALSE
    BY <1>t, <2>1 DEF Idle, Unread, WriteRecords, Values
  <2>3. OrderTyped' BY <1>u, <2>1 DEF RowInv, OrderTyped
  <2>4. WritesTyped' BY <1>i, <2>1, <2>2 DEF RowInv, WritesTyped, WriteRecords
  <2>5. NothingAhead' BY <1>t, <1>u, <2>1, <2>2 DEF RowInv, NothingAhead, Behind
  <2>6. RowFollows'
    <3>1. WriteOwed => WriteOwed' BY <1>5, <1>u, <2>1 DEF WriteOwed
    <3>2. ~Fresh(write) BY <2>1 DEF Fresh, UnderWay
    <3>3. Fresh(basket) => Fresh(basket)' BY <1>u, <2>1 DEF Fresh, UnderWay, UpToDate
    <3>4. UpToDate(orderRow) => UpToDate(orderRow)' BY <1>u, <2>1 DEF UpToDate
    <3>5. ~UnderWay(write)' BY <2>2 DEF UnderWay
    <3> QED BY <2>1, <3>1, <3>2, <3>3, <3>4, <3>5 DEF RowInv, RowFollows, UnderWay
  <2> QED BY <1>f, <2>3, <2>4, <2>5, <2>6 DEF RowInv
<1>6. CASE WriteFails
  <2>1. /\ write.at = "read" /\ write' = [Idle(write) EXCEPT !.inFlight = FALSE]
        /\ basket' = Overtaken(basket) /\ behind' = TRUE /\ UNCHANGED <<scheduled, orderRow, late>>
    BY <1>6 DEF WriteFails
  <2>2. write' \in WriteRecords /\ write'.at = "idle" /\ write'.value.lots = 0 /\ write'.inFlight = FALSE
    BY <1>t, <2>1 DEF Idle, Unread, WriteRecords, Values
  <2>3. /\ basket' \in BasketRecords /\ basket'.at = basket.at /\ basket'.value = basket.value
        /\ basket'.left = basket.left /\ (UnderWay(basket) => basket'.stale = TRUE)
    BY <2>1, OvertakenAt
  <2>4. OrderTyped' BY <1>u, <2>1 DEF RowInv, OrderTyped
  <2>5. WritesTyped' BY <1>i, <2>1, <2>2, <2>3 DEF RowInv, WritesTyped, WriteRecords, BasketRecords
  <2>6. NothingAhead' BY <1>t, <1>u, <2>1, <2>2, <2>3 DEF RowInv, NothingAhead, Behind
  <2>7. RowFollows' BY <2>1, <2>2, <2>3 DEF RowFollows, UnderWay
  <2> QED BY <1>f, <2>4, <2>5, <2>6, <2>7 DEF RowInv
<1>7. CASE RunTask /\ ~write.inFlight
  BY <1>1, <1>7, <1>t DEF RunTask
<1>8. CASE CheckDirty /\ write.dirty
  BY <1>1, <1>8, <1>t DEF CheckDirty
<1> QED BY <1>2, <1>3, <1>4, <1>5, <1>6, <1>7, <1>8
(* The basket's own writes.                                                *)
LEMMA BasketKeeps ==
  ASSUME RowInv, BasketBegins \/ BasketReads \/ BasketCommits
  PROVE  RowInv'
<1>t. /\ write \in WriteRecords /\ basket \in BasketRecords /\ orderRow \in Values
      /\ oms.lots \in Nat /\ write.value \in Values /\ basket.value \in Values /\ scheduled \in Nat
  BY WritersTyped
<1>u. UNCHANGED <<broker, due, online, oms, emitted, scheduled>>
  BY DEF BasketBegins, BasketReads, BasketCommits
<1>f. FillsComeIn' BY <1>u DEF RowInv, FillsComeIn
<1>i. write.inFlight = (write.at # "idle") /\ (basket.at # "idle" => basket.left > 0)
  BY DEF RowInv, WritesTyped
<1>1. CASE BasketBegins
  <2>1. basket.left > 0 /\ basket' = Begun(basket) /\ UNCHANGED <<write, orderRow, behind>>
    BY <1>1 DEF BasketBegins
  <2>2. basket' \in BasketRecords /\ basket'.at = "begun" /\ basket'.value.lots = oms.lots
          /\ basket'.left = basket.left
    BY <2>1, BegunAt
  <2>3. OrderTyped' BY <1>u, <2>1 DEF RowInv, OrderTyped
  <2>4. WritesTyped' BY <2>1, <2>2 DEF RowInv, WritesTyped, BasketRecords
  <2>5. NothingAhead' BY <1>t, <1>u, <2>1, <2>2 DEF RowInv, NothingAhead, Behind
  <2>6. Fresh(basket)' BY <1>u, <2>2 DEF Fresh, UnderWay
  <2> QED BY <1>f, <2>3, <2>4, <2>5, <2>6 DEF RowInv, RowFollows
<1>2. CASE BasketReads
  <2>1. basket.at = "begun" /\ basket' = Read(basket) /\ UNCHANGED <<write, orderRow, late, behind>>
    BY <1>2 DEF BasketReads
  <2>2. PICK r : r = [status |-> IF orderRow.status \in FinalStatus THEN orderRow.status ELSE oms.status,
                      lots   |-> IF orderRow.status \in FinalStatus
                                 THEN Greater(orderRow.lots, basket.value.lots) ELSE basket.value.lots]
    OBVIOUS
  <2>3. basket' = [basket EXCEPT !.at = "read", !.value = r] BY <2>1, <2>2 DEF Read, FinalStatus
  <2>4. r \in Values /\ Behind(r) /\ r.lots <= oms.lots /\ (basket.value.lots = oms.lots => UpToDate(r))
    <3>1. basket.value.lots <= oms.lots BY DEF RowInv, NothingAhead
    <3>2. PICK v \in Values : v = basket.value BY <1>t
    <3> QED BY <2>2, <3>1, <3>2, ReadAt
  <2>5. /\ basket' \in BasketRecords /\ basket'.at = "read" /\ basket'.value = r
        /\ basket'.stale = basket.stale /\ basket'.left = basket.left
    BY <1>t, <2>3, <2>4 DEF BasketRecords
  <2>6. OrderTyped' BY <1>u, <2>1 DEF RowInv, OrderTyped
  <2>7. WritesTyped' BY <1>i, <2>1, <2>5 DEF RowInv, WritesTyped, BasketRecords
  <2>8. NothingAhead' BY <1>u, <2>1, <2>4, <2>5 DEF RowInv, NothingAhead, Behind
  <2>9. RowFollows'
    <3>1. WriteOwed => WriteOwed' BY <1>u, <2>1 DEF WriteOwed
    <3>2. Fresh(basket) => Fresh(basket)' BY <1>u, <2>4, <2>5 DEF Fresh, UnderWay, UpToDate
    <3>3. Fresh(write) => Fresh(write)' BY <1>u, <2>1 DEF Fresh, UnderWay, UpToDate
    <3>4. UpToDate(orderRow) => UpToDate(orderRow)' BY <1>u, <2>1 DEF UpToDate
    <3> QED BY <2>1, <2>5, <3>1, <3>2, <3>3, <3>4 DEF RowInv, RowFollows, UnderWay
  <2> QED BY <1>f, <2>6, <2>7, <2>8, <2>9 DEF RowInv
<1>3. CASE BasketCommits
  <2>1. /\ basket.at = "read" /\ orderRow' = basket.value /\ basket' = [Idle(basket) EXCEPT !.left = basket.left - 1]
        /\ write' = Overtaken(write) /\ behind' = basket.stale /\ UNCHANGED late
    BY <1>3, <1>t DEF BasketCommits, Idle, BasketRecords
  <2>2. basket' \in BasketRecords /\ basket'.at = "idle" /\ basket'.value.lots = 0
    <3>1. basket.left - 1 \in Nat BY <1>i, <1>t, <2>1 DEF BasketRecords
    <3> QED BY <1>t, <2>1, <3>1 DEF Idle, Unread, BasketRecords, Values
  <2>3. /\ write' \in WriteRecords /\ write'.at = write.at /\ write'.value = write.value
        /\ write'.inFlight = write.inFlight /\ write'.dirty = write.dirty
        /\ UnderWay(write) => write'.stale = TRUE
    BY <2>1, OvertakenAt
  <2>4. OrderTyped' BY <1>t, <1>u, <2>1 DEF RowInv, OrderTyped
  <2>5. WritesTyped' BY <1>i, <2>2, <2>3 DEF RowInv, WritesTyped, WriteRecords, BasketRecords
  <2>6. NothingAhead' BY <1>t, <1>u, <2>1, <2>2, <2>3 DEF RowInv, NothingAhead, Behind
  <2>7. RowFollows'
    <3>1. WriteOwed => WriteOwed' BY <1>u, <2>1, <2>3 DEF WriteOwed
    <3>2. Fresh(basket) => UpToDate(orderRow)' BY <1>u, <2>1 DEF Fresh, UpToDate
    <3>3. Fresh(write) => Fresh(write)' BY <1>u, <2>3 DEF Fresh, UnderWay, UpToDate
    <3>4. UnderWay(write)' => write'.stale BY <2>3 DEF UnderWay
    <3>5. ~UnderWay(basket)' BY <2>2 DEF UnderWay
    <3>6. UnderWay(basket) BY <2>1 DEF UnderWay
    <3>7. (UnderWay(basket) => basket.stale) => behind' BY <2>1, <3>6
    <3> QED BY <3>1, <3>2, <3>3, <3>4, <3>5, <3>7 DEF RowInv, RowFollows
  <2> QED BY <1>f, <2>4, <2>5, <2>6, <2>7 DEF RowInv
<1> QED BY <1>1, <1>2, <1>3

LEMMA RowStep == RowInv /\ [Next]_vars => RowInv'
<1> SUFFICES ASSUME RowInv, [Next]_vars PROVE RowInv'
  OBVIOUS
<1>b. broker \in [lots : 0 .. Lots, state : {"working", "filled", "cancelled"}] /\ broker.lots \in Nat
  <2>1. broker \in [lots : 0 .. Lots, state : {"working", "filled", "cancelled"}] BY DEF RowInv, OrderTyped
  <2>2. broker.lots \in 0 .. Lots BY <2>1
  <2> QED BY <2>1, <2>2, OrderRowAssumption
<1>1. CASE BrokerCancels
  <2>1. PICK ms : ms = {Status("CANCELLED", broker.lots), ErrorOf("CANCELLED")} OBVIOUS
  <2>2. ms \in SUBSET BrokerMsgs /\ \A m \in ms : m.lots = broker.lots /\ m.kind # "exec" /\ m.st # "FILLED"
    <3>1. /\ Status("CANCELLED", broker.lots) \in BrokerMsgs /\ Status("CANCELLED", broker.lots).lots = broker.lots
          /\ Status("CANCELLED", broker.lots).kind = "status" /\ Status("CANCELLED", broker.lots).st = "CANCELLED"
      BY <1>b DEF Status, BrokerMsgs
    <3>2. /\ ErrorOf("CANCELLED") \in BrokerMsgs /\ ErrorOf("CANCELLED").lots = broker.lots
          /\ ErrorOf("CANCELLED").kind = "error" /\ ErrorOf("CANCELLED").st = "CANCELLED"
      BY <1>b DEF ErrorOf, BrokerMsgs
    <3> QED BY <2>1, <3>1, <3>2
  <2>3. Send(ms) /\ UNCHANGED <<online, oms, emitted, scheduled, write, basket, orderRow, late, behind>>
    BY <1>1, <2>1 DEF BrokerCancels
  <2>4. /\ broker' \in [lots : 0 .. Lots, state : {"working", "filled", "cancelled"}]
        /\ broker'.lots = broker.lots /\ broker'.state # "working"
    BY <1>1, <1>b DEF BrokerCancels
  <2> QED BY <2>2, <2>3, <2>4, BrokerSaysKeeps
<1>2. CASE BrokerRefusesCancel
  <2>1. PICK ms : ms = {ErrorOf("REJECTED")} OBVIOUS
  <2>2. ms \in SUBSET BrokerMsgs /\ \A m \in ms : m.lots = broker.lots /\ m.kind # "exec" /\ m.st # "FILLED"
    <3>1. /\ ErrorOf("REJECTED") \in BrokerMsgs /\ ErrorOf("REJECTED").lots = broker.lots
          /\ ErrorOf("REJECTED").kind = "error" /\ ErrorOf("REJECTED").st = "REJECTED"
      BY <1>b DEF ErrorOf, BrokerMsgs
    <3> QED BY <2>1, <3>1
  <2>3. Send(ms) /\ UNCHANGED <<broker, online, oms, emitted, scheduled, write, basket, orderRow, late, behind>>
    BY <1>2, <2>1 DEF BrokerRefusesCancel
  <2> QED BY <1>b, <2>2, <2>3, BrokerSaysKeeps
<1>3. CASE UNCHANGED orderVars
  BY <1>3
  DEF orderVars, RowInv, OrderTyped, WritesTyped, FillsComeIn, NothingAhead, Behind, RowFollows, WriteOwed,
      Fresh, UnderWay, UpToDate
<1> QED
  BY <1>1, <1>2, <1>3, BrokerFillsKeeps, StatusKeeps, ExecKeeps, CommissionKeeps, ErrorKeeps, ParkKeeps,
     UnparkKeeps, CoalescerKeeps, BasketKeeps
  DEF Next, OrderRowNext, vars

(* When nothing is left to run, the row of an order has every fill the     *)
(* adapter has heard of and the end of a filled order, for every quantity, *)
(* every interleaving of callbacks with the two writers and every number   *)
(* of drops and failed writes, save the excused cases.                     *)
THEOREM RowKnows == Spec => []RowKnowsFills
<1>1. Init => RowInv BY RowStart DEF Init
<1>2. ASSUME RowInv PROVE RowKnowsFills
  <2>1. SUFFICES ASSUME online, basket.left = 0, due = {}, scheduled = 0, ~write.inFlight, ~late, ~behind
                 PROVE  UpToDate(orderRow)
    BY DEF RowKnowsFills, UpToDate
  <2>2. write.at = "idle" /\ basket.at = "idle"
    <3>1. write.inFlight = (write.at # "idle") BY <1>2 DEF RowInv, WritesTyped
    <3>2. write.at = "idle" BY <2>1, <3>1
    <3>3. basket.at # "idle" => basket.left > 0 BY <1>2 DEF RowInv, WritesTyped
    <3>4. basket.at = "idle" BY <2>1, <3>3
    <3> QED BY <3>2, <3>4
  <2>3. ~Unsaid
    <3>1. SUFFICES ASSUME oms.execs # {} PROVE oms.lots \in oms.execs
      BY DEF Unsaid
    <3>2. /\ oms.lots \in Nat /\ oms.lots <= broker.lots /\ broker.lots \in 0 .. Lots
          /\ \A n \in oms.execs : n \in 1 .. oms.lots
          /\ \A n \in 1 .. broker.lots : n \in oms.execs
      BY <1>2, <2>1 DEF RowInv, OrderTyped, OmsRecords, FillsComeIn
    <3>3. oms.lots \in 1 .. broker.lots
      <4>1. PICK n : n \in oms.execs BY <3>1
      <4>2. n \in 1 .. oms.lots BY <3>2, <4>1
      <4> QED BY <3>2, <4>2, OrderRowAssumption
    <3> QED BY <3>2, <3>3
  <2>4. ~WriteOwed BY <2>1, <2>3 DEF WriteOwed, Unsaid
  <2> QED BY <1>2, <2>1, <2>2, <2>4 DEF RowInv, RowFollows, Fresh, UnderWay
<1> QED BY <1>1, <1>2, RowStep, PTL DEF Spec
----------------------------------------------------------------------------
(* The account summary.  Every start leaves at most one subscription, and  *)
(* a refresh that overlaps nobody cancels one before it makes one: with    *)
(* the threads that are still to send theirs, the subscriptions are no     *)
(* more than the starts.  So a request is turned down only when there have *)
(* been too many starts, and lost only on a connection the reconnect       *)
(* thread is about to report, which makes for a new start.                 *)

Asking == {t \in Threads : doing[t] \in {"acquiring", "sending"}}

Unspoiled == ~crossed /\ starts <= Served

MarginTyped ==
  /\ doing \in [Threads -> {"idle", "checked", "acquiring", "sending", "spawning", "asleep", "cancelling"}]
  /\ mine \in [Threads -> Nat] /\ started \in BOOLEAN /\ crossed \in BOOLEAN
  /\ active \in Nat /\ nextReq \in Nat /\ starts \in Nat /\ IsFiniteSet(subs) /\ Cardinality(subs) <= Served

Counted == ~crossed => Cardinality(subs) + Cardinality(Asking) <= starts

(* Without the reader's handshake there is nobody at work, save over a     *)
(* socket that the reconnect thread has put in the place of a live one.    *)
AtWorkOnline ==
  ~crossed /\ (Busy # {} \/ started) => sock = "ready" \/ (sock = "open" /\ at.loop = "wait")

CancelsOne ==
  ~crossed => \A r \in Refreshers : doing[r] = "cancelling" =>
    /\ Asking = {} /\ starts > 0 /\ \A q \in Refreshers : doing[q] = "cancelling" => q = r
    /\ mine[r] \in subs \/ Cardinality(subs) < starts

AboutToAsk(t) ==
  doing[t] \in {"acquiring", "cancelling"} \/ (doing[t] = "sending" /\ mine[t] = active)

ToBeRestored == at.loop \in {"wait", "restored"}

SeesToActive ==
  \/ active \in subs
  \/ \E t \in Threads : AboutToAsk(t)
  \/ ToBeRestored /\ Cardinality(subs) + Cardinality(Asking) < starts

ActiveIsServed == started /\ Unspoiled => SeesToActive

MarginInv ==
  client = "margin" =>
    /\ MarginTyped /\ (started => starts > 0)
    /\ Counted /\ AtWorkOnline /\ CancelsOne /\ ActiveIsServed

LEMMA ThreadsFinite == IsFiniteSet(Threads) /\ \A S \in SUBSET Threads : IsFiniteSet(S)
<1>1. IsFiniteSet({}) BY FS_EmptySet
<1>2. IsFiniteSet({} \cup {"main"}) BY <1>1, FS_AddElement
<1>3. IsFiniteSet(({} \cup {"main"}) \cup {"reader"}) BY <1>2, FS_AddElement
<1>4. IsFiniteSet((({} \cup {"main"}) \cup {"reader"}) \cup {"loop"}) BY <1>3, FS_AddElement
<1>5. Starters = (({} \cup {"main"}) \cup {"reader"}) \cup {"loop"} BY DEF Starters
<1>6. IsFiniteSet(Starters) BY <1>4, <1>5
<1>7. IsFiniteSet(Starters \cup Refreshers) BY <1>6, MarginAssumption, FS_Union
<1>8. IsFiniteSet(Threads) BY <1>7 DEF Threads
<1> QED BY <1>8, FS_Subset

LEMMA Counts ==
  ASSUME MarginTyped
  PROVE  IsFiniteSet(Asking) /\ Cardinality(Asking) \in Nat /\ Cardinality(subs) \in Nat /\ starts \in Nat
<1>1. IsFiniteSet(Asking) BY ThreadsFinite DEF Asking
<1>2. IsFiniteSet(subs) /\ starts \in Nat BY DEF MarginTyped
<1> QED BY <1>1, <1>2, FS_CardinalityType

LEMMA MarginStart == SessionInit /\ MarginInit => MarginInv
<1> SUFFICES ASSUME SessionInit, MarginInit PROVE MarginInv
  OBVIOUS
<1>1. /\ doing = [t \in Threads |-> "idle"] /\ mine = [t \in Threads |-> 0]
      /\ started = FALSE /\ active = 0 /\ nextReq = 1 /\ subs = {} /\ starts = 0 /\ crossed = FALSE
  BY DEF MarginInit
<1>2. MarginTyped
  <2>1. IsFiniteSet(subs) /\ Cardinality(subs) <= Served BY <1>1, FS_EmptySet, MarginAssumption
  <2> QED BY <1>1, <2>1 DEF MarginTyped
<1>3. Asking = {} /\ Busy = {} BY <1>1 DEF Asking, Busy
<1>4. Counted BY <1>1, <1>3, FS_EmptySet DEF Counted
<1>5. CancelsOne BY <1>1 DEF CancelsOne, Threads
<1> QED BY <1>1, <1>2, <1>3, <1>4, <1>5 DEF MarginInv, AtWorkOnline, ActiveIsServed

(* The session's own steps, and the callbacks that lead to a start.        *)
LEMMA ListenersKeep ==
  ASSUME MarginInv, client = "margin", UNCHANGED client, NEW t \in Starters,
         doing' = doing \/ (Enter(t) /\ sock' = "ready"),
         UNCHANGED <<mine, active, nextReq, subs, starts, crossed>>,
         started' = started \/ started' = FALSE,
         sock' = sock \/ sock' = "ready",
         sock' = "open" /\ at.loop = "wait" => at'.loop = "wait",
         started' /\ ToBeRestored => ToBeRestored'
  PROVE  MarginInv'
<1> USE DEF MarginInv
<1>t. t \in Threads BY DEF Threads
<1>1. \/ doing' = doing
      \/ /\ doing' = [doing EXCEPT ![t] = "checked"] /\ doing[t] = "idle" /\ sock' = "ready"
  <2>1. CASE doing' = doing BY <2>1
  <2>2. CASE Enter(t) /\ sock' = "ready"
    <3>1. CASE doing[t] = "idle" BY <2>2, <3>1 DEF Enter
    <3>2. CASE doing[t] # "idle" BY <1>t, <2>2, <3>2 DEF Enter, MarginTyped
    <3> QED BY <3>1, <3>2
  <2> QED BY <2>1, <2>2
<1>2. MarginTyped' BY <1>1 DEF MarginTyped
<1>3. \A u \in Threads : doing'[u] = doing[u] \/ (doing'[u] = "checked" /\ doing[u] = "idle" /\ sock' = "ready")
  BY <1>1, <1>t DEF MarginTyped
<1>4. Asking' = Asking BY <1>3 DEF Asking
<1>5. Busy' = Busy \/ sock' = "ready" BY <1>3 DEF Busy
<1>6. Counted' BY <1>4 DEF Counted
<1>7. AtWorkOnline' BY <1>5 DEF AtWorkOnline
<1>8. CancelsOne' BY <1>3, <1>4 DEF CancelsOne, Threads
<1>9. ActiveIsServed'
  <2> SUFFICES ASSUME started', Unspoiled' PROVE SeesToActive'
    BY DEF ActiveIsServed
  <2>1. started /\ Unspoiled BY DEF Unspoiled
  <2>2. CASE active \in subs BY <2>2 DEF SeesToActive
  <2>3. ASSUME NEW u \in Threads, AboutToAsk(u) PROVE AboutToAsk(u)'
    BY <1>3, <2>3 DEF AboutToAsk
  <2>4. CASE ToBeRestored /\ Cardinality(subs) + Cardinality(Asking) < starts
    BY <1>3, <1>4, <2>1, <2>4 DEF SeesToActive
  <2> QED BY <2>1, <2>2, <2>3, <2>4 DEF ActiveIsServed, SeesToActive
<1> QED BY <1>2, <1>6, <1>7, <1>8, <1>9

LEMMA MarginClosedKeeps ==
  ASSUME MarginInv, client = "margin", UNCHANGED client, MarginOnClosed
  PROVE  MarginInv'
<1> USE DEF MarginInv
<1>1. /\ doing' = doing /\ mine' = mine /\ nextReq' = nextReq
      /\ active' = 0 /\ started' = FALSE /\ subs' = {} /\ starts' = 0 /\ crossed' = (Busy # {})
  BY DEF MarginOnClosed
<1>2. MarginTyped'
  <2>1. IsFiniteSet(subs') /\ Cardinality(subs') <= Served BY <1>1, FS_EmptySet, MarginAssumption
  <2>2. crossed' \in BOOLEAN BY <1>1
  <2> QED BY <1>1, <2>1, <2>2 DEF MarginTyped
<1>3. Asking' \subseteq Busy /\ Busy' = Busy BY <1>1 DEF Asking, Busy
<1>4. ~crossed' => Busy = {} /\ Asking' = {} BY <1>1, <1>3
<1>5. Counted' BY <1>1, <1>4, FS_EmptySet DEF Counted
<1>6. CancelsOne'
  <2>1. SUFFICES ASSUME ~crossed', NEW r \in Refreshers, doing'[r] = "cancelling" PROVE FALSE
    BY DEF CancelsOne
  <2>2. r \in Busy BY <1>1, <2>1 DEF Busy, Threads
  <2> QED BY <1>4, <2>1, <2>2
<1> QED BY <1>1, <1>2, <1>3, <1>4, <1>5, <1>6 DEF AtWorkOnline, ActiveIsServed

LEMMA MarginConnectKeeps ==
  ASSUME SessionInv, MarginInv, client = "margin", UNCHANGED client, NEW t \in {"main", "loop"},
         Connect(t), subs' = {},
         UNCHANGED <<doing, mine, started, active, nextReq, starts, crossed>>
  PROVE  MarginInv'
<1> USE DEF MarginInv
<1>1. sock' = "open" /\ at' = [at EXCEPT ![t] = "wait"] /\ Begins(t) /\ at \in Places
  BY DEF Connect, SessionInv
<1>2. MarginTyped' BY FS_EmptySet, MarginAssumption DEF MarginTyped
<1>3. Asking' = Asking /\ Busy' = Busy BY DEF Asking, Busy
<1>4. /\ Cardinality(subs) \in Nat /\ Cardinality(subs') = 0 /\ Cardinality(Asking) \in Nat /\ starts \in Nat
      /\ Cardinality(subs') <= Cardinality(subs)
  BY Counts, FS_EmptySet
<1>5. Counted' BY <1>3, <1>4 DEF Counted
<1>6. at'.loop = "wait" \/ (~crossed => Busy = {} /\ ~started)
  <2>1. CASE t = "loop" BY <1>1, <2>1 DEF Places
  <2>2. CASE t = "main"
    <3>1. sock = "closed" BY <1>1, <2>2 DEF Begins, SessionInv
    <3> QED BY <3>1 DEF AtWorkOnline
  <2> QED BY <2>1, <2>2
<1>7. AtWorkOnline' BY <1>1, <1>3, <1>6 DEF AtWorkOnline
<1>8. CancelsOne' BY <1>3, <1>4 DEF CancelsOne
<1>9. ActiveIsServed'
  <2> SUFFICES ASSUME started', Unspoiled' PROVE SeesToActive'
    BY DEF ActiveIsServed
  <2>1. started /\ Unspoiled /\ ~crossed BY DEF Unspoiled
  <2>2. ToBeRestored' BY <1>6, <2>1 DEF ToBeRestored
  <2>3. CASE active \in subs
    <3>1. Cardinality(subs) # 0 BY <2>3, FS_EmptySet DEF MarginTyped
    <3>2. Cardinality(subs) + Cardinality(Asking) <= starts BY <2>1 DEF Counted
    <3>3. Cardinality(subs') + Cardinality(Asking') < starts' BY <1>3, <1>4, <3>1, <3>2
    <3> QED BY <2>2, <3>3 DEF SeesToActive
  <2>4. ASSUME NEW u \in Threads, AboutToAsk(u) PROVE AboutToAsk(u)'
    BY <2>4 DEF AboutToAsk
  <2>5. CASE Cardinality(subs) + Cardinality(Asking) < starts
    <3>1. Cardinality(subs') + Cardinality(Asking') < starts' BY <1>3, <1>4, <2>5
    <3> QED BY <2>2, <3>1 DEF SeesToActive
  <2> QED BY <2>1, <2>3, <2>4, <2>5 DEF ActiveIsServed, SeesToActive
<1> QED BY <1>2, <1>5, <1>7, <1>8, <1>9

(* One thread goes from one place to another.                              *)
LEMMA ThreadMoves ==
  ASSUME MarginTyped, NEW t \in Threads, NEW p, doing' = [doing EXCEPT ![t] = p]
  PROVE  /\ \A u \in Threads : doing'[u] = IF u = t THEN p ELSE doing[u]
         /\ Asking' = IF p \in {"acquiring", "sending"} THEN Asking \cup {t} ELSE Asking \ {t}
<1>1. \A u \in Threads : doing'[u] = IF u = t THEN p ELSE doing[u]
  BY DEF MarginTyped
<1>2. CASE p \in {"acquiring", "sending"}
  <2>1. \A u \in Threads : u \in Asking' <=> u \in Asking \cup {t} BY <1>1, <1>2 DEF Asking
  <2> QED BY <1>1, <1>2, <2>1 DEF Asking
<1>3. CASE p \notin {"acquiring", "sending"}
  <2>1. \A u \in Threads : u \in Asking' <=> u \in Asking \ {t} BY <1>1, <1>3 DEF Asking
  <2> QED BY <1>1, <1>3, <2>1 DEF Asking
<1> QED BY <1>1, <1>2, <1>3

LEMMA StartSetsKeeps ==
  ASSUME MarginInv, client = "margin", UNCHANGED <<client, sock, at>>, NEW t \in Threads, StartSets(t)
  PROVE  MarginInv'
<1> USE DEF MarginInv
<1>1. /\ doing[t] = "checked" /\ started' = TRUE /\ doing' = [doing EXCEPT ![t] = "acquiring"]
      /\ crossed' = (crossed \/ Busy \cap Refreshers # {}) /\ starts' = starts + 1
      /\ UNCHANGED <<mine, active, nextReq, subs>>
  BY DEF StartSets
<1>2. /\ \A u \in Threads : doing'[u] = IF u = t THEN "acquiring" ELSE doing[u]
      /\ Asking' = Asking \cup {t}
  BY <1>1, ThreadMoves DEF MarginTyped
<1>3. t \notin Asking BY <1>1 DEF Asking
<1>4. Cardinality(Asking') = Cardinality(Asking) + 1
  BY <1>2, <1>3, Counts, FS_AddElement
<1>5. MarginTyped' /\ (started' => starts' > 0) BY <1>1, <1>2 DEF MarginTyped
<1>6. Counted'
  <2>1. Cardinality(Asking) \in Nat /\ Cardinality(subs') \in Nat /\ starts \in Nat /\ Cardinality(subs') = Cardinality(subs)
    BY <1>1, Counts
  <2>2. ~crossed' => ~crossed BY <1>1
  <2> QED BY <1>1, <1>4, <2>1, <2>2 DEF Counted
<1>7. AtWorkOnline'
  <2>1. t \in Busy BY <1>1 DEF Busy
  <2> QED BY <1>1, <2>1 DEF AtWorkOnline, MarginTyped
<1>8. CancelsOne'
  <2>1. SUFFICES ASSUME ~crossed', NEW r \in Refreshers, doing'[r] = "cancelling" PROVE FALSE
    BY DEF CancelsOne
  <2>2. r \in Threads /\ doing[r] = "cancelling" BY <1>2, <2>1 DEF Threads
  <2>3. r \in Busy BY <2>2 DEF Busy
  <2> QED BY <1>1, <2>1, <2>3
<1>9. ActiveIsServed'
  <2>1. AboutToAsk(t)' BY <1>2 DEF AboutToAsk
  <2> QED BY <2>1 DEF ActiveIsServed, SeesToActive
<1> QED BY <1>5, <1>6, <1>7, <1>8, <1>9

LEMMA NumberKeeps ==
  ASSUME MarginInv, client = "margin", UNCHANGED <<client, sock, at>>, NEW t \in Threads, RequestNumber(t)
  PROVE  MarginInv'
<1> USE DEF MarginInv
<1>1. /\ doing[t] = "acquiring" /\ active' = nextReq /\ nextReq' = nextReq + 1
      /\ mine' = [mine EXCEPT ![t] = nextReq] /\ doing' = [doing EXCEPT ![t] = "sending"]
      /\ UNCHANGED <<started, subs, starts, crossed>>
  BY DEF RequestNumber
<1>2. /\ \A u \in Threads : doing'[u] = IF u = t THEN "sending" ELSE doing[u]
      /\ Asking' = Asking \cup {t}
  BY <1>1, ThreadMoves DEF MarginTyped
<1>3. t \in Asking /\ Asking' = Asking BY <1>1, <1>2 DEF Asking
<1>4. MarginTyped' BY <1>1 DEF MarginTyped
<1>5. mine'[t] = active' BY <1>1 DEF MarginTyped
<1>6. Counted' BY <1>1, <1>3 DEF Counted
<1>7. AtWorkOnline'
  <2>1. t \in Busy BY <1>1 DEF Busy
  <2> QED BY <1>1, <2>1 DEF AtWorkOnline
<1>8. CancelsOne'
  <2>1. SUFFICES ASSUME ~crossed', NEW r \in Refreshers, doing'[r] = "cancelling" PROVE FALSE
    BY DEF CancelsOne
  <2>2. doing[r] = "cancelling" BY <1>2, <2>1 DEF Threads
  <2> QED BY <1>1, <1>3, <2>1, <2>2 DEF CancelsOne
<1>9. ActiveIsServed'
  <2>1. AboutToAsk(t)' BY <1>2, <1>5 DEF AboutToAsk
  <2> QED BY <2>1 DEF ActiveIsServed, SeesToActive
<1> QED BY <1>1, <1>4, <1>6, <1>7, <1>8, <1>9

LEMMA SendKeeps ==
  ASSUME MarginInv, client = "margin", UNCHANGED <<client, sock, at>>, NEW t \in Threads, RequestSend(t)
  PROVE  MarginInv'
<1> USE DEF MarginInv
<1>1. /\ doing[t] = "sending"
      /\ subs' = IF sock = "ready" /\ Cardinality(subs) < Served THEN subs \cup {mine[t]} ELSE subs
      /\ mine' = [mine EXCEPT ![t] = 0]
      /\ UNCHANGED <<started, active, nextReq, starts, crossed>>
  BY DEF RequestSend
<1>2. PICK p \in {"spawning", "asleep"} : doing' = [doing EXCEPT ![t] = p]
  BY DEF RequestSend, After
<1>3. /\ \A u \in Threads : doing'[u] = IF u = t THEN p ELSE doing[u]
      /\ Asking' = Asking \ {t}
  BY <1>2, ThreadMoves DEF MarginTyped
<1>4. t \in Asking BY <1>1 DEF Asking
<1>5. Cardinality(Asking') = Cardinality(Asking) - 1
  BY <1>3, <1>4, Counts, FS_RemoveElement
<1>6. /\ IsFiniteSet(subs') /\ Cardinality(subs') \in Nat
      /\ Cardinality(subs') <= Cardinality(subs) + 1 /\ subs \subseteq subs'
  <2>1. IsFiniteSet(subs) BY DEF MarginTyped
  <2>2. /\ IsFiniteSet(subs \cup {mine[t]})
        /\ Cardinality(subs \cup {mine[t]}) = IF mine[t] \in subs THEN Cardinality(subs) ELSE Cardinality(subs) + 1
    BY <2>1, FS_AddElement
  <2>3. Cardinality(subs) \in Nat BY Counts
  <2> QED BY <1>1, <2>1, <2>2, <2>3
<1>7. MarginTyped'
  <2>1. Cardinality(subs') <= Served
    <3>1. Served \in Nat /\ Cardinality(subs) \in Nat BY MarginAssumption, Counts
    <3>2. CASE sock = "ready" /\ Cardinality(subs) < Served BY <1>6, <3>1, <3>2
    <3>3. CASE ~(sock = "ready" /\ Cardinality(subs) < Served)
      <4>1. subs' = subs BY <1>1, <3>3
      <4> QED BY <4>1 DEF MarginTyped
    <3> QED BY <3>2, <3>3
  <2> QED BY <1>1, <1>2, <1>6, <2>1 DEF MarginTyped
<1>8. /\ Cardinality(Asking) \in Nat /\ Cardinality(subs) \in Nat /\ starts \in Nat
      /\ Cardinality(Asking) # 0
  BY <1>4, Counts, FS_EmptySet
<1>9. Counted' BY <1>1, <1>5, <1>6, <1>8 DEF Counted
<1>10. t \in Busy BY <1>1 DEF Busy
<1>11. AtWorkOnline' BY <1>1, <1>10 DEF AtWorkOnline
<1>12. CancelsOne'
  <2>1. SUFFICES ASSUME ~crossed', NEW r \in Refreshers, doing'[r] = "cancelling" PROVE FALSE
    BY DEF CancelsOne
  <2>2. doing[r] = "cancelling" BY <1>2, <1>3, <2>1 DEF Threads
  <2> QED BY <1>1, <1>4, <2>1, <2>2 DEF CancelsOne
<1>13. ActiveIsServed'
  <2> SUFFICES ASSUME started', Unspoiled' PROVE SeesToActive'
    BY DEF ActiveIsServed
  <2>1. started /\ Unspoiled /\ ~crossed /\ starts <= Served BY <1>1 DEF Unspoiled
  <2>2. Cardinality(subs) + Cardinality(Asking) <= starts BY <2>1 DEF Counted
  <2>3. CASE sock = "ready"
    <3>1. subs' = subs \cup {mine[t]}
      <4>1. Served \in Nat BY MarginAssumption
      <4>2. Cardinality(subs) < Served BY <1>8, <2>1, <2>2, <4>1
      <4> QED BY <1>1, <2>3, <4>2
    <3>2. CASE active \in subs BY <1>1, <1>6, <3>2 DEF SeesToActive
    <3>3. ASSUME NEW u \in Threads, AboutToAsk(u) PROVE SeesToActive'
      <4>1. CASE u = t BY <1>1, <3>1, <3>3, <4>1 DEF AboutToAsk, SeesToActive
      <4>2. CASE u # t
        <5>1. AboutToAsk(u)' BY <1>1, <1>3, <3>3, <4>2 DEF AboutToAsk, MarginTyped
        <5> QED BY <5>1 DEF SeesToActive
      <4> QED BY <4>1, <4>2
    <3>4. CASE ToBeRestored /\ Cardinality(subs) + Cardinality(Asking) < starts
      <4>1. Cardinality(subs') + Cardinality(Asking') < starts' BY <1>1, <1>5, <1>6, <1>8, <3>4
      <4> QED BY <3>4, <4>1 DEF SeesToActive, ToBeRestored
    <3> QED BY <2>1, <3>2, <3>3, <3>4 DEF ActiveIsServed, SeesToActive
  <2>4. CASE sock # "ready"
    <3>1. at.loop = "wait" BY <1>10, <2>1, <2>4 DEF AtWorkOnline
    <3>2. subs' = subs BY <1>1, <2>4
    <3>3. Cardinality(subs') + Cardinality(Asking') < starts'
      <4>1. Cardinality(subs') = Cardinality(subs) /\ starts' = starts BY <1>1, <3>2
      <4> QED BY <1>5, <1>8, <2>2, <4>1
    <3> QED BY <3>1, <3>3 DEF SeesToActive, ToBeRestored
  <2> QED BY <2>3, <2>4
<1> QED BY <1>1, <1>7, <1>9, <1>11, <1>12, <1>13

LEMMA RestKeeps ==
  ASSUME MarginInv, client = "margin", UNCHANGED <<client, sock, at>>, MarginTyped',
         \A u \in Threads : \/ doing'[u] = doing[u]
                            \/ /\ doing'[u] \in {"idle", "asleep"}
                               /\ doing[u] \notin {"acquiring", "sending", "cancelling"},
         UNCHANGED <<mine, started, active, nextReq, subs, starts, crossed>>
  PROVE  MarginInv'
<1> USE DEF MarginInv
<1>1. Asking' = Asking /\ Busy' \subseteq Busy BY DEF Asking, Busy
<1>2. Counted' BY <1>1 DEF Counted
<1>3. AtWorkOnline' BY <1>1 DEF AtWorkOnline
<1>4. CancelsOne' BY <1>1 DEF CancelsOne, Threads
<1>5. ActiveIsServed'
  <2> SUFFICES ASSUME started, Unspoiled PROVE SeesToActive'
    BY DEF ActiveIsServed, Unspoiled
  <2>1. ASSUME NEW u \in Threads, AboutToAsk(u) PROVE AboutToAsk(u)'
    BY <2>1 DEF AboutToAsk
  <2> QED BY <1>1, <2>1 DEF ActiveIsServed, SeesToActive, ToBeRestored
<1> QED BY <1>2, <1>3, <1>4, <1>5

LEMMA RestingKeeps ==
  ASSUME MarginInv, client = "margin", UNCHANGED <<client, sock, at>>,
         \/ \E t \in Threads : StartRefreshLoop(t)
         \/ \E r \in Refreshers : RefreshStops(r)
  PROVE  MarginInv'
<1>t. MarginTyped BY DEF MarginInv
<1>1. ASSUME NEW t \in Threads, StartRefreshLoop(t) PROVE MarginInv'
  <2>1. doing[t] = "spawning" /\ UNCHANGED <<mine, started, active, nextReq, subs, starts, crossed>>
    BY <1>1 DEF StartRefreshLoop
  <2>2. \/ doing' = [doing EXCEPT ![t] = "idle"]
        \/ \E r \in Refreshers : ~Alive(r) /\ doing' = [doing EXCEPT ![t] = "idle", ![r] = "asleep"]
    BY <1>1 DEF StartRefreshLoop
  <2>3. CASE doing' = [doing EXCEPT ![t] = "idle"]
    <3>1. MarginTyped' BY <1>t, <2>1, <2>3 DEF MarginTyped
    <3>2. \A u \in Threads : doing'[u] = IF u = t THEN "idle" ELSE doing[u] BY <1>t, <2>3 DEF MarginTyped
    <3> QED BY <2>1, <3>1, <3>2, RestKeeps
  <2>4. ASSUME NEW r \in Refreshers, ~Alive(r), doing' = [doing EXCEPT ![t] = "idle", ![r] = "asleep"]
        PROVE  MarginInv'
    <3>1. doing[r] = "idle" /\ r \in Threads BY <2>4 DEF Alive, Threads
    <3>2. MarginTyped' BY <1>t, <2>1, <2>4, <3>1 DEF MarginTyped
    <3>3. \A u \in Threads : doing'[u] = IF u = r THEN "asleep" ELSE IF u = t THEN "idle" ELSE doing[u]
      BY <1>t, <2>4, <3>1 DEF MarginTyped
    <3>4. \A u \in Threads : \/ doing'[u] = doing[u]
                             \/ /\ doing'[u] \in {"idle", "asleep"}
                                /\ doing[u] \notin {"acquiring", "sending", "cancelling"}
      BY <2>1, <3>1, <3>3
    <3> QED BY <2>1, <3>2, <3>4, RestKeeps
  <2> QED BY <2>2, <2>3, <2>4
<1>2. ASSUME NEW r \in Refreshers, RefreshStops(r) PROVE MarginInv'
  <2>1. /\ doing[r] = "asleep" /\ doing' = [doing EXCEPT ![r] = "idle"] /\ r \in Threads
        /\ UNCHANGED <<mine, started, active, nextReq, subs, starts, crossed>>
    BY <1>2 DEF RefreshStops, Threads
  <2>2. MarginTyped' BY <1>t, <2>1 DEF MarginTyped
  <2>3. \A u \in Threads : doing'[u] = IF u = r THEN "idle" ELSE doing[u] BY <1>t, <2>1 DEF MarginTyped
  <2> QED BY <2>1, <2>2, <2>3, RestKeeps
<1> QED BY <1>1, <1>2

LEMMA RefreshKeeps ==
  ASSUME SessionInv, MarginInv, client = "margin", UNCHANGED <<client, sock, at>>,
         NEW r \in Refreshers, Refresh(r)
  PROVE  MarginInv'
<1> USE DEF MarginInv
<1>1. /\ doing[r] = "asleep" /\ started /\ mine' = [mine EXCEPT ![r] = active]
      /\ doing' = [doing EXCEPT ![r] = "cancelling"] /\ crossed' = (crossed \/ Busy # {})
      /\ UNCHANGED <<started, active, nextReq, subs, starts>> /\ r \in Threads
  BY DEF Refresh, Threads
<1>2. sock = "ready" BY DEF Refresh, IsConnected, SessionInv
<1>3. /\ \A u \in Threads : doing'[u] = IF u = r THEN "cancelling" ELSE doing[u]
      /\ Asking' = Asking \ {r}
  BY <1>1, ThreadMoves DEF MarginTyped
<1>4. Asking' = Asking BY <1>1, <1>3 DEF Asking
<1>5. MarginTyped' BY <1>1 DEF MarginTyped
<1>6. Counted' BY <1>1, <1>4 DEF Counted
<1>7. AtWorkOnline' BY <1>2 DEF AtWorkOnline
<1>8. ActiveIsServed'
  <2>1. AboutToAsk(r)' BY <1>1, <1>3 DEF AboutToAsk
  <2> QED BY <1>1, <2>1 DEF ActiveIsServed, SeesToActive
<1>9. CancelsOne'
  <2>1. SUFFICES ASSUME ~crossed', NEW q \in Refreshers, doing'[q] = "cancelling"
                 PROVE  /\ Asking' = {} /\ starts' > 0
                        /\ \A z \in Refreshers : doing'[z] = "cancelling" => z = q
                        /\ mine'[q] \in subs' \/ Cardinality(subs') < starts'
    BY DEF CancelsOne
  <2>2. ~crossed /\ Busy = {} BY <1>1, <2>1
  <2>3. \A z \in Refreshers : doing'[z] = "cancelling" => z = r
    <3>1. SUFFICES ASSUME NEW z \in Refreshers, doing'[z] = "cancelling", z # r PROVE FALSE
      OBVIOUS
    <3>2. z \in Threads /\ doing[z] = "cancelling" BY <1>3, <3>1 DEF Threads
    <3>3. z \in Busy BY <3>2 DEF Busy
    <3> QED BY <2>2, <3>3
  <2>4. Asking = {} BY <2>2 DEF Asking, Busy
  <2>5. q = r /\ mine'[q] = active BY <1>1, <2>1, <2>3 DEF MarginTyped
  <2>6. active \in subs \/ Cardinality(subs) < starts
    <3>1. Cardinality(subs) \in Nat /\ starts \in Nat BY Counts
    <3>2. CASE starts <= Served
      <4>1. SeesToActive BY <1>1, <2>2, <3>2 DEF ActiveIsServed, Unspoiled
      <4>2. \A t \in Threads : ~AboutToAsk(t) BY <2>2 DEF Busy, AboutToAsk
      <4>3. active \in subs \/ Cardinality(subs) + Cardinality(Asking) < starts BY <4>1, <4>2 DEF SeesToActive
      <4>4. Cardinality(Asking) = 0 BY <2>4, FS_EmptySet
      <4> QED BY <3>1, <4>3, <4>4
    <3>3. CASE ~(starts <= Served)
      <4>1. Cardinality(subs) <= Served /\ Served \in Nat BY MarginAssumption DEF MarginTyped
      <4> QED BY <3>1, <3>3, <4>1
    <3> QED BY <3>2, <3>3
  <2> QED BY <1>1, <1>4, <2>3, <2>4, <2>5, <2>6
<1> QED BY <1>1, <1>5, <1>6, <1>7, <1>8, <1>9

LEMMA CancelKeeps ==
  ASSUME MarginInv, client = "margin", UNCHANGED <<client, sock, at>>,
         NEW r \in Refreshers, RefreshCancels(r)
  PROVE  MarginInv'
<1> USE DEF MarginInv
<1>1. /\ doing[r] = "cancelling" /\ subs' = subs \ {mine[r]} /\ mine' = [mine EXCEPT ![r] = 0]
      /\ doing' = [doing EXCEPT ![r] = "acquiring"] /\ r \in Threads
      /\ UNCHANGED <<started, active, nextReq, starts, crossed>>
  BY DEF RefreshCancels, Threads
<1>2. /\ \A u \in Threads : doing'[u] = IF u = r THEN "acquiring" ELSE doing[u]
      /\ Asking' = Asking \cup {r}
  BY <1>1, ThreadMoves DEF MarginTyped
<1>3. /\ IsFiniteSet(subs') /\ Cardinality(subs') \in Nat /\ Cardinality(subs) \in Nat /\ starts \in Nat
      /\ Cardinality(subs') = IF mine[r] \in subs THEN Cardinality(subs) - 1 ELSE Cardinality(subs)
  <2>1. IsFiniteSet(subs) BY DEF MarginTyped
  <2>2. CASE mine[r] \in subs
    <3>1. IsFiniteSet(subs \ {mine[r]}) /\ Cardinality(subs \ {mine[r]}) = Cardinality(subs) - 1
      BY <2>1, <2>2, FS_RemoveElement
    <3> QED BY <1>1, <2>2, <3>1, Counts, FS_CardinalityType
  <2>3. CASE mine[r] \notin subs
    <3>1. subs' = subs BY <1>1, <2>3
    <3> QED BY <2>1, <2>3, <3>1, Counts
  <2> QED BY <2>2, <2>3
<1>4. MarginTyped'
  <2>1. Cardinality(subs') <= Served
    <3>1. Served \in Nat /\ Cardinality(subs) <= Served BY MarginAssumption DEF MarginTyped
    <3> QED BY <1>3, <3>1
  <2> QED BY <1>1, <1>3, <2>1 DEF MarginTyped
<1>5. ~crossed => /\ Asking = {} /\ starts > 0 /\ (mine[r] \in subs \/ Cardinality(subs) < starts)
                  /\ Cardinality(subs) + Cardinality(Asking) <= starts
  BY <1>1 DEF CancelsOne, Counted
<1>6. ~crossed => Cardinality(Asking') = 1 /\ Cardinality(Asking) = 0
  <2>1. ASSUME ~crossed PROVE Asking' = {} \cup {r} BY <1>2, <1>5, <2>1
  <2>2. Cardinality({} \cup {r}) = 1 BY FS_EmptySet, FS_AddElement
  <2> QED BY <1>5, <2>1, <2>2, FS_EmptySet
<1>7. Counted' BY <1>1, <1>3, <1>5, <1>6 DEF Counted
<1>8. r \in Busy BY <1>1 DEF Busy
<1>9. AtWorkOnline' BY <1>1, <1>8 DEF AtWorkOnline
<1>10. CancelsOne'
  <2>1. SUFFICES ASSUME ~crossed', NEW q \in Refreshers, doing'[q] = "cancelling" PROVE FALSE
    BY DEF CancelsOne
  <2>2. q \in Threads /\ q # r /\ doing[q] = "cancelling" BY <1>2, <2>1 DEF Threads
  <2> QED BY <1>1, <2>1, <2>2 DEF CancelsOne
<1>11. ActiveIsServed'
  <2>1. AboutToAsk(r)' BY <1>1, <1>2 DEF AboutToAsk
  <2> QED BY <1>1, <2>1 DEF ActiveIsServed, SeesToActive
<1> QED BY <1>1, <1>4, <1>7, <1>9, <1>10, <1>11

LEMMA MarginSessionKeeps ==
  ASSUME SessionInv, MarginInv, client = "margin", UNCHANGED client, SessionNext
  PROVE  MarginInv'
<1>w. at \in Places /\ (connEvent => sock = "ready") BY DEF SessionInv
<1>1. ASSUME NEW t \in {"main", "loop"}, Refused(t) \/ Connected(t) \/ ClearAfterTimeout(t), UNCHANGED margin
      PROVE  MarginInv'
  <2>1. sock' = sock BY <1>1 DEF Refused, Connected, ClearAfterTimeout
  <2>2. /\ ToBeRestored => ToBeRestored'
        /\ sock = "open" /\ at.loop = "wait" => at'.loop = "wait"
    <3> USE <1>w DEF Places, ToBeRestored
    <3>1. CASE Refused(t)
      <4>1. CASE t = "main" BY <3>1, <4>1 DEF Refused, Returned
      <4>2. CASE t = "loop" BY <3>1, <4>2 DEF Refused, Returned, Begins
      <4> QED BY <4>1, <4>2
    <3>2. CASE Connected(t)
      <4>1. CASE t = "main" BY <3>2, <4>1 DEF Connected, Returned
      <4>2. CASE t = "loop" BY <3>2, <4>2 DEF Connected, Returned
      <4> QED BY <4>1, <4>2
    <3>3. CASE ClearAfterTimeout(t)
      <4>1. CASE t = "main" BY <3>3, <4>1 DEF ClearAfterTimeout, Returned, Started, LoopAlive
      <4>2. CASE t = "loop" BY <3>3, <4>2 DEF ClearAfterTimeout, Returned, Started, LoopAlive
      <4> QED BY <4>1, <4>2
    <3> QED BY <1>1, <3>1, <3>2, <3>3
  <2>3. "main" \in Starters BY DEF Starters
  <2> QED BY <1>1, <2>1, <2>2, <2>3, ListenersKeep DEF margin
<1>2. ASSUME NEW t \in {"main", "loop"}, Connect(t), OnConnect PROVE MarginInv'
  BY <1>2, MarginConnectKeeps DEF OnConnect
<1>3. ASSUME OnClosed PROVE MarginInv'
  BY <1>3, MarginClosedKeeps DEF OnClosed
<1>4. CASE NextValidId /\ OnNextValidId
  <2>1. sock' = "ready" /\ at' = at BY <1>4 DEF NextValidId
  <2>2. /\ doing' = doing \/ Enter("reader")
        /\ UNCHANGED <<mine, started, active, nextReq, subs, starts, crossed>>
    BY <1>4 DEF OnNextValidId, MarginOnNextValidId
  <2>3. "reader" \in Starters BY DEF Starters
  <2> QED BY <2>1, <2>2, <2>3, ListenersKeep DEF ToBeRestored
<1>5. CASE Restored /\ OnRestored
  <2>1. sock' = sock /\ at.loop = "restored" /\ connEvent' = connEvent BY <1>5 DEF Restored
  <2>2. /\ doing' = doing \/ (Enter("loop") /\ IsConnected)
        /\ started' = FALSE
        /\ UNCHANGED <<mine, active, nextReq, subs, starts, crossed>>
    BY <1>5 DEF OnRestored, MarginOnRestored
  <2>3. "loop" \in Starters BY DEF Starters
  <2> QED BY <1>w, <2>1, <2>2, <2>3, ListenersKeep DEF IsConnected
<1>6. CASE Lifespan /\ OnLifespan
  <2>1. sock' = sock /\ at'.loop = at.loop BY <1>6, <1>w DEF Lifespan, Places
  <2>2. /\ doing' = doing \/ (Enter("main") /\ IsConnected)
        /\ UNCHANGED <<mine, started, active, nextReq, subs, starts, crossed>>
    BY <1>6 DEF OnLifespan, MarginOnLifespan
  <2>3. "main" \in Starters BY DEF Starters
  <2> QED BY <1>w, <2>1, <2>2, <2>3, ListenersKeep DEF IsConnected, ToBeRestored
<1>7. ASSUME LoopEnds \/ LoopCheck \/ Backoff, UNCHANGED margin PROVE MarginInv'
  <2>1. sock' = sock /\ at.loop \notin {"wait", "restored"}
    BY <1>7 DEF LoopEnds, LoopCheck, Backoff
  <2>2. "main" \in Starters BY DEF Starters
  <2> QED BY <1>7, <2>1, <2>2, ListenersKeep DEF margin, ToBeRestored
<1> QED BY <1>1, <1>2, <1>3, <1>4, <1>5, <1>6, <1>7 DEF SessionNext, ThreadSteps

LEMMA MarginStep == SessionInv /\ MarginInv /\ [Next]_vars => MarginInv'
<1> SUFFICES ASSUME SessionInv, MarginInv, [Next]_vars, client' = "margin" PROVE MarginInv'
  BY DEF MarginInv
<1>c. client = "margin" /\ UNCHANGED client BY DEF Next, vars
<1>1. CASE SessionNext BY <1>c, <1>1, MarginSessionKeeps
<1>2. ASSUME MarginNext, UNCHANGED session PROVE MarginInv'
  <2>1. UNCHANGED <<sock, at>> BY <1>2 DEF session
  <2> QED
    BY <1>c, <1>2, <2>1, StartSetsKeeps, NumberKeeps, SendKeeps, RestingKeeps, RefreshKeeps, CancelKeeps
    DEF MarginNext
<1>3. ASSUME UNCHANGED margin, UNCHANGED session PROVE MarginInv'
  <2>1. "main" \in Starters BY DEF Starters
  <2> QED BY <1>c, <1>3, <2>1, ListenersKeep DEF margin, session, ToBeRestored
<1> QED BY <1>c, <1>1, <1>2, <1>3 DEF Next, ClientNext, Alone, vars

(* However the three threads that start the service, its refresh threads   *)
(* and the reconnects interleave, once they are at rest the active request *)
(* of a started service is one the gateway serves, unless a refresh was    *)
(* overlapped or there were more starts than the gateway serves, for every *)
(* such limit and any number of refresh threads.                           *)
THEOREM SummaryLive == Spec => []SummaryIsLive
<1>1. Init => SessionInv /\ MarginInv BY SessionStart, MarginStart DEF Init
<1>2. SessionInv /\ MarginInv /\ [Next]_vars => (SessionInv /\ MarginInv)'
  BY SessionStep, MarginStep
<1>3. ASSUME MarginInv PROVE SummaryIsLive
  <2>1. SUFFICES ASSUME client = "margin", started, Busy = {}, at.loop = "none", ~crossed, ~(starts > Served)
                 PROVE  active \in subs
    BY DEF SummaryIsLive
  <2>2. Unspoiled
    BY <1>3, <2>1, MarginAssumption DEF MarginInv, MarginTyped, Unspoiled
  <2>3. SeesToActive BY <1>3, <2>1, <2>2 DEF MarginInv, ActiveIsServed
  <2>4. \A t \in Threads : ~AboutToAsk(t) BY <2>1 DEF Busy, AboutToAsk
  <2> QED BY <2>1, <2>3, <2>4 DEF SeesToActive, ToBeRestored
<1> QED BY <1>1, <1>2, <1>3, PTL DEF Spec
----------------------------------------------------------------------------
(* The order ids.  An order that shares its id with no other of its        *)
(* process, of the rows the scan found or of the gateway stays in the map  *)
(* under the id it was placed with, so its fill comes to it by that id,    *)
(* and no other fill does, save one of another client.                     *)

HasId == {o \in Orders : reserved[o] # 0}

(* The id an execution is reported under.                                  *)
IdOf(x) == IF x = Foreign THEN foreignId ELSE placedId[x]

IdsTyped ==
  /\ stage \in [Orders -> {"none", "checked", "reserved", "recorded", "placed", "gone"}]
  /\ reserved \in [Orders -> OrderIds \cup {0}] /\ twsId \in [Orders -> OrderIds \cup {0}]
  /\ byTws \in [OrderIds -> Orders \cup {NoOrder}] /\ perm \in [Orders -> Orders \cup {Foreign, NoOrder}]
  /\ applied \in [Orders -> SUBSET (Orders \cup {Foreign})]
  /\ placedId \in [Orders -> OrderIds \cup {0}] /\ foreignId \in OrderIds \cup {0}
  /\ filled \subseteq Orders /\ openRow \subseteq Orders /\ endedRow \subseteq Orders /\ adopted \subseteq Orders
  /\ nextId \in Nat /\ process \in {"up", "down", "boot"} /\ reports \subseteq Executions

(* The counter is behind the orders that have come to an id, and before    *)
(* the orders that an earlier process placed.                              *)
Counter ==
  /\ nextId <= Cardinality(HasId) + 1 /\ \A o \in Orders : reserved[o] <= Cardinality(HasId)
  /\ nextId # 0 => \A o \in Orders : stage[o] = "gone" => placedId[o] < nextId

IdsOf(o) ==
  /\ stage[o] \in {"none", "checked"} => reserved[o] = 0
  /\ stage[o] \in {"reserved", "recorded", "placed"} \/ o \in adopted => reserved[o] # 0
  /\ stage[o] \in {"reserved", "recorded"} => placedId[o] = 0
  /\ twsId[o] = 0 <=> reserved[o] = 0
  /\ placedId[o] \in {0, reserved[o]}
  /\ o \notin twins => twsId[o] = reserved[o]
  /\ o \in filled => placedId[o] # 0

RowsOf(o) ==
  /\ o \in openRow \cup endedRow => reserved[o] # 0
  /\ stage[o] \in {"recorded", "placed"} \/ placedId[o] # 0 => o \in openRow \cup endedRow

CreditsOf(o) ==
  /\ o \notin Known => applied[o] = {} /\ perm[o] = NoOrder
  /\ process # "up" => o \notin Known /\ stage[o] # "checked"
  /\ perm[o] # NoOrder => perm[o] \in applied[o] /\ twsId[o] = IdOf(perm[o])
  /\ \A x \in applied[o] : IdOf(x) # 0

MapAgrees == \A i \in OrderIds : byTws[i] # NoOrder => byTws[i] \in Known /\ twsId[byTws[i]] = i

Mapped == \A o \in Known \ twins : byTws[twsId[o]] = o

Apart ==
  \A o \in Known \ twins : \A p \in Orders \ {o} :
    /\ p \in InMemory => twsId[o] # twsId[p] /\ twsId[o] # reserved[p]
    /\ placedId[p] # twsId[o]

Credited == \A o \in Orders \ twins : \A x \in applied[o] : x = o \/ (x = Foreign /\ foreignId = twsId[o])

PlacedIsKnown ==
  process = "up" => \A o \in Orders \ (unadopted \cup endedRow) : placedId[o] # 0 => o \in Known

FillIsComing ==
  process = "up" /\ link = "up" =>
    \A o \in filled \ (twins \cup unadopted \cup endedRow) : o \in applied[o] \/ Execution(o) \in reports

IdsInv ==
  /\ IdsTyped /\ Counter
  /\ \A o \in Orders : IdsOf(o) /\ RowsOf(o) /\ CreditsOf(o)
  /\ MapAgrees /\ Mapped /\ Apart /\ Credited /\ PlacedIsKnown /\ FillIsComing

LEMMA OrdersCount ==
  /\ Cardinality(Orders) \in Nat /\ OrderIds = 1 .. Cardinality(Orders) + 1
  /\ Foreign \notin Orders /\ NoOrder \notin Orders /\ Foreign # NoOrder
  /\ \A i \in OrderIds : i \in Nat /\ i # 0
  /\ 0 \notin OrderIds
<1>1. Cardinality(Orders) \in Nat BY OrderIdentityAssumption, FS_CardinalityType
<1> QED BY <1>1, OrderIdentityAssumption DEF OrderIds, Foreign, NoOrder

LEMMA IdsStart == IdentityInit => IdsInv
<1> SUFFICES ASSUME IdentityInit PROVE IdsInv
  OBVIOUS
<1>1. /\ stage = [o \in Orders |-> "none"] /\ reserved = [o \in Orders |-> 0] /\ twsId = [o \in Orders |-> 0]
      /\ nextId = 1 /\ byTws = [i \in OrderIds |-> NoOrder] /\ adopted = {} /\ perm = [o \in Orders |-> NoOrder]
      /\ applied = [o \in Orders |-> {}] /\ openRow = {} /\ endedRow = {}
      /\ placedId = [o \in Orders |-> 0] /\ filled = {} /\ foreignId = 0 /\ reports = {}
      /\ process = "up" /\ twins = {}
  BY DEF IdentityInit
<1>2. IdsTyped BY <1>1 DEF IdsTyped
<1>3. HasId = {} /\ InMemory = {} /\ Known = {} BY <1>1 DEF HasId, InMemory, Known
<1>4. Counter BY <1>1, <1>3, FS_EmptySet DEF Counter
<1>5. \A o \in Orders : IdsOf(o) /\ RowsOf(o) /\ CreditsOf(o)
  BY <1>1, <1>3 DEF IdsOf, RowsOf, CreditsOf
<1>6. MapAgrees BY <1>1 DEF MapAgrees
<1>7. Mapped /\ Apart BY <1>3 DEF Mapped, Apart
<1>8. Credited /\ PlacedIsKnown /\ FillIsComing BY <1>1 DEF Credited, PlacedIsKnown, FillIsComing
<1> QED BY <1>2, <1>4, <1>5, <1>6, <1>7, <1>8 DEF IdsInv

LEMMA HasIdCount ==
  ASSUME IdsTyped
  PROVE  IsFiniteSet(HasId) /\ Cardinality(HasId) \in Nat /\ Cardinality(HasId) <= Cardinality(Orders)
<1>1. HasId \subseteq Orders BY DEF HasId
<1>2. IsFiniteSet(Orders) BY OrderIdentityAssumption
<1> QED BY <1>1, <1>2, FS_Subset, FS_CardinalityType

(* nextValidId gives the number after the last one placed.                 *)
LEMMA NextNumber ==
  ASSUME IdsInv
  PROVE  /\ NextAtGateway \in OrderIds /\ NextAtGateway <= Cardinality(HasId) + 1
         /\ \A o \in Orders : placedId[o] < NextAtGateway
<1> DEFINE Free(n) == (\A o \in Orders : placedId[o] < n) /\ (n = 1 \/ \E o \in Orders : placedId[o] = n - 1)
<1>0. PICK k \in Nat, c \in Nat : k = Cardinality(HasId) /\ c = Cardinality(Orders) /\ k <= c
  BY HasIdCount, OrdersCount DEF IdsInv
<1>1. \A o \in Orders : placedId[o] \in Nat /\ placedId[o] <= k
  <2> TAKE o \in Orders
  <2>1. placedId[o] \in OrderIds \cup {0} /\ placedId[o] \in {0, reserved[o]} /\ reserved[o] <= k
    BY <1>0 DEF IdsInv, IdsTyped, IdsOf, Counter
  <2>2. placedId[o] \in Nat BY <2>1, OrdersCount
  <2> QED BY <1>0, <2>1, <2>2
<1>2. \E n \in OrderIds : Free(n)
  <2> DEFINE B == {n \in Nat : n # 0 /\ \A o \in Orders : placedId[o] < n}
  <2>1. k + 1 \in B BY <1>1
  <2>2. B \subseteq Nat /\ B # {} BY <2>1
  <2>3. PICK n \in B : \A m \in B : n <= m
    <3> HIDE DEF B
    <3> QED BY <2>2, LeastNatural
  <2>4. n \in Nat /\ n # 0 /\ n <= k + 1 /\ \A o \in Orders : placedId[o] < n BY <2>1, <2>3
  <2>5. n \in OrderIds BY <1>0, <2>4, OrdersCount
  <2>6. CASE n = 1 BY <2>4, <2>5, <2>6
  <2>7. CASE n # 1
    <3>1. n - 1 \notin B /\ n - 1 \in Nat /\ n - 1 # 0 BY <2>3, <2>4, <2>7
    <3>2. PICK o \in Orders : ~(placedId[o] < n - 1) BY <3>1
    <3>3. placedId[o] = n - 1 BY <1>1, <2>4, <3>2
    <3> QED BY <2>4, <2>5, <3>3
  <2> QED BY <2>6, <2>7
<1>3. NextAtGateway \in OrderIds /\ Free(NextAtGateway)
  BY <1>2 DEF NextAtGateway
<1>4. NextAtGateway \in Nat BY <1>3, OrdersCount
<1>5. NextAtGateway <= k + 1 BY <1>1, <1>3, <1>4
<1> QED BY <1>0, <1>3, <1>5

(* What the maps say of each other does not depend on rows and jobs.       *)
LEMMA MapsQuiet ==
  ASSUME IdsInv, UNCHANGED <<reserved, twsId, byTws, adopted, perm, applied, twins, placedId>>,
         InMemory' = InMemory, foreignId' = foreignId \/ foreignId = 0
  PROVE  Known' = Known /\ HasId' = HasId /\ MapAgrees' /\ Mapped' /\ Apart' /\ Credited'
<1>1. Known' = Known /\ HasId' = HasId BY DEF Known, HasId
<1>2. MapAgrees' BY <1>1 DEF IdsInv, MapAgrees
<1>3. Mapped' BY <1>1 DEF IdsInv, Mapped
<1>4. Apart' BY <1>1 DEF IdsInv, Apart
<1>5. Credited'
  <2>1. SUFFICES ASSUME NEW o \in Orders \ twins, NEW x \in applied[o]
                 PROVE  x = o \/ (x = Foreign /\ foreignId' = twsId[o])
    BY DEF Credited
  <2>2. x = o \/ (x = Foreign /\ foreignId = twsId[o]) BY DEF IdsInv, Credited
  <2>3. IdOf(x) # 0 BY DEF IdsInv, CreditsOf
  <2> QED BY <2>2, <2>3 DEF IdOf
<1> QED BY <1>1, <1>2, <1>3, <1>4, <1>5

LEMMA StagesKeep ==
  ASSUME IdsInv,
         UNCHANGED <<reserved, twsId, nextId, byTws, adopted, perm, applied, placedId, filled, foreignId, reports,
                     process, link, twins, unadopted>>,
         stage' \in [Orders -> {"none", "checked", "reserved", "recorded", "placed", "gone"}],
         openRow' \subseteq Orders, endedRow' \subseteq Orders, endedRow \subseteq endedRow',
         \A o \in Orders :
           /\ stage'[o] \in {"none", "checked"} => stage[o] \in {"none", "checked"}
           /\ stage'[o] \in {"reserved", "recorded"} => stage[o] \in {"reserved", "recorded"}
           /\ stage'[o] = "placed" <=> stage[o] = "placed"
           /\ stage[o] \in {"reserved", "recorded"} => stage'[o] \in {"reserved", "recorded"}
           /\ stage'[o] = "gone" => stage[o] = "gone" \/ placedId[o] = 0
           /\ stage'[o] = "checked" => stage[o] = "checked" \/ process = "up"
           /\ RowsOf(o)'
  PROVE  IdsInv'
<1>1. InMemory' = InMemory BY DEF InMemory
<1>2. Known' = Known /\ HasId' = HasId /\ MapAgrees' /\ Mapped' /\ Apart' /\ Credited'
  BY <1>1, MapsQuiet
<1>3. Executions' = Executions BY DEF Executions, Execution
<1>4. IdsTyped' BY <1>3 DEF IdsInv, IdsTyped
<1>5. Counter'
  <2>1. \A o \in Orders : nextId # 0 /\ placedId[o] = 0 => placedId[o] < nextId
    BY DEF IdsInv, IdsTyped
  <2> QED BY <1>2, <2>1 DEF IdsInv, Counter
<1>6. \A o \in Orders : IdsOf(o)' /\ CreditsOf(o)'
  <2> TAKE o \in Orders
  <2>1. IdsOf(o)' BY DEF IdsInv, IdsOf
  <2>2. \A x : IdOf(x)' = IdOf(x) BY DEF IdOf
  <2>3. CreditsOf(o)' BY <1>2, <2>2 DEF IdsInv, CreditsOf
  <2> QED BY <2>1, <2>3
<1>7. PlacedIsKnown' BY <1>2 DEF IdsInv, PlacedIsKnown
<1>8. FillIsComing' BY DEF IdsInv, FillIsComing, Execution
<1> QED BY <1>2, <1>4, <1>5, <1>6, <1>7, <1>8 DEF IdsInv

LEMMA BookkeepingKeeps ==
  ASSUME IdsInv, NEW o \in Orders, CheckConnected(o) \/ NoIdYet(o) \/ Record(o) \/ JobEnds(o) \/ WriteEnd(o)
  PROVE  IdsInv'
<1>t. /\ stage \in [Orders -> {"none", "checked", "reserved", "recorded", "placed", "gone"}]
      /\ openRow \subseteq Orders /\ endedRow \subseteq Orders
      /\ \A p \in Orders : IdsOf(p) /\ RowsOf(p)
  BY DEF IdsInv, IdsTyped
<1>0. UNCHANGED <<reserved, twsId, nextId, byTws, adopted, perm, applied, placedId, filled, foreignId, reports,
                  process, link, twins, unadopted>>
  BY DEF CheckConnected, NoIdYet, Record, JobEnds, WriteEnd, maps, gateway, submission
<1>1. CASE CheckConnected(o)
  <2>1. /\ stage[o] = "none" /\ stage' = [stage EXCEPT ![o] = "checked"] /\ UNCHANGED <<openRow, endedRow>>
        /\ process = "up"
    BY <1>1 DEF CheckConnected, rowVars
  <2>2. \A p \in Orders : stage'[p] = IF p = o THEN "checked" ELSE stage[p] BY <1>t, <2>1
  <2>3. \A p \in Orders : RowsOf(p)' BY <1>t, <1>0, <2>1, <2>2 DEF RowsOf
  <2> QED BY <1>t, <1>0, <2>1, <2>2, <2>3, StagesKeep
<1>2. CASE NoIdYet(o)
  <2>1. stage[o] = "checked" /\ stage' = [stage EXCEPT ![o] = "gone"] /\ UNCHANGED <<openRow, endedRow>>
    BY <1>2 DEF NoIdYet, rowVars
  <2>2. \A p \in Orders : stage'[p] = IF p = o THEN "gone" ELSE stage[p] BY <1>t, <2>1
  <2>3. \A p \in Orders : RowsOf(p)' BY <1>t, <1>0, <2>1, <2>2 DEF RowsOf
  <2>4. placedId[o] = 0 BY <1>t, <2>1 DEF IdsOf
  <2> QED BY <1>t, <1>0, <2>1, <2>2, <2>3, <2>4, StagesKeep
<1>3. CASE Record(o)
  <2>1. /\ stage[o] = "reserved" /\ stage' = [stage EXCEPT ![o] = "recorded"]
        /\ openRow' = openRow \cup {o} /\ endedRow' = endedRow
    BY <1>3 DEF Record
  <2>2. \A p \in Orders : stage'[p] = IF p = o THEN "recorded" ELSE stage[p] BY <1>t, <2>1
  <2>3. \A p \in Orders : RowsOf(p)' BY <1>t, <1>0, <2>1, <2>2 DEF RowsOf, IdsOf
  <2> QED BY <1>t, <1>0, <2>1, <2>2, <2>3, StagesKeep
<1>4. CASE JobEnds(o)
  <2>1. UNCHANGED <<stage, openRow, endedRow>> BY <1>4 DEF JobEnds, rowVars
  <2>2. \A p \in Orders : RowsOf(p)' BY <1>t, <1>0, <2>1 DEF RowsOf
  <2> QED BY <1>t, <1>0, <2>1, <2>2, StagesKeep
<1>5. CASE WriteEnd(o)
  <2>1. stage' = stage /\ openRow' = openRow \ {o} /\ endedRow' = endedRow \cup {o} /\ o \in openRow
    BY <1>5 DEF WriteEnd, submission
  <2>2. \A p \in Orders : RowsOf(p)' BY <1>t, <1>0, <2>1 DEF RowsOf
  <2> QED BY <1>t, <1>0, <2>1, <2>2, StagesKeep
<1> QED BY <1>1, <1>2, <1>3, <1>4, <1>5

LEMMA PlaceKeeps ==
  ASSUME IdsInv, NEW o \in Orders, Place(o)
  PROVE  IdsInv'
<1>t. IdsTyped /\ \A p \in Orders : IdsOf(p) /\ RowsOf(p) /\ CreditsOf(p)
  BY DEF IdsInv
<1>0. UNCHANGED <<reserved, twsId, nextId, byTws, adopted, perm, applied, openRow, endedRow, filled, foreignId,
                  reports, process, link, twins, unadopted>>
  BY DEF Place, rowVars
<1>1. stage[o] = "recorded" /\ \A p \in Orders : stage'[p] = IF p = o THEN "placed" ELSE stage[p]
  BY <1>t DEF Place, IdsTyped
<1>2. /\ placedId' \in [Orders -> OrderIds \cup {0}]
      /\ \A p \in Orders : placedId'[p] = placedId[p] \/ (p = o /\ placedId'[p] = reserved[p])
  BY <1>t DEF Place, IdsTyped
<1>3. placedId[o] = 0 /\ o \notin filled BY <1>t, <1>1 DEF IdsOf
<1>4. InMemory' = InMemory /\ o \in InMemory BY <1>1 DEF InMemory
<1>5. Known' = Known /\ HasId' = HasId /\ o \in Known BY <1>0, <1>4 DEF Known, HasId
<1>6. \A p \in filled : Execution(p)' = Execution(p)
  BY <1>t, <1>2, <1>3 DEF Execution, IdsTyped
<1>7. Executions' = Executions BY <1>0, <1>6 DEF Executions
<1>8. IdsTyped'
  <2>1. stage' \in [Orders -> {"none", "checked", "reserved", "recorded", "placed", "gone"}]
    BY <1>t DEF Place, IdsTyped
  <2> QED BY <1>t, <1>0, <1>2, <1>7, <2>1 DEF IdsTyped
<1>9. Counter' BY <1>0, <1>1, <1>2, <1>5 DEF IdsInv, Counter
<1>10. \A p \in Orders : IdsOf(p)' /\ RowsOf(p)' /\ CreditsOf(p)'
  <2> TAKE p \in Orders
  <2>1. IdsOf(p)' BY <1>t, <1>0, <1>1, <1>2, <1>3 DEF IdsOf
  <2>2. RowsOf(p)' BY <1>t, <1>0, <1>1, <1>2 DEF RowsOf
  <2>3. \A x \in applied[p] : x \in Orders \cup {Foreign} /\ IdOf(x) # 0 /\ IdOf(x)' = IdOf(x)
    <3> TAKE x \in applied[p]
    <3>1. x \in Orders \cup {Foreign} /\ IdOf(x) # 0 BY <1>t DEF IdsTyped, CreditsOf
    <3> QED BY <1>0, <1>2, <1>3, <3>1 DEF IdOf
  <2>4. CreditsOf(p)' BY <1>t, <1>0, <1>1, <1>5, <2>3 DEF CreditsOf
  <2> QED BY <2>1, <2>2, <2>4
<1>11. MapAgrees' /\ Mapped' /\ Credited'
  BY <1>0, <1>5 DEF IdsInv, MapAgrees, Mapped, Credited
<1>12. Apart' BY <1>0, <1>2, <1>4, <1>5 DEF IdsInv, Apart
<1>13. PlacedIsKnown' BY <1>0, <1>2, <1>5 DEF IdsInv, PlacedIsKnown
<1>14. FillIsComing' BY <1>t, <1>0, <1>6 DEF IdsInv, FillIsComing, IdsTyped
<1> QED BY <1>8, <1>9, <1>10, <1>11, <1>12, <1>13, <1>14 DEF IdsInv

(* The broker's fills, and what the session does to the counter and to the *)
(* reports.                                                                *)
LEMMA ReportsKeep ==
  ASSUME IdsInv, UNCHANGED <<stage, reserved, twsId, byTws, adopted, perm, applied, openRow, endedRow, placedId, twins,
                             unadopted>>,
         filled \subseteq filled', filled' \subseteq Orders, \A o \in filled' : placedId[o] # 0,
         foreignId' = foreignId \/ (foreignId = 0 /\ foreignId' \in OrderIds),
         nextId' \in {0, nextId, NextAtGateway}, reports' \subseteq Executions',
         process' = process \/ (process = "down" /\ process' = "boot"),
         process' = "up" /\ link' = "up" =>
           \A o \in filled' : \/ Execution(o) \in reports'
                              \/ o \in filled /\ link = "up" /\ reports \subseteq reports'
  PROVE  IdsInv'
<1>t. IdsTyped /\ Counter /\ \A p \in Orders : IdsOf(p) /\ RowsOf(p) /\ CreditsOf(p)
  BY DEF IdsInv
<1>1. InMemory' = InMemory BY DEF InMemory
<1>2. Known' = Known /\ HasId' = HasId /\ MapAgrees' /\ Mapped' /\ Apart' /\ Credited'
  BY <1>1, MapsQuiet
<1>3. NextAtGateway \in Nat /\ NextAtGateway <= Cardinality(HasId) + 1 /\ \A o \in Orders : placedId[o] < NextAtGateway
  BY NextNumber, OrdersCount
<1>4. IdsTyped' BY <1>t, <1>3 DEF IdsTyped
<1>5. Counter'
  <2>1. Cardinality(HasId) \in Nat BY <1>t, HasIdCount
  <2>2. nextId' <= Cardinality(HasId) + 1 BY <1>t, <1>3, <2>1 DEF Counter
  <2>3. nextId' # 0 => \A o \in Orders : stage[o] = "gone" => placedId[o] < nextId'
    BY <1>t, <1>3 DEF Counter
  <2> QED BY <1>t, <1>2, <2>2, <2>3 DEF Counter
<1>6. \A o \in Orders : IdsOf(o)' /\ RowsOf(o)' /\ CreditsOf(o)'
  <2> TAKE o \in Orders
  <2>1. IdsOf(o)' BY <1>t DEF IdsOf
  <2>2. RowsOf(o)' BY <1>t DEF RowsOf
  <2>3. \A x \in applied[o] : IdOf(x) # 0 /\ IdOf(x)' = IdOf(x)
    <3> TAKE x \in applied[o]
    <3>1. IdOf(x) # 0 BY <1>t DEF CreditsOf
    <3> QED BY <3>1 DEF IdOf
  <2>4. CreditsOf(o)' BY <1>t, <1>2, <2>3 DEF CreditsOf
  <2> QED BY <2>1, <2>2, <2>4
<1>7. PlacedIsKnown' BY <1>2 DEF IdsInv, PlacedIsKnown
<1>8. FillIsComing'
  <2>1. \A o : Execution(o)' = Execution(o) BY DEF Execution
  <2>2. SUFFICES ASSUME process' = "up", link' = "up", NEW o \in filled' \ (twins \cup unadopted \cup endedRow)
                 PROVE  o \in applied[o] \/ Execution(o) \in reports'
    BY <2>1 DEF FillIsComing
  <2>3. CASE o \in filled /\ link = "up" /\ reports \subseteq reports'
    BY <2>2, <2>3 DEF IdsInv, FillIsComing
  <2> QED BY <2>2, <2>3
<1> QED BY <1>2, <1>4, <1>5, <1>6, <1>7, <1>8 DEF IdsInv

LEMMA BrokerSideKeeps ==
  ASSUME IdsInv,
         \/ \E o \in Orders : BrokerFillsOrder(o)
         \/ \E i \in ForeignIds : ForeignFills(i)
         \/ LinkDrops \/ Handshake \/ Boot
  PROVE  IdsInv'
<1>t. IdsTyped /\ \A p \in Orders : IdsOf(p) BY DEF IdsInv
<1>1. ASSUME NEW o \in Orders, BrokerFillsOrder(o) PROVE IdsInv'
  <2>1. /\ UNCHANGED <<stage, reserved, twsId, nextId, byTws, adopted, perm, applied, openRow, endedRow, placedId,
                       foreignId, process, link, twins, unadopted>>
        /\ placedId[o] # 0 /\ filled' = filled \cup {o}
        /\ reports' = IF process # "down" /\ link = "up" THEN reports \cup {Execution(o)} ELSE reports
    BY <1>1 DEF BrokerFillsOrder, submission, maps, rowVars
  <2>2. \A p : Execution(p)' = Execution(p) BY <2>1 DEF Execution
  <2>3. reports' \subseteq Executions'
    <3>1. Executions \subseteq Executions' /\ Execution(o) \in Executions'
      BY <2>1, <2>2 DEF Executions
    <3> QED BY <1>t, <2>1, <3>1 DEF IdsTyped
  <2>4. /\ filled' \subseteq Orders /\ \A p \in filled' : placedId[p] # 0
    BY <1>t, <2>1 DEF IdsTyped, IdsOf
  <2> QED BY <2>1, <2>3, <2>4, ReportsKeep
<1>2. ASSUME NEW i \in ForeignIds, ForeignFills(i) PROVE IdsInv'
  <2>1. /\ UNCHANGED <<stage, reserved, twsId, nextId, byTws, adopted, perm, applied, openRow, endedRow, placedId,
                       filled, reports, process, link, twins, unadopted>>
        /\ foreignId = 0 /\ foreignId' = i /\ i \in OrderIds
    BY <1>2, OrderIdentityAssumption DEF ForeignFills, submission, maps, rowVars
  <2>2. \A p : Execution(p)' = Execution(p) BY <2>1 DEF Execution
  <2>3. Executions \subseteq Executions' BY <2>1, <2>2 DEF Executions
  <2>4. filled \subseteq Orders /\ \A p \in filled : placedId[p] # 0 BY <1>t DEF IdsTyped, IdsOf
  <2>5. reports' \subseteq Executions' BY <1>t, <2>1, <2>3 DEF IdsTyped
  <2> QED BY <2>1, <2>4, <2>5, ReportsKeep
<1>3. ASSUME LinkDrops \/ Handshake \/ Boot PROVE IdsInv'
  <2>1. UNCHANGED <<stage, reserved, twsId, byTws, adopted, perm, applied, openRow, endedRow, placedId,
                    filled, foreignId, twins, unadopted>>
    BY <1>3 DEF LinkDrops, Handshake, Boot, submission, maps, rowVars, gateway
  <2>2. Executions' = Executions BY <2>1 DEF Executions, Execution
  <2>3. \A p \in filled : Execution(p) \in Executions BY DEF Executions
  <2>4. filled \subseteq Orders /\ \A p \in filled : placedId[p] # 0 BY <1>t DEF IdsTyped, IdsOf
  <2>5. reports \subseteq Executions BY <1>t DEF IdsTyped
  <2>6. \A p : Execution(p)' = Execution(p) BY <2>1 DEF Execution
  <2>7. CASE LinkDrops
    <3>1. nextId' = 0 /\ reports' = {} /\ process' = process /\ link' = "down" BY <2>7 DEF LinkDrops
    <3> QED BY <2>1, <2>2, <2>4, <3>1, ReportsKeep
  <2>8. CASE Handshake
    <3>1. nextId' = NextAtGateway /\ reports' = Executions /\ process' = process BY <2>8 DEF Handshake
    <3> QED BY <2>1, <2>2, <2>3, <2>4, <3>1, ReportsKeep
  <2>9. CASE Boot
    <3>1. nextId' \in {nextId, NextAtGateway} /\ reports' = reports /\ process = "down" /\ process' = "boot"
      BY <2>9 DEF Boot, gateway
    <3> QED BY <2>1, <2>2, <2>4, <2>5, <3>1, ReportsKeep
  <2> QED BY <1>3, <2>7, <2>8, <2>9
<1> QED BY <1>1, <1>2, <1>3

LEMMA CrashKeeps ==
  ASSUME IdsInv, Crash
  PROVE  IdsInv'
<1>t. IdsTyped /\ Counter /\ \A p \in Orders : IdsOf(p) /\ RowsOf(p)
  BY DEF IdsInv
<1>1. /\ UNCHANGED <<reserved, twsId, openRow, endedRow, placedId, filled, foreignId, twins>>
      /\ process' = "down" /\ nextId' = 0 /\ reports' = {} /\ adopted' = {}
      /\ stage' = [o \in Orders |-> IF stage[o] = "none" THEN "none" ELSE "gone"]
      /\ byTws' = [i \in OrderIds |-> NoOrder] /\ perm' = [o \in Orders |-> NoOrder]
      /\ applied' = [o \in Orders |-> {}]
  BY DEF Crash, rowVars
<1>2. \A o \in Orders : stage'[o] \in {"none", "gone"} /\ (stage'[o] = "none" => stage[o] = "none") BY <1>1
<1>3. Known' = {} /\ HasId' = HasId BY <1>1, <1>2 DEF Known, InMemory, HasId
<1>4. IdsTyped' BY <1>t, <1>1 DEF IdsTyped
<1>5. Counter'
  <2>1. Cardinality(HasId) \in Nat BY <1>t, HasIdCount
  <2> QED BY <1>t, <1>1, <1>3, <2>1 DEF Counter
<1>6. \A o \in Orders : IdsOf(o)' /\ RowsOf(o)' /\ CreditsOf(o)'
  <2> TAKE o \in Orders
  <2>1. IdsOf(o)' BY <1>t, <1>1, <1>2 DEF IdsOf
  <2>2. RowsOf(o)' BY <1>t, <1>1, <1>2 DEF RowsOf
  <2>3. CreditsOf(o)' BY <1>1, <1>2, <1>3 DEF CreditsOf
  <2> QED BY <2>1, <2>2, <2>3
<1>7. MapAgrees' /\ Mapped' /\ Apart' /\ Credited'
  BY <1>1, <1>3 DEF MapAgrees, Mapped, Apart, Credited
<1> QED BY <1>1, <1>4, <1>5, <1>6, <1>7 DEF IdsInv, PlacedIsKnown, FillIsComing

LEMMA RecoverKeeps ==
  ASSUME IdsInv, Recover
  PROVE  IdsInv'
<1>t. IdsTyped /\ Counter /\ \A p \in Orders : IdsOf(p) /\ RowsOf(p) /\ CreditsOf(p)
  BY DEF IdsInv
<1>1. /\ UNCHANGED <<stage, reserved, twsId, nextId, jobs, perm, applied, openRow, endedRow, placedId, filled,
                     foreignId, link>>
      /\ process = "boot" /\ process' = "up"
  BY DEF Recover, submission, rowVars
<1>2. /\ InMemory = {} /\ Known = {} /\ adopted = {} /\ InMemory' = {} /\ HasId' = HasId /\ Known' = adopted'
      /\ \A p \in Orders : applied[p] = {} /\ perm[p] = NoOrder
  <2>1. \A p \in Orders : p \notin Known BY <1>t, <1>1 DEF CreditsOf
  <2>2. Known \subseteq Orders BY <1>t DEF Known, InMemory, IdsTyped
  <2>3. Known = {} BY <2>1, <2>2
  <2>4. InMemory = {} /\ adopted = {} BY <2>3 DEF Known
  <2>5. InMemory' = {} BY <1>1, <2>4 DEF InMemory
  <2> QED BY <1>t, <1>1, <2>1, <2>3, <2>4, <2>5 DEF Known, HasId, CreditsOf
<1>3. \A i \in OrderIds : byTws[i] = NoOrder
  BY <1>2 DEF IdsInv, MapAgrees
<1>4. Executions' = Executions /\ \A p : Execution(p)' = Execution(p) BY <1>1 DEF Executions, Execution
<1>5. Counter' BY <1>t, <1>1, <1>2 DEF Counter
<1>6. ASSUME jobs = {} PROVE IdsInv'
  <2>1. UNCHANGED <<byTws, adopted, reports, twins>> /\ unadopted' = {o \in Orders : placedId[o] # 0}
    BY <1>6 DEF Recover
  <2>2. IdsTyped' BY <1>t, <1>1, <1>4, <2>1 DEF IdsTyped
  <2>3. \A p \in Orders : IdsOf(p)' /\ RowsOf(p)' /\ CreditsOf(p)'
    BY <1>t, <1>1, <1>2, <2>1 DEF IdsOf, RowsOf, CreditsOf
  <2>4. MapAgrees' /\ Mapped' /\ Apart' /\ Credited'
    BY <1>1, <1>2, <1>3, <2>1 DEF MapAgrees, Mapped, Apart, Credited
  <2>5. PlacedIsKnown' BY <1>1, <2>1 DEF PlacedIsKnown
  <2>6. FillIsComing'
    <3>1. \A p \in filled : p \in unadopted' BY <1>t, <2>1 DEF IdsTyped, IdsOf
    <3> QED BY <1>1, <3>1 DEF FillIsComing
  <2> QED BY <1>5, <2>2, <2>3, <2>4, <2>5, <2>6 DEF IdsInv
<1>7. ASSUME jobs # {} PROVE IdsInv'
  <2>1. /\ adopted' = openRow /\ unadopted' = {} /\ twins' = twins \cup Namesakes(openRow \cup endedRow)
        /\ reports' = IF link = "up" THEN reports \cup Executions ELSE reports
        /\ byTws' \in [OrderIds -> openRow \cup {NoOrder}]
        /\ \A i \in OrderIds : LET rows == {o \in openRow : twsId[o] = i} IN
             IF rows = {} THEN byTws'[i] = NoOrder ELSE byTws'[i] \in rows
    BY <1>7 DEF Recover, Adoptable
  <2>2. openRow \subseteq Orders /\ endedRow \subseteq Orders /\ twsId \in [Orders -> OrderIds \cup {0}]
    BY <1>t DEF IdsTyped
  <2>3. IdsTyped'
    <3>1. reports' \subseteq Executions' BY <1>t, <1>4, <2>1 DEF IdsTyped
    <3>2. byTws' \in [OrderIds -> Orders \cup {NoOrder}] BY <2>1, <2>2
    <3> QED BY <1>t, <1>1, <2>1, <2>2, <3>1, <3>2 DEF IdsTyped
  <2>4. \A p \in Orders : IdsOf(p)' /\ RowsOf(p)' /\ CreditsOf(p)'
    <3> TAKE p \in Orders
    <3>1. IdsOf(p)' BY <1>t, <1>1, <2>1 DEF IdsOf, RowsOf
    <3>2. RowsOf(p)' BY <1>t, <1>1 DEF RowsOf
    <3>3. CreditsOf(p)' BY <1>1, <1>2 DEF CreditsOf
    <3> QED BY <3>1, <3>2, <3>3
  <2>5. MapAgrees'
    <3>1. SUFFICES ASSUME NEW i \in OrderIds, byTws'[i] # NoOrder
                   PROVE  byTws'[i] \in openRow /\ twsId[byTws'[i]] = i
      BY <1>1, <1>2, <2>1 DEF MapAgrees
    <3>2. {o \in openRow : twsId[o] = i} # {} /\ byTws'[i] \in {o \in openRow : twsId[o] = i} BY <2>1, <3>1
    <3> QED BY <3>2
  <2>6. Mapped'
    <3>1. SUFFICES ASSUME NEW o \in openRow, o \notin twins' PROVE byTws'[twsId[o]] = o
      BY <1>1, <1>2, <2>1 DEF Mapped
    <3>2. twsId[o] \in OrderIds BY <1>t, <2>2, <3>1 DEF IdsOf, RowsOf
    <3>3. \A p \in openRow : twsId[p] = twsId[o] => p = o BY <2>1, <3>1 DEF Namesakes
    <3>4. {p \in openRow : twsId[p] = twsId[o]} = {o} BY <3>1, <3>3
    <3> QED BY <2>1, <3>2, <3>4
  <2>7. Apart'
    <3>1. SUFFICES ASSUME NEW o \in openRow, o \notin twins', NEW p \in Orders \ {o}, placedId[p] = twsId[o]
                   PROVE  FALSE
      BY <1>1, <1>2, <2>1 DEF Apart
    <3>2. twsId[o] \in OrderIds BY <1>t, <2>2, <3>1 DEF IdsOf, RowsOf
    <3>3. placedId[p] # 0 BY <3>1, <3>2, OrdersCount
    <3>4. p \in openRow \cup endedRow BY <1>t, <3>3 DEF RowsOf
    <3> QED BY <2>1, <3>1, <3>4 DEF Namesakes
  <2>8. Credited' BY <1>1, <1>2 DEF Credited
  <2>9. PlacedIsKnown' BY <1>t, <1>1, <1>2, <2>1 DEF PlacedIsKnown, RowsOf
  <2>10. FillIsComing' BY <1>1, <1>4, <2>1 DEF FillIsComing, Executions
  <2> QED BY <1>5, <2>3, <2>4, <2>5, <2>6, <2>7, <2>8, <2>9, <2>10 DEF IdsInv
<1> QED BY <1>6, <1>7

LEMMA ReserveKeeps ==
  ASSUME IdsInv, NEW o \in Orders, Reserve(o)
  PROVE  IdsInv'
<1>t. IdsTyped /\ Counter /\ \A p \in Orders : IdsOf(p) /\ RowsOf(p) /\ CreditsOf(p)
  BY DEF IdsInv
<1> DEFINE i == nextId
<1>1. /\ UNCHANGED <<adopted, perm, applied, openRow, endedRow, placedId, filled, foreignId, reports, process, link,
                     unadopted>>
      /\ stage[o] = "checked" /\ i # 0 /\ nextId' = i + 1
      /\ stage' = [stage EXCEPT ![o] = "reserved"] /\ twsId' = [twsId EXCEPT ![o] = i]
      /\ reserved' = [reserved EXCEPT ![o] = i] /\ byTws' = [byTws EXCEPT ![i] = o]
  BY DEF Reserve, rowVars, gateway
<1>2. /\ twins \subseteq twins' /\ SameId(adopted, i) \subseteq twins'
      /\ SameId(InMemory, i) \subseteq twins' /\ (SameId(InMemory, i) # {} => o \in twins')
  BY DEF Reserve
<1> HIDE DEF i
<1>3. i \in Nat /\ i <= Cardinality(HasId) + 1 BY <1>t DEF IdsTyped, Counter, i
<1>4. reserved[o] = 0 /\ twsId[o] = 0 /\ placedId[o] = 0 BY <1>t, <1>1 DEF IdsOf
<1>5. /\ Cardinality(HasId') = Cardinality(HasId) + 1 /\ Cardinality(HasId') <= Cardinality(Orders)
      /\ Cardinality(HasId) \in Nat
  <2>1. \A p \in Orders : reserved'[p] = IF p = o THEN i ELSE reserved[p] BY <1>t, <1>1 DEF IdsTyped
  <2>2. HasId' = HasId \cup {o} /\ o \notin HasId BY <1>1, <1>4, <2>1 DEF HasId
  <2>3. IsFiniteSet(HasId) /\ Cardinality(HasId) \in Nat BY <1>t, HasIdCount
  <2>4. Cardinality(HasId \cup {o}) = Cardinality(HasId) + 1 BY <2>2, <2>3, FS_AddElement
  <2>5. HasId \cup {o} \subseteq Orders BY DEF HasId
  <2>6. Cardinality(HasId \cup {o}) <= Cardinality(Orders) BY <2>5, OrderIdentityAssumption, FS_Subset
  <2> QED BY <2>2, <2>3, <2>4, <2>6
<1>6. i \in OrderIds BY <1>1, <1>3, <1>5, OrdersCount
<1>7. /\ \A p \in Orders : stage'[p] = IF p = o THEN "reserved" ELSE stage[p]
      /\ \A p \in Orders : twsId'[p] = IF p = o THEN i ELSE twsId[p]
      /\ \A p \in Orders : reserved'[p] = IF p = o THEN i ELSE reserved[p]
      /\ \A j \in OrderIds : byTws'[j] = IF j = i THEN o ELSE byTws[j]
  BY <1>t, <1>1 DEF IdsTyped
<1>8. InMemory' = InMemory \cup {o} /\ o \notin InMemory
  <2>1. \A p \in Orders : p \in InMemory' <=> p \in InMemory \cup {o} BY <1>7 DEF InMemory
  <2> QED BY <1>1, <2>1 DEF InMemory
<1>9. Known' = Known \cup {o} /\ Known \subseteq Orders BY <1>t, <1>1, <1>8 DEF Known, InMemory, IdsTyped
<1>10. o \notin Known
  <2>1. o \notin adopted BY <1>t, <1>4 DEF IdsOf
  <2> QED BY <1>8, <2>1 DEF Known
<1>11. IdsTyped'
  <2>1. Executions' = Executions BY <1>1 DEF Executions, Execution
  <2> QED BY <1>t, <1>1, <1>3, <1>6, <2>1 DEF IdsTyped
<1>12. Counter'
  <2>1. \A p \in Orders : reserved'[p] <= Cardinality(HasId')
    <3> TAKE p \in Orders
    <3>1. CASE p = o BY <1>3, <1>5, <1>7, <3>1
    <3>2. CASE p # o
      <4>1. reserved[p] \in OrderIds \cup {0} /\ reserved[p] <= Cardinality(HasId) BY <1>t DEF IdsTyped, Counter
      <4>2. reserved[p] \in Nat BY <4>1, OrdersCount
      <4> QED BY <1>5, <1>7, <3>2, <4>1, <4>2
    <3> QED BY <3>1, <3>2
  <2>2. \A p \in Orders : stage'[p] = "gone" => placedId[p] < i + 1
    <3> SUFFICES ASSUME NEW p \in Orders, stage'[p] = "gone" PROVE placedId[p] < i + 1
      OBVIOUS
    <3>1. stage[p] = "gone" BY <1>7
    <3>2. placedId[p] < i BY <1>t, <1>1, <3>1 DEF Counter, i
    <3>3. placedId[p] \in OrderIds \cup {0} BY <1>t DEF IdsTyped
    <3>4. placedId[p] \in Nat BY <3>3, OrdersCount
    <3> QED BY <1>3, <3>2, <3>4
  <2>3. nextId' <= Cardinality(HasId') + 1 BY <1>1, <1>3, <1>5
  <2> QED BY <1>1, <2>1, <2>2, <2>3 DEF Counter
<1>13. \A p \in Orders : IdsOf(p)' /\ RowsOf(p)' /\ CreditsOf(p)'
  <2> TAKE p \in Orders
  <2>1. IdsOf(p)' BY <1>t, <1>1, <1>2, <1>4, <1>7 DEF IdsOf
  <2>2. RowsOf(p)' BY <1>t, <1>1, <1>4, <1>7 DEF RowsOf
  <2>3. \A x : IdOf(x)' = IdOf(x) BY <1>1 DEF IdOf
  <2>4. process = "up" BY <1>t, <1>1 DEF CreditsOf
  <2>5. CASE p = o BY <2>1, <2>2, <1>t, <1>1, <1>9, <1>10, <2>4, <2>5 DEF CreditsOf
  <2>6. CASE p # o BY <2>1, <2>2, <1>t, <1>1, <1>7, <1>9, <2>3, <2>4, <2>6 DEF CreditsOf
  <2> QED BY <2>1, <2>2, <2>5, <2>6
<1>14. MapAgrees'
  <2>1. SUFFICES ASSUME NEW j \in OrderIds, byTws'[j] # NoOrder
                 PROVE  byTws'[j] \in Known' /\ twsId'[byTws'[j]] = j
    BY DEF MapAgrees
  <2>2. CASE j = i BY <1>7, <1>9, <2>2
  <2>3. CASE j # i
    <3>1. byTws'[j] = byTws[j] /\ byTws[j] \in Known /\ twsId[byTws[j]] = j
      BY <1>7, <2>1, <2>3 DEF IdsInv, MapAgrees
    <3> QED BY <1>7, <1>9, <1>10, <3>1
  <2> QED BY <2>2, <2>3
<1>15. \A p \in Known \ twins' : /\ p # o /\ p \in Orders /\ twsId[p] # i /\ twsId[p] \in OrderIds /\ p \notin twins
                                  /\ twsId'[p] = twsId[p]
  <2> TAKE p \in Known \ twins'
  <2>1. p \in Orders /\ p # o /\ p \notin twins BY <1>2, <1>9, <1>10
  <2>2. twsId[p] # i BY <1>2 DEF SameId, Known
  <2>3. reserved[p] # 0 BY <1>t, <2>1 DEF IdsOf, Known, InMemory
  <2>4. twsId[p] \in OrderIds BY <1>t, <2>1, <2>3 DEF IdsOf, IdsTyped
  <2> QED BY <1>7, <2>1, <2>2, <2>4
<1>16. Mapped'
  <2>1. SUFFICES ASSUME NEW p \in Known' \ twins' PROVE byTws'[twsId'[p]] = p
    BY DEF Mapped
  <2>2. CASE p = o BY <1>6, <1>7, <2>2
  <2>3. CASE p # o
    <3>1. p \in Known \ twins' BY <1>9, <2>1, <2>3
    <3>2. byTws[twsId[p]] = p BY <1>15, <3>1 DEF IdsInv, Mapped
    <3> QED BY <1>7, <1>15, <3>1, <3>2
  <2> QED BY <2>2, <2>3
<1>17. Apart'
  <2>1. SUFFICES ASSUME NEW p \in Known' \ twins', NEW q \in Orders \ {p}
                 PROVE  /\ q \in InMemory' => twsId'[p] # twsId'[q] /\ twsId'[p] # reserved'[q]
                        /\ placedId[q] # twsId'[p]
    BY <1>1 DEF Apart
  <2>2. CASE p = o
    <3>1. q # o /\ twsId'[p] = i /\ twsId'[q] = twsId[q] /\ reserved'[q] = reserved[q] BY <1>7, <2>1, <2>2
    <3>2. SameId(InMemory, i) = {} BY <1>2, <2>1, <2>2
    <3>3. q \in InMemory => i # twsId[q] /\ i # reserved[q] BY <3>2 DEF SameId
    <3>4. placedId[q] # i
      <4>1. CASE q \in InMemory
        <5>1. placedId[q] \in {0, reserved[q]} BY <1>t DEF IdsOf
        <5> QED BY <1>1, <3>3, <4>1, <5>1
      <4>2. CASE stage[q] = "gone"
        <5>1. placedId[q] < i BY <1>t, <1>1, <4>2 DEF Counter, i
        <5> QED BY <1>3, <5>1
      <4>3. CASE stage[q] \in {"none", "checked"}
        <5>1. placedId[q] = 0 BY <1>t, <4>3 DEF IdsOf
        <5> QED BY <1>1, <5>1
      <4> QED BY <1>t, <4>1, <4>2, <4>3 DEF InMemory, IdsTyped
    <3> QED BY <1>8, <3>1, <3>3, <3>4
  <2>3. CASE p # o
    <3>1. p \in Known \ twins' BY <1>9, <2>1, <2>3
    <3>2. p \in Known \ twins /\ twsId'[p] = twsId[p] /\ twsId[p] # i BY <1>15, <3>1
    <3>3. /\ q \in InMemory => twsId[p] # twsId[q] /\ twsId[p] # reserved[q]
          /\ placedId[q] # twsId[p]
      BY <3>2 DEF IdsInv, Apart
    <3>4. CASE q = o BY <1>7, <3>2, <3>3, <3>4
    <3>5. CASE q # o BY <1>7, <1>8, <3>2, <3>3, <3>5
    <3> QED BY <3>4, <3>5
  <2> QED BY <2>2, <2>3
<1>18. Credited'
  <2>1. SUFFICES ASSUME NEW p \in Orders \ twins', NEW x \in applied[p]
                 PROVE  x = p \/ (x = Foreign /\ foreignId = twsId'[p])
    BY <1>1 DEF Credited
  <2>2. p # o BY <1>t, <1>10 DEF CreditsOf
  <2> QED BY <1>2, <1>7, <2>1, <2>2 DEF IdsInv, Credited
<1>19. PlacedIsKnown' BY <1>1, <1>9 DEF IdsInv, PlacedIsKnown
<1>20. FillIsComing'
  <2>1. \A p : Execution(p)' = Execution(p) BY <1>1 DEF Execution
  <2> QED BY <1>1, <1>2, <2>1 DEF IdsInv, FillIsComing
<1> QED BY <1>11, <1>12, <1>13, <1>14, <1>16, <1>17, <1>18, <1>19, <1>20 DEF IdsInv

(* What is on its way is an execution under the id it was placed with.     *)
LEMMA ReportAt ==
  ASSUME IdsInv, NEW m \in reports
  PROVE  /\ m.of \in Orders \cup {Foreign} /\ m.id = IdOf(m.of) /\ m.id \in OrderIds
         /\ \A o \in Orders : m.of = o => m = Execution(o)
<1>t. IdsTyped /\ \A p \in Orders : IdsOf(p) BY DEF IdsInv
<1>1. m \in Executions BY <1>t DEF IdsTyped
<1>2. ASSUME NEW f \in filled, m = Execution(f)
      PROVE  /\ m.of \in Orders \cup {Foreign} /\ m.id = IdOf(m.of) /\ m.id \in OrderIds
             /\ \A o \in Orders : m.of = o => m = Execution(o)
  <2>1. f \in Orders /\ placedId[f] # 0 /\ placedId[f] \in OrderIds BY <1>t DEF IdsTyped, IdsOf
  <2>2. m.of = f /\ m.id = placedId[f] BY <1>2 DEF Execution
  <2> QED BY <1>2, <2>1, <2>2, OrdersCount DEF IdOf
<1>3. ASSUME foreignId # 0, m = [of |-> Foreign, id |-> foreignId]
      PROVE  /\ m.of \in Orders \cup {Foreign} /\ m.id = IdOf(m.of) /\ m.id \in OrderIds
             /\ \A o \in Orders : m.of = o => m = Execution(o)
  <2>1. m.of = Foreign /\ m.id = foreignId /\ foreignId \in OrderIds BY <1>t, <1>3 DEF IdsTyped
  <2> QED BY <2>1, OrdersCount DEF IdOf
<1> QED BY <1>1, <1>2, <1>3 DEF Executions

(* An order is found by the id, or is one whose id the map does not have.  *)
LEMMA ResolvedAt ==
  ASSUME IdsInv, NEW m \in reports, NEW z \in Resolved(m)
  PROVE  /\ z \in Known /\ z \in Orders
         /\ \/ byTws[m.id] = z /\ twsId[z] = m.id
            \/ byTws[m.id] = NoOrder /\ z \in twins /\ (z \in InMemory \/ twsId[z] = m.id)
<1>t. IdsTyped /\ \A p \in Orders : IdsOf(p) /\ CreditsOf(p) BY DEF IdsInv
<1>m. m.of \in Orders \cup {Foreign} /\ m.id = IdOf(m.of) /\ m.id \in OrderIds BY ReportAt
<1>k. Known \subseteq Orders /\ InMemory \subseteq Known BY <1>t DEF Known, InMemory, IdsTyped
<1>1. CASE byTws[m.id] # NoOrder
  <2>1. z = byTws[m.id] BY <1>1 DEF Resolved
  <2>2. z \in Known /\ twsId[z] = m.id BY <1>1, <1>m, <2>1 DEF IdsInv, MapAgrees
  <2> QED BY <1>k, <2>1, <2>2
<1>2. CASE byTws[m.id] = NoOrder
  <2>1. (z \in Known /\ perm[z] = m.of) \/ z \in Unmapped BY <1>2 DEF Resolved
  <2>2. CASE z \in Known /\ perm[z] = m.of
    <3>1. m.of # NoOrder BY <1>m, OrdersCount
    <3>2. twsId[z] = m.id BY <1>t, <1>k, <1>m, <2>2, <3>1 DEF CreditsOf
    <3>3. z \in twins
      <4>1. SUFFICES ASSUME z \notin twins PROVE FALSE OBVIOUS
      <4>2. byTws[twsId[z]] = z BY <2>2, <4>1 DEF IdsInv, Mapped
      <4> QED BY <1>2, <1>k, <2>2, <3>2, <4>2, OrdersCount
    <3> QED BY <1>2, <1>k, <2>2, <3>2, <3>3
  <2>3. CASE z \in Unmapped
    <3>1. z \in InMemory /\ z \in Known /\ z \in Orders /\ \A j \in OrderIds : byTws[j] # z
      BY <1>k, <2>3 DEF Unmapped
    <3>2. z \in twins
      <4>1. SUFFICES ASSUME z \notin twins PROVE FALSE OBVIOUS
      <4>2. byTws[twsId[z]] = z BY <3>1, <4>1 DEF IdsInv, Mapped
      <4>3. twsId[z] \in OrderIds BY <1>t, <3>1 DEF IdsOf, InMemory, IdsTyped
      <4> QED BY <3>1, <4>2, <4>3
    <3> QED BY <1>2, <3>1, <3>2
  <2> QED BY <2>1, <2>2, <2>3
<1> QED BY <1>1, <1>2

(* The fill of an order that is not excepted finds it.                     *)
LEMMA FindsItsOrder ==
  ASSUME IdsInv, process = "up", NEW o \in filled \ (twins \cup unadopted \cup endedRow)
  PROVE  Resolved(Execution(o)) = {o}
<1>t. IdsTyped /\ \A p \in Orders : IdsOf(p) BY DEF IdsInv
<1>1. o \in Orders /\ placedId[o] # 0 BY <1>t DEF IdsTyped, IdsOf
<1>2. o \in Known \ twins BY <1>1 DEF IdsInv, PlacedIsKnown
<1>3. placedId[o] = twsId[o] BY <1>t, <1>1 DEF IdsOf
<1>4. byTws[placedId[o]] = o BY <1>2, <1>3 DEF IdsInv, Mapped
<1>5. Execution(o).id = placedId[o] BY DEF Execution
<1> QED BY <1>1, <1>4, <1>5, OrdersCount DEF Resolved

LEMMA ExecutionKeeps ==
  ASSUME IdsInv, NEW m \in reports, OnExecution(m)
  PROVE  IdsInv'
<1>t. IdsTyped /\ Counter /\ \A p \in Orders : IdsOf(p) /\ RowsOf(p) /\ CreditsOf(p)
  BY DEF IdsInv
<1>m. /\ m.of \in Orders \cup {Foreign} /\ m.id = IdOf(m.of) /\ m.id \in OrderIds
      /\ \A o \in Orders : m.of = o => m = Execution(o)
  BY ReportAt
<1>1. /\ UNCHANGED <<stage, reserved, nextId, openRow, endedRow, placedId, filled, foreignId, process, link, twins,
                     unadopted>>
      /\ reports' = reports \ {m}
  BY DEF OnExecution, rowVars
<1>2. Executions' = Executions /\ (\A p : Execution(p)' = Execution(p)) /\ (\A x : IdOf(x)' = IdOf(x))
  BY <1>1 DEF Executions, Execution, IdOf
<1>3. InMemory' = InMemory /\ HasId' = HasId BY <1>1 DEF InMemory, HasId
<1>4. Counter' BY <1>t, <1>1, <1>3 DEF Counter
<1>5. ASSUME Resolved(m) = {}, UNCHANGED <<twsId, maps>> PROVE IdsInv'
  <2>1. UNCHANGED <<twsId, byTws, adopted, perm, applied>> BY <1>5 DEF maps
  <2>2. Known' = Known /\ MapAgrees' /\ Mapped' /\ Apart' /\ Credited'
    BY <1>1, <1>3, <2>1, MapsQuiet
  <2>3. IdsTyped' BY <1>t, <1>1, <1>2, <2>1 DEF IdsTyped
  <2>4. \A p \in Orders : IdsOf(p)' /\ RowsOf(p)' /\ CreditsOf(p)'
    BY <1>t, <1>1, <1>2, <2>1, <2>2 DEF IdsOf, RowsOf, CreditsOf
  <2>5. PlacedIsKnown' BY <1>1, <2>2 DEF IdsInv, PlacedIsKnown
  <2>6. FillIsComing'
    <3>1. SUFFICES ASSUME process = "up", link = "up", NEW o \in filled \ (twins \cup unadopted \cup endedRow)
                   PROVE  o \in applied[o] \/ Execution(o) \in reports'
      BY <1>1, <1>2, <2>1 DEF FillIsComing
    <3>2. Execution(o) # m BY <1>5, <3>1, FindsItsOrder
    <3> QED BY <1>1, <3>1, <3>2 DEF IdsInv, FillIsComing
  <2> QED BY <1>4, <2>2, <2>3, <2>4, <2>5, <2>6 DEF IdsInv
<1>6. ASSUME NEW z \in Resolved(m), byTws' = Bound(z, m.id), twsId' = [twsId EXCEPT ![z] = m.id],
             perm' = [perm EXCEPT ![z] = m.of], applied' = [applied EXCEPT ![z] = @ \cup {m.of}], UNCHANGED adopted
      PROVE  IdsInv'
  <2>1. /\ z \in Known /\ z \in Orders
        /\ \/ byTws[m.id] = z /\ twsId[z] = m.id
           \/ byTws[m.id] = NoOrder /\ z \in twins /\ (z \in InMemory \/ twsId[z] = m.id)
    BY ResolvedAt
  <2>2. Known' = Known /\ Known \subseteq Orders BY <1>t, <1>3, <1>6 DEF Known, InMemory, IdsTyped
  <2>3. /\ \A p \in Orders : twsId'[p] = IF p = z THEN m.id ELSE twsId[p]
        /\ \A p \in Orders : perm'[p] = IF p = z THEN m.of ELSE perm[p]
        /\ \A p \in Orders : applied'[p] = IF p = z THEN applied[z] \cup {m.of} ELSE applied[p]
    BY <1>t, <1>6, <2>1 DEF IdsTyped
  <2>4. \/ byTws[m.id] = z /\ byTws' = byTws /\ twsId[z] = m.id
        \/ /\ byTws[m.id] = NoOrder /\ z \in twins /\ (z \in InMemory \/ twsId[z] = m.id)
           /\ \A j \in OrderIds : byTws'[j] = IF j = m.id THEN z ELSE IF j = twsId[z] THEN NoOrder ELSE byTws[j]
    <3>1. CASE byTws[m.id] = z BY <1>6, <2>1, <3>1, OrdersCount DEF Bound
    <3>2. CASE byTws[m.id] # z
      <4>1. byTws' = [byTws EXCEPT ![twsId[z]] = NoOrder, ![m.id] = z] BY <1>6, <3>2 DEF Bound
      <4>2. \A j \in OrderIds : byTws'[j] = IF j = m.id THEN z ELSE IF j = twsId[z] THEN NoOrder ELSE byTws[j]
        BY <1>t, <1>m, <4>1 DEF IdsTyped
      <4> QED BY <2>1, <3>2, <4>2
    <3> QED BY <3>1, <3>2
  <2>5. IdsTyped'
    <3>1. byTws' \in [OrderIds -> Orders \cup {NoOrder}]
      BY <1>t, <1>6, <2>1 DEF IdsTyped, Bound
    <3>2. /\ twsId' \in [Orders -> OrderIds \cup {0}] /\ perm' \in [Orders -> Orders \cup {Foreign, NoOrder}]
          /\ applied' \in [Orders -> SUBSET (Orders \cup {Foreign})]
      BY <1>t, <1>m, <1>6 DEF IdsTyped
    <3> QED BY <1>t, <1>1, <1>2, <1>6, <3>1, <3>2 DEF IdsTyped
  <2>6. \A p \in Orders : IdsOf(p)' /\ RowsOf(p)' /\ CreditsOf(p)'
    <3> TAKE p \in Orders
    <3>1. IdsOf(p)'
      <4>1. CASE p = z
        <5>1. reserved[z] # 0 BY <1>t, <2>1 DEF IdsOf, Known, InMemory
        <5>2. m.id # 0 BY <1>m, OrdersCount
        <5> QED BY <1>t, <1>1, <1>6, <2>1, <2>3, <4>1, <5>1, <5>2 DEF IdsOf
      <4>2. CASE p # z BY <1>t, <1>1, <1>6, <2>3, <4>2 DEF IdsOf
      <4> QED BY <4>1, <4>2
    <3>2. RowsOf(p)' BY <1>t, <1>1 DEF RowsOf
    <3>3. CreditsOf(p)'
      <4>1. CASE p = z
        <5>1. IdOf(m.of) # 0 BY <1>m, OrdersCount
        <5> QED BY <1>t, <1>m, <1>1, <1>2, <2>1, <2>2, <2>3, <4>1, <5>1 DEF CreditsOf
      <4>2. CASE p # z BY <1>t, <1>1, <1>2, <2>2, <2>3, <4>2 DEF CreditsOf
      <4> QED BY <4>1, <4>2
    <3> QED BY <3>1, <3>2, <3>3
  <2>7. \A p \in Known \ twins : p \in Orders /\ twsId'[p] = twsId[p] /\ twsId[p] \in OrderIds /\ byTws[twsId[p]] = p
    <3> TAKE p \in Known \ twins
    <3>1. p \in Orders /\ byTws[twsId[p]] = p BY <2>2 DEF IdsInv, Mapped
    <3>2. twsId[p] \in OrderIds BY <1>t, <3>1 DEF IdsOf, Known, InMemory, IdsTyped
    <3> QED BY <2>1, <2>3, <3>1, <3>2
  <2>8. MapAgrees'
    <3>1. SUFFICES ASSUME NEW j \in OrderIds, byTws'[j] # NoOrder
                   PROVE  byTws'[j] \in Known /\ twsId'[byTws'[j]] = j
      BY <2>2 DEF MapAgrees
    <3>2. byTws[j] # NoOrder => byTws[j] \in Known /\ twsId[byTws[j]] = j BY DEF IdsInv, MapAgrees
    <3>3. CASE byTws' = byTws /\ twsId[z] = m.id
      BY <2>2, <2>3, <3>1, <3>2, <3>3
    <3>4. CASE \A k \in OrderIds : byTws'[k] = IF k = m.id THEN z ELSE IF k = twsId[z] THEN NoOrder ELSE byTws[k]
      <4>1. CASE j = m.id BY <2>1, <2>3, <3>4, <4>1
      <4>2. CASE j # m.id
        <5>1. byTws'[j] = byTws[j] /\ j # twsId[z] BY <3>1, <3>4, <4>2
        <5> QED BY <2>2, <2>3, <3>1, <3>2, <5>1
      <4> QED BY <4>1, <4>2
    <3> QED BY <2>4, <3>3, <3>4
  <2>9. Mapped'
    <3>1. SUFFICES ASSUME NEW p \in Known \ twins PROVE byTws'[twsId[p]] = p
      BY <1>1, <2>2, <2>7 DEF Mapped
    <3>2. CASE byTws' = byTws BY <2>7, <3>2
    <3>3. CASE /\ byTws[m.id] = NoOrder /\ z \in twins /\ (z \in InMemory \/ twsId[z] = m.id)
               /\ \A j \in OrderIds : byTws'[j] = IF j = m.id THEN z ELSE IF j = twsId[z] THEN NoOrder ELSE byTws[j]
      <4>1. twsId[p] # m.id BY <2>7, <3>3, OrdersCount
      <4>2. z \in InMemory => twsId[p] # twsId[z] BY <2>1, <3>1, <3>3 DEF IdsInv, Apart
      <4> QED BY <2>7, <3>3, <4>1, <4>2
    <3> QED BY <2>4, <3>2, <3>3
  <2>10. Apart'
    <3>1. SUFFICES ASSUME NEW p \in Known \ twins, NEW q \in Orders \ {p}
                   PROVE  /\ q \in InMemory => twsId[p] # twsId'[q] /\ twsId[p] # reserved[q]
                          /\ placedId[q] # twsId[p]
      BY <1>1, <1>3, <2>2, <2>7 DEF Apart
    <3>2. /\ q \in InMemory => twsId[p] # twsId[q] /\ twsId[p] # reserved[q]
          /\ placedId[q] # twsId[p]
      BY DEF IdsInv, Apart
    <3>3. CASE q = z
      <4>1. CASE twsId[z] = m.id BY <2>3, <3>2, <3>3, <4>1
      <4>2. CASE byTws[m.id] = NoOrder
        <5>1. twsId[p] # m.id BY <2>7, <4>2, OrdersCount
        <5> QED BY <2>3, <3>2, <3>3, <5>1
      <4> QED BY <2>1, <4>1, <4>2
    <3>4. CASE q # z BY <2>3, <3>2, <3>4
    <3> QED BY <3>3, <3>4
  <2>11. Credited'
    <3>1. SUFFICES ASSUME NEW p \in Orders \ twins, NEW x \in applied'[p]
                   PROVE  x = p \/ (x = Foreign /\ foreignId = twsId'[p])
      BY <1>1 DEF Credited
    <3>2. CASE x \in applied[p]
      <4>1. x = p \/ (x = Foreign /\ foreignId = twsId[p]) BY <3>2 DEF IdsInv, Credited
      <4> QED BY <2>1, <2>3, <3>1, <4>1
    <3>3. CASE x \notin applied[p]
      <4>1. p = z /\ x = m.of BY <2>3, <3>1, <3>3
      <4>2. twsId[z] = m.id /\ twsId'[p] = m.id BY <2>1, <2>3, <3>1, <4>1
      <4>3. CASE m.of = Foreign BY <1>m, <4>1, <4>2, <4>3 DEF IdOf
      <4>4. CASE m.of \in Orders
        <5>1. placedId[m.of] = twsId[z] BY <1>m, <4>2, <4>4, OrdersCount DEF IdOf
        <5> QED BY <2>1, <3>1, <4>1, <4>4, <5>1 DEF IdsInv, Apart
      <4> QED BY <1>m, <4>3, <4>4
    <3> QED BY <3>2, <3>3
  <2>12. PlacedIsKnown' BY <1>1, <2>2 DEF IdsInv, PlacedIsKnown
  <2>13. FillIsComing'
    <3>1. SUFFICES ASSUME process = "up", link = "up", NEW o \in filled \ (twins \cup unadopted \cup endedRow)
                   PROVE  o \in applied'[o] \/ Execution(o) \in reports'
      BY <1>1, <1>2 DEF FillIsComing
    <3>2. o \in Orders BY <1>t DEF IdsTyped
    <3>3. CASE Execution(o) = m
      <4>1. z = o BY <3>1, <3>3, FindsItsOrder
      <4>2. m.of = o BY <3>3 DEF Execution
      <4> QED BY <2>1, <2>3, <4>1, <4>2
    <3>4. CASE Execution(o) # m
      <4>1. o \in applied[o] \/ Execution(o) \in reports BY <3>1 DEF IdsInv, FillIsComing
      <4> QED BY <1>1, <2>3, <3>2, <3>4, <4>1
    <3> QED BY <3>3, <3>4
  <2> QED BY <1>4, <2>5, <2>6, <2>8, <2>9, <2>10, <2>11, <2>12, <2>13 DEF IdsInv
<1> QED BY <1>5, <1>6 DEF OnExecution

LEMMA IdsStep == IdsInv /\ [Next]_vars => IdsInv'
<1> SUFFICES ASSUME IdsInv, [Next]_vars PROVE IdsInv'
  OBVIOUS
<1>1. CASE IdentityNext
  BY <1>1, BookkeepingKeeps, ReserveKeeps, PlaceKeeps, BrokerSideKeeps, ExecutionKeeps, CrashKeeps, RecoverKeeps
  DEF IdentityNext
<1>2. CASE UNCHANGED identity
  <2>1. UNCHANGED <<stage, reserved, twsId, nextId, byTws, adopted, perm, applied, openRow, endedRow, placedId,
                    filled, foreignId, reports, process, link, twins, unadopted>>
    BY <1>2 DEF identity, submission, maps, rowVars, gateway
  <2>2. \A o \in Orders : RowsOf(o) BY DEF IdsInv
  <2>3. \A o \in Orders : RowsOf(o)' BY <2>1, <2>2 DEF RowsOf
  <2>4. /\ stage \in [Orders -> {"none", "checked", "reserved", "recorded", "placed", "gone"}]
        /\ openRow \subseteq Orders /\ endedRow \subseteq Orders
    BY DEF IdsInv, IdsTyped
  <2> QED BY <2>1, <2>3, <2>4, StagesKeep
<1> QED BY <1>1, <1>2 DEF Next, vars

(* Whatever crashes, drops and handshakes came between, for any number of  *)
(* orders, ids and faults: an order that shared its id with no other is    *)
(* credited with its own fill or one of another client under that number,  *)
(* and has its fill when nothing is on its way.                            *)
THEOREM FillsFound == Spec => []FillsFindTheirOrder
<1>1. Init => IdsInv BY IdsStart DEF Init
<1>2. IdsInv => FillsFindTheirOrder
  BY DEF IdsInv, Credited, FillIsComing, FillsFindTheirOrder
<1> QED BY <1>1, <1>2, IdsStep, PTL DEF Spec

----------------------------------------------------------------------------
(* The market-data lines.  A request that fails, or the end of an older    *)
(* line, takes whatever request its contract has by then out of the map,   *)
(* so a contract nothing happened to must have no older line with          *)
(* listeners; its watched trades then listen to the request the map has,   *)
(* and that request is live, or a callback or the reconnect thread is      *)
(* about to make it.                                                       *)

MdRecords ==
  [reqOf : [Contracts -> {0} \cup Ids], of : [Ids -> Contracts \cup {None}],
   hear : [Ids -> SUBSET Trades], next : Nat \ {0}, live : SUBSET Ids, jobs : SUBSET Jobs]

LinesTyped ==
  /\ md \in MdRecords /\ legs \subseteq Trades /\ held \subseteq Trades

Unused ==
  \A r \in Ids : r >= md.next => md.hear[r] = {} /\ <<"cancel", r, None>> \notin md.jobs

LineOf(c) ==
  md.reqOf[c] # 0 =>
    /\ md.of[md.reqOf[c]] = c /\ md.reqOf[c] < md.next /\ md.hear[md.reqOf[c]] # {}
    /\ <<"cancel", md.reqOf[c], None>> \notin md.jobs

OneLine(c) == \A r \in Ids : md.of[r] = c /\ md.hear[r] # {} => md.reqOf[c] = r

Listens(t, c) ==
  \/ <<"qualify", t, c>> \in md.jobs
  \/ md.reqOf[c] # 0 /\ t \in md.hear[md.reqOf[c]]

AllListen(c) == \A t \in legs : c \in Legs[t] => Listens(t, c)

OnItsWay(c) ==
  md.reqOf[c] # 0 =>
    \/ md.reqOf[c] \in md.live \/ sock # "ready" \/ ToBeRestored
    \/ <<"send", md.reqOf[c], None>> \in md.jobs \/ <<"resub", md.reqOf[c], None>> \in md.jobs

NothingYet ==
  /\ held = Hydrated /\ legs = {} /\ cool = {} /\ starved = {} /\ skipped = {}
  /\ md.jobs = {} /\ md.live = {} /\ \A c \in Contracts : md.reqOf[c] = 0

WhoIsWatched ==
  IF at.main \in {"run", "off"} THEN held \ skipped \subseteq legs ELSE NothingYet

Opening == sock = "open" => at.loop = "wait" \/ at.main = "wait"

LinesInv ==
  client = "lines" =>
    /\ LinesTyped /\ Unused /\ WhoIsWatched /\ Opening
    /\ \A c \in Contracts : LineOf(c)
    /\ \A c \in Contracts \ starved : OneLine(c) /\ AllListen(c) /\ OnItsWay(c)

LEMMA LinesStart == SessionInit /\ PnlInit => LinesInv
<1> SUFFICES ASSUME SessionInit, PnlInit PROVE LinesInv
  OBVIOUS
<1>1. /\ md = [reqOf |-> [c \in Contracts |-> 0], of |-> [r \in Ids |-> None],
               hear |-> [r \in Ids |-> {}], next |-> 1, live |-> {}, jobs |-> {}]
      /\ held = Hydrated /\ legs = {} /\ cool = {} /\ starved = {} /\ skipped = {}
  BY DEF PnlInit
<1>2. sock = "closed" /\ at.main = "boot" BY DEF SessionInit
<1>3. LinesTyped BY <1>1, PnlAssumption DEF LinesTyped, MdRecords
<1>4. /\ md.jobs = {} /\ md.live = {} /\ \A c \in Contracts : md.reqOf[c] = 0
      /\ \A r \in Ids : md.hear[r] = {}
  BY <1>1
<1>5. WhoIsWatched BY <1>1, <1>2, <1>4 DEF WhoIsWatched, NothingYet
<1> QED BY <1>1, <1>2, <1>3, <1>4, <1>5 DEF LinesInv, Unused, LineOf, OneLine, AllListen, OnItsWay, Opening

(* What a paced call changes of the maps.                                  *)
PacedTo(m, k, rs, granted, n) ==
  /\ n \in MdRecords
  /\ n.reqOf = m.reqOf /\ n.of = m.of /\ n.hear = m.hear /\ n.next = m.next
  /\ \A j : j \in n.jobs <=> j \in m.jobs \/ \E r \in rs \ granted : j = <<k, r, None>>
  /\ k = "cancel" => n.live = m.live \ (rs \cap granted)
  /\ k # "cancel" /\ sock = "ready" => n.live = m.live \cup (rs \cap granted)
  /\ k # "cancel" /\ sock # "ready" => n.live = m.live

LEMMA PacedFields ==
  ASSUME NEW m \in MdRecords, NEW k \in {"send", "cancel", "resub"}, NEW rs \in SUBSET Ids,
         NEW granted, NEW n, n = PacedCalls(m, k, rs, granted)
  PROVE  PacedTo(m, k, rs, granted, n)
<1> USE DEF PacedTo
<1> DEFINE go == rs \cap granted
           js == {<<k, r, None>> : r \in rs \ go}
           l  == Later(m, js)
<1>1. js \subseteq Jobs BY DEF Jobs
<1>2. /\ l \in MdRecords /\ l.jobs = m.jobs \cup js
      /\ l.reqOf = m.reqOf /\ l.of = m.of /\ l.hear = m.hear /\ l.next = m.next /\ l.live = m.live
  BY <1>1 DEF Later, MdRecords
<1>3. \A j : j \in js <=> \E r \in rs \ granted : j = <<k, r, None>> OBVIOUS
<1>4. n = IF k = "cancel" THEN Ended(l, go) ELSE Sent(l, go) BY DEF PacedCalls
<1> HIDE DEF js, l
<1>5. CASE k = "cancel"
  <2>1. n = [l EXCEPT !.live = @ \ go] BY <1>4, <1>5 DEF Ended
  <2> QED BY <1>2, <1>3, <1>5, <2>1 DEF MdRecords
<1>6. CASE k # "cancel" /\ sock = "ready"
  <2>1. n = [l EXCEPT !.live = @ \cup go] BY <1>4, <1>6 DEF Sent
  <2> QED BY <1>2, <1>3, <1>6, <2>1 DEF MdRecords
<1>7. CASE k # "cancel" /\ sock # "ready"
  <2>1. n = l BY <1>4, <1>7 DEF Sent
  <2> QED BY <1>2, <1>3, <1>7, <2>1
<1> QED BY <1>5, <1>6, <1>7

(* Ids handed out are new ones, one for each contract.                     *)
LEMMA NumbersAreNew ==
  ASSUME LinesTyped, NEW want, NEW num \in Numbers(want)
  PROVE  /\ \A c \in New(want) : num[c] \in Ids /\ num[c] >= md.next
                                   /\ num[c] < md.next + Cardinality(New(want))
         /\ \A c, d \in New(want) : num[c] = num[d] => c = d
         /\ Cardinality(New(want)) \in Nat /\ md.next \in Nat
         /\ New(want) \subseteq Contracts
<1>1. md.next \in Nat /\ md.next > 0 BY DEF LinesTyped, MdRecords
<1>2. New(want) \subseteq Contracts BY DEF New
<1>3. Cardinality(New(want)) \in Nat
  <2>1. IsFiniteSet(New(want)) BY <1>2, PnlAssumption, FS_Subset
  <2> QED BY <2>1, FS_CardinalityType
<1>4. /\ md.next + Cardinality(New(want)) <= MaxLines + 1
      /\ num \in Injection(New(want), md.next .. md.next + Cardinality(New(want)) - 1)
  BY DEF Numbers
<1>5. /\ num \in [New(want) -> md.next .. md.next + Cardinality(New(want)) - 1]
      /\ \A c, d \in New(want) : num[c] = num[d] => c = d
  BY <1>4 DEF Injection, IsInjective
<1>6. \A c \in New(want) : num[c] \in md.next .. md.next + Cardinality(New(want)) - 1 BY <1>5
<1> DEFINE n == Cardinality(New(want))
<1>7. n \in Nat /\ md.next + n <= MaxLines + 1 BY <1>3, <1>4
<1>8. \A c \in New(want) : num[c] \in md.next .. md.next + n - 1 BY <1>6
<1> HIDE DEF n
<1>9. MaxLines \in Nat BY PnlAssumption
<1>10. \A c \in New(want) : num[c] \in 1 .. MaxLines /\ num[c] >= md.next /\ num[c] < md.next + n
  BY <1>1, <1>7, <1>8, <1>9
<1> QED BY <1>1, <1>2, <1>3, <1>5, <1>10 DEF Ids, n

(* Subscriptions.  What they leave of the maps, whichever callback has     *)
(* just been taken off the list.                                           *)
LEMMA SubscribedFields ==
  ASSUME LinesTyped, NEW js, NEW m \in MdRecords, m = [md EXCEPT !.jobs = js],
         NEW want, NEW num \in Numbers(want), NEW granted, md' = Subscribed(m, want, num, granted)
  PROVE  /\ md' \in MdRecords /\ md'.next = md.next + Cardinality(New(want))
         /\ \A c \in Contracts : md'.reqOf[c] = IF c \in New(want) THEN num[c] ELSE md.reqOf[c]
         /\ \A c \in New(want) : md'.of[num[c]] = c
         /\ \A r \in Ids : (\A c \in New(want) : num[c] # r) => md'.of[r] = md.of[r]
         /\ \A r \in Ids : md'.hear[r] = md.hear[r] \cup
              {t \in Trades : \E c \in Contracts : md'.reqOf[c] = r /\ <<t, c>> \in want}
         /\ js \subseteq md'.jobs
         /\ \A r : <<"cancel", r, None>> \in md'.jobs => <<"cancel", r, None>> \in js
         /\ md.live \subseteq md'.live
         /\ \A c \in New(want) : num[c] \in md'.live \/ sock # "ready" \/ <<"send", num[c], None>> \in md'.jobs
<1> DEFINE req == [c \in Contracts |-> IF c \in New(want) THEN num[c] ELSE m.reqOf[c]]
           of2 == [r \in Ids |-> IF \E c \in New(want) : num[c] = r
                                 THEN CHOOSE c \in New(want) : num[c] = r ELSE m.of[r]]
           hr2 == [r \in Ids |-> m.hear[r] \cup
                     {t \in Trades : \E c \in Contracts : req[c] = r /\ <<t, c>> \in want}]
           nx2 == m.next + Cardinality(New(want))
           rs  == {num[c] : c \in New(want)}
           g   == Registered(m, want, num)
<1>1. /\ \A c \in New(want) : num[c] \in Ids
      /\ \A c, d \in New(want) : num[c] = num[d] => c = d
      /\ Cardinality(New(want)) \in Nat /\ New(want) \subseteq Contracts
  BY NumbersAreNew
<1>2. /\ m.reqOf = md.reqOf /\ m.of = md.of /\ m.hear = md.hear /\ m.next = md.next
      /\ m.live = md.live /\ m.jobs = js
  BY DEF LinesTyped, MdRecords
<1>3. /\ m.reqOf \in [Contracts -> {0} \cup Ids] /\ m.of \in [Ids -> Contracts \cup {None}]
      /\ m.hear \in [Ids -> SUBSET Trades] /\ m.next \in Nat \ {0}
  BY DEF MdRecords
<1>4. req \in [Contracts -> {0} \cup Ids] BY <1>1, <1>3
<1>5. /\ of2 \in [Ids -> Contracts \cup {None}]
      /\ \A c \in New(want) : of2[num[c]] = c
      /\ \A r \in Ids : (\A c \in New(want) : num[c] # r) => of2[r] = m.of[r]
  <2>1. ASSUME NEW c \in New(want) PROVE (CHOOSE d \in New(want) : num[d] = num[c]) = c
    BY <1>1
  <2>2. \A c \in New(want) : of2[num[c]] = c BY <1>1, <2>1
  <2>3. \A r \in Ids : (\A c \in New(want) : num[c] # r) => of2[r] = m.of[r] OBVIOUS
  <2>4. ASSUME NEW r \in Ids PROVE of2[r] \in Contracts \cup {None}
    <3>1. CASE \E c \in New(want) : num[c] = r BY <1>1, <2>2, <3>1
    <3>2. CASE ~ \E c \in New(want) : num[c] = r BY <1>3, <2>3, <3>2
    <3> QED BY <3>1, <3>2
  <2> QED BY <2>2, <2>3, <2>4
<1>6. hr2 \in [Ids -> SUBSET Trades] BY <1>3
<1>7. nx2 \in Nat \ {0} BY <1>1, <1>3
<1>8. g = [m EXCEPT !.reqOf = req, !.next = nx2, !.of = of2, !.hear = hr2]
  BY DEF Registered, MdRecords
<1>9. rs \subseteq Ids BY <1>1
<1>10. md' = PacedCalls(g, "send", rs, granted) BY DEF Subscribed
<1>f. /\ \A c \in Contracts : req[c] = IF c \in New(want) THEN num[c] ELSE m.reqOf[c]
      /\ \A r \in Ids : hr2[r] = m.hear[r] \cup
              {t \in Trades : \E c \in Contracts : req[c] = r /\ <<t, c>> \in want}
      /\ nx2 = m.next + Cardinality(New(want))
      /\ \A c \in New(want) : num[c] \in rs
  OBVIOUS
<1> HIDE DEF req, of2, hr2, nx2, g, rs
<1>11. /\ g \in MdRecords /\ g.reqOf = req /\ g.of = of2 /\ g.hear = hr2 /\ g.next = nx2
       /\ g.live = m.live /\ g.jobs = m.jobs
  BY <1>4, <1>5, <1>6, <1>7, <1>8 DEF MdRecords
<1>12. /\ md' \in MdRecords
       /\ md'.reqOf = req /\ md'.of = of2 /\ md'.hear = hr2 /\ md'.next = nx2
       /\ \A j : j \in md'.jobs <=> j \in m.jobs \/ \E r \in rs \ granted : j = <<"send", r, None>>
       /\ sock = "ready" => md'.live = m.live \cup (rs \cap granted)
       /\ sock # "ready" => md'.live = m.live
  <2>1. PICK n : n = md' OBVIOUS
  <2>2. PICK k \in {"send", "cancel", "resub"} : k = "send" OBVIOUS
  <2>p. PICK h \in MdRecords : h = g BY <1>11
  <2>q. PICK is \in SUBSET Ids : is = rs BY <1>9
  <2>3. n = PacedCalls(h, k, is, granted) BY <1>10, <2>1, <2>2, <2>p, <2>q
  <2>4. PacedTo(h, k, is, granted, n) BY <2>3, PacedFields
  <2> QED BY <1>11, <2>1, <2>2, <2>p, <2>q, <2>4 DEF PacedTo
<1>13. \A r : <<"cancel", r, None>> \in md'.jobs => <<"cancel", r, None>> \in js
  BY <1>2, <1>12
<1>14. /\ js \subseteq md'.jobs /\ md.live \subseteq md'.live
       /\ \A c \in New(want) : num[c] \in md'.live \/ sock # "ready" \/ <<"send", num[c], None>> \in md'.jobs
  BY <1>2, <1>12, <1>f
<1> QED BY <1>2, <1>5, <1>12, <1>13, <1>14, <1>f

(* A contract keeps what it had, and the wanted trades listen.             *)
LEMMA SubscribedKeeps ==
  ASSUME LinesInv, client = "lines", NEW js, NEW m \in MdRecords, m = [md EXCEPT !.jobs = js], js \subseteq md.jobs,
         \A k \in {"send", "resub"} : \A r : <<k, r, None>> \in md.jobs => <<k, r, None>> \in js,
         NEW want, NEW num \in Numbers(want), NEW granted, md' = Subscribed(m, want, num, granted),
         sock' = sock, ToBeRestored => ToBeRestored'
  PROVE  /\ md' \in MdRecords /\ Unused'
         /\ \A c \in Contracts : LineOf(c)'
         /\ \A c \in Contracts \ starved : OneLine(c)' /\ OnItsWay(c)'
         /\ \A t \in Trades, c \in Contracts : Listens(t, c) /\ <<"qualify", t, c>> \notin md.jobs \ js => Listens(t, c)'
         /\ \A t \in Trades, c \in Contracts : <<t, c>> \in want => Listens(t, c)'
         /\ js \subseteq md'.jobs
<1>0. LinesTyped /\ Unused /\ \A c \in Contracts : LineOf(c) BY DEF LinesInv
<1>t. /\ md.reqOf \in [Contracts -> {0} \cup Ids] /\ md.next \in Nat /\ 0 \notin Ids
      /\ Ids \subseteq Nat
  BY <1>0 DEF LinesTyped, MdRecords, Ids
<1>1. /\ \A c \in New(want) : num[c] \in Ids /\ num[c] >= md.next
                                /\ num[c] < md.next + Cardinality(New(want))
      /\ \A c, d \in New(want) : num[c] = num[d] => c = d
      /\ Cardinality(New(want)) \in Nat /\ New(want) \subseteq Contracts
      /\ \A c \in New(want) : md.reqOf[c] = 0
      /\ \A t \in Trades, c \in Contracts : <<t, c>> \in want => md.reqOf[c] # 0 \/ c \in New(want)
  <2>1. /\ \A c \in New(want) : md.reqOf[c] = 0
        /\ \A t \in Trades, c \in Contracts : <<t, c>> \in want => md.reqOf[c] # 0 \/ c \in New(want)
    BY DEF New
  <2> QED BY <1>0, <2>1, NumbersAreNew
<1>2. /\ md' \in MdRecords /\ md'.next = md.next + Cardinality(New(want))
      /\ \A c \in Contracts : md'.reqOf[c] = IF c \in New(want) THEN num[c] ELSE md.reqOf[c]
      /\ \A c \in New(want) : md'.of[num[c]] = c
      /\ \A r \in Ids : (\A c \in New(want) : num[c] # r) => md'.of[r] = md.of[r]
      /\ \A r \in Ids : md'.hear[r] = md.hear[r] \cup
              {t \in Trades : \E c \in Contracts : md'.reqOf[c] = r /\ <<t, c>> \in want}
      /\ js \subseteq md'.jobs
      /\ \A r : <<"cancel", r, None>> \in md'.jobs => <<"cancel", r, None>> \in js
      /\ md.live \subseteq md'.live
      /\ \A c \in New(want) : num[c] \in md'.live \/ sock # "ready" \/ <<"send", num[c], None>> \in md'.jobs
  BY <1>0, SubscribedFields
<1>3. \A c \in Contracts : md'.reqOf[c] # 0 => md'.reqOf[c] \in Ids /\ md'.reqOf[c] < md'.next
  <2> SUFFICES ASSUME NEW c \in Contracts, md'.reqOf[c] # 0
               PROVE  md'.reqOf[c] \in Ids /\ md'.reqOf[c] < md'.next
    OBVIOUS
  <2>1. CASE c \in New(want) BY <1>1, <1>2, <2>1
  <2>2. CASE c \notin New(want)
    <3>1. md'.reqOf[c] = md.reqOf[c] BY <1>2, <2>2
    <3>2. md.reqOf[c] \in Ids /\ md.reqOf[c] < md.next BY <1>0, <1>t, <3>1 DEF LineOf
    <3> QED BY <1>1, <1>2, <1>t, <3>1, <3>2
  <2> QED BY <2>1, <2>2
<1>4. Unused'
  <2> SUFFICES ASSUME NEW r \in Ids, r >= md'.next
               PROVE  md'.hear[r] = {} /\ <<"cancel", r, None>> \notin md'.jobs
    BY DEF Unused
  <2>1. r >= md.next BY <1>1, <1>2, <1>t
  <2>2. md.hear[r] = {} /\ <<"cancel", r, None>> \notin md.jobs BY <1>0, <2>1 DEF Unused
  <2>3. \A c \in Contracts : md'.reqOf[c] # r BY <1>3, <1>1, <1>2, <1>t
  <2> QED BY <1>2, <2>2, <2>3
<1>5. ASSUME NEW c \in Contracts PROVE LineOf(c)'
  <2>1. CASE c \in New(want)
    <3>1. md'.reqOf[c] = num[c] /\ num[c] \in Ids /\ num[c] >= md.next BY <1>1, <1>2, <2>1
    <3>2. <<"cancel", num[c], None>> \notin md'.jobs BY <1>0, <1>2, <3>1 DEF Unused
    <3>3. PICK t \in Trades : <<t, c>> \in want BY <2>1 DEF New
    <3>4. t \in md'.hear[num[c]] BY <1>1, <1>2, <2>1, <3>1, <3>3
    <3> QED BY <1>2, <1>3, <2>1, <3>1, <3>2, <3>4 DEF LineOf
  <2>2. CASE c \notin New(want) /\ md.reqOf[c] # 0
    <3>1. md'.reqOf[c] = md.reqOf[c] BY <1>2, <2>2
    <3>2. /\ md.of[md.reqOf[c]] = c /\ md.reqOf[c] < md.next /\ md.hear[md.reqOf[c]] # {}
          /\ <<"cancel", md.reqOf[c], None>> \notin md.jobs /\ md.reqOf[c] \in Ids
      BY <1>0, <1>t, <2>2 DEF LineOf
    <3>3. \A d \in New(want) : num[d] # md.reqOf[c] BY <1>1, <1>t, <3>2
    <3> QED BY <1>2, <1>3, <3>1, <3>2, <3>3 DEF LineOf
  <2>3. CASE c \notin New(want) /\ md.reqOf[c] = 0
    BY <1>2, <2>3 DEF LineOf
  <2> QED BY <2>1, <2>2, <2>3
<1>6. ASSUME NEW c \in Contracts \ starved PROVE OneLine(c)'
  <2> SUFFICES ASSUME NEW r \in Ids, md'.of[r] = c, md'.hear[r] # {} PROVE md'.reqOf[c] = r
    BY DEF OneLine
  <2>1. OneLine(c) BY DEF LinesInv
  <2>2. CASE \E d \in New(want) : num[d] = r BY <1>1, <1>2, <2>2
  <2>3. CASE \A d \in New(want) : num[d] # r
    <3>1. md.of[r] = c BY <1>2, <2>3
    <3>2. CASE md.hear[r] # {}
      <4>1. md.reqOf[c] = r BY <2>1, <3>1, <3>2 DEF OneLine
      <4> QED BY <1>1, <1>2, <1>t, <4>1
    <3>3. CASE md.hear[r] = {}
      <4>1. PICK d \in Contracts : md'.reqOf[d] = r BY <1>2, <3>3
      <4>2. md.reqOf[d] = r BY <1>2, <2>3, <4>1
      <4>3. md.of[r] = d BY <1>0, <1>t, <4>2 DEF LineOf
      <4> QED BY <3>1, <4>1, <4>3
    <3> QED BY <3>2, <3>3
  <2> QED BY <2>2, <2>3
<1>7. ASSUME NEW c \in Contracts \ starved PROVE OnItsWay(c)'
  <2>1. OnItsWay(c) BY DEF LinesInv
  <2>2. CASE c \in New(want) BY <1>2, <2>2 DEF OnItsWay
  <2>3. CASE c \notin New(want)
    <3>1. md'.reqOf[c] = md.reqOf[c] BY <1>2, <2>3
    <3>2. \A k \in {"send", "resub"} : \A r : <<k, r, None>> \in md.jobs => <<k, r, None>> \in md'.jobs
      BY <1>2
    <3> QED BY <1>2, <2>1, <3>1, <3>2 DEF OnItsWay
  <2> QED BY <2>2, <2>3
<1>8. ASSUME NEW t \in Trades, NEW c \in Contracts, Listens(t, c), <<"qualify", t, c>> \notin md.jobs \ js
      PROVE  Listens(t, c)'
  <2>1. CASE <<"qualify", t, c>> \in md.jobs BY <1>2, <1>8, <2>1 DEF Listens
  <2>2. CASE md.reqOf[c] # 0 /\ t \in md.hear[md.reqOf[c]]
    <3>1. md'.reqOf[c] = md.reqOf[c] /\ md.reqOf[c] \in Ids BY <1>1, <1>2, <1>t, <2>2
    <3> QED BY <1>2, <2>2, <3>1 DEF Listens
  <2> QED BY <1>8, <2>1, <2>2 DEF Listens
<1>9. ASSUME NEW t \in Trades, NEW c \in Contracts, <<t, c>> \in want PROVE Listens(t, c)'
  <2>1. md'.reqOf[c] # 0 /\ md'.reqOf[c] \in Ids BY <1>1, <1>2, <1>t, <1>9
  <2>2. t \in md'.hear[md'.reqOf[c]] BY <1>2, <1>9, <2>1
  <2> QED BY <2>1, <2>2 DEF Listens
<1> QED BY <1>2, <1>4, <1>5, <1>6, <1>7, <1>8, <1>9

(* Before the lifespan has begun there is nothing to call back.            *)
LEMMA RunsByNow ==
  ASSUME LinesInv, client = "lines", md.jobs # {} \/ md.live # {} \/ cool # {}
  PROVE  at.main \in {"run", "off"}
  BY DEF LinesInv, WhoIsWatched, NothingYet

(* Steps of the session that leave the lines alone.                        *)
LEMMA LinesRest ==
  ASSUME LinesInv, client = "lines", UNCHANGED client, UNCHANGED lines, Opening',
         at'.main \in {"run", "off"} <=> at.main \in {"run", "off"},
         sock # "ready" \/ ToBeRestored =>
           sock' # "ready" \/ ToBeRestored' \/ at.main \notin {"run", "off"}
  PROVE  LinesInv'
<1> USE DEF LinesInv, lines
<1>1. LinesTyped' /\ Unused' BY DEF LinesTyped, Unused
<1>2. WhoIsWatched' BY DEF WhoIsWatched, NothingYet
<1>3. \A c \in Contracts : LineOf(c)' BY DEF LineOf
<1>4. ASSUME NEW c \in Contracts \ starved' PROVE OneLine(c)' /\ AllListen(c)' /\ OnItsWay(c)'
  <2>1. OneLine(c) /\ AllListen(c) /\ OnItsWay(c) OBVIOUS
  <2>2. OneLine(c)' BY <2>1 DEF OneLine
  <2>3. AllListen(c)' BY <2>1 DEF AllListen, Listens
  <2>4. OnItsWay(c)'
    <3>1. at.main \notin {"run", "off"} => md.reqOf[c] = 0 BY DEF WhoIsWatched, NothingYet
    <3> QED BY <2>1, <3>1 DEF OnItsWay
  <2> QED BY <2>2, <2>3, <2>4
<1> QED BY <1>1, <1>2, <1>3, <1>4

LEMMA LinesClosedKeeps ==
  ASSUME LinesInv, client = "lines", UNCHANGED client, PnlOnClosed, Opening', sock' # "ready",
         at'.main \in {"run", "off"} <=> at.main \in {"run", "off"}
  PROVE  LinesInv'
<1> USE DEF LinesInv
<1>1. md' = [md EXCEPT !.live = {}] /\ UNCHANGED <<held, ended, legs, cool, starved, skipped>>
  BY DEF PnlOnClosed
<1>2. /\ md' \in MdRecords /\ md'.live = {} /\ md'.reqOf = md.reqOf /\ md'.of = md.of
      /\ md'.hear = md.hear /\ md'.next = md.next /\ md'.jobs = md.jobs
  BY <1>1 DEF LinesTyped, MdRecords
<1>3. LinesTyped' /\ Unused' BY <1>1, <1>2 DEF LinesTyped, Unused
<1>4. WhoIsWatched' BY <1>1, <1>2 DEF WhoIsWatched, NothingYet
<1>5. \A c \in Contracts : LineOf(c)' BY <1>2 DEF LineOf
<1>6. ASSUME NEW c \in Contracts \ starved' PROVE OneLine(c)' /\ AllListen(c)' /\ OnItsWay(c)'
  <2>1. OneLine(c) /\ AllListen(c) BY <1>1
  <2>2. OneLine(c)' BY <1>2, <2>1 DEF OneLine
  <2>3. AllListen(c)' BY <1>1, <1>2, <2>1 DEF AllListen, Listens
  <2> QED BY <2>2, <2>3 DEF OnItsWay
<1> QED BY <1>3, <1>4, <1>5, <1>6

(* _resubscribe_all_active.                                                *)
LEMMA ResubscribedKeeps ==
  ASSUME LinesInv, client = "lines", NEW m \in MdRecords, NEW ls, m = [md EXCEPT !.live = ls],
         NEW granted, md' = Resubscribed(m, granted),
         starved' = starved \ Refed, UNCHANGED <<sock, held, legs, skipped>>, cool' \in {cool, {}}
  PROVE  /\ LinesTyped' /\ Unused' /\ \A c \in Contracts : LineOf(c)'
         /\ \A c \in Contracts \ starved' : OneLine(c)' /\ AllListen(c)' /\ OnItsWay(c)'
         /\ NothingYet /\ ls = {} => NothingYet'
<1>0. /\ LinesTyped /\ Unused /\ \A c \in Contracts : LineOf(c)
      /\ \A c \in Contracts \ starved : OneLine(c) /\ AllListen(c)
  BY DEF LinesInv
<1>1. /\ m.reqOf = md.reqOf /\ m.of = md.of /\ m.hear = md.hear /\ m.next = md.next
      /\ m.live = ls /\ m.jobs = md.jobs /\ md.reqOf \in [Contracts -> {0} \cup Ids]
  BY <1>0 DEF LinesTyped, MdRecords
<1>2. PICK rs \in SUBSET Ids : rs = Requests(m) BY <1>1 DEF Requests
<1>3. \A c \in Contracts : md.reqOf[c] # 0 => md.reqOf[c] \in rs BY <1>1, <1>2 DEF Requests
<1>4. PacedTo(m, "resub", rs, granted, md')
  <2>1. PICK n : n = md' OBVIOUS
  <2>2. PICK k \in {"send", "cancel", "resub"} : k = "resub" OBVIOUS
  <2>3. n = PacedCalls(m, k, rs, granted) BY <1>2, <2>1, <2>2 DEF Resubscribed
  <2>4. PacedTo(m, k, rs, granted, n) BY <2>3, PacedFields
  <2> QED BY <2>1, <2>2, <2>4
<1>5. /\ md' \in MdRecords
      /\ md'.reqOf = md.reqOf /\ md'.of = md.of /\ md'.hear = md.hear /\ md'.next = md.next
      /\ \A j : j \in md'.jobs <=> j \in md.jobs \/ \E r \in rs \ granted : j = <<"resub", r, None>>
      /\ sock = "ready" => md'.live = ls \cup (rs \cap granted)
      /\ sock # "ready" => md'.live = ls
  BY <1>1, <1>4 DEF PacedTo
<1>6. \A r : <<"cancel", r, None>> \in md'.jobs <=> <<"cancel", r, None>> \in md.jobs BY <1>5
<1>7. LinesTyped' BY <1>0, <1>5 DEF LinesTyped
<1>8. Unused' BY <1>0, <1>5, <1>6 DEF Unused
<1>9. \A c \in Contracts : LineOf(c)' BY <1>0, <1>5, <1>6 DEF LineOf
<1>10. ASSUME NEW c \in Contracts \ starved' PROVE OneLine(c)' /\ AllListen(c)' /\ OnItsWay(c)'
  <2>1. c \in Contracts \ starved \/ c \in Refed OBVIOUS
  <2>2. OneLine(c)
    <3>1. CASE c \in Refed BY <3>1 DEF Refed, OneLine, InUse
    <3> QED BY <1>0, <2>1, <3>1
  <2>3. AllListen(c)
    <3>1. CASE c \in Refed BY <3>1 DEF Refed, Active, AllListen, Listens
    <3> QED BY <1>0, <2>1, <3>1
  <2>4. OneLine(c)' BY <1>5, <2>2 DEF OneLine
  <2>5. AllListen(c)' BY <1>5, <2>3 DEF AllListen, Listens
  <2>6. OnItsWay(c)' BY <1>3, <1>5 DEF OnItsWay
  <2> QED BY <2>4, <2>5, <2>6
<1>11. NothingYet /\ ls = {} => NothingYet'
  <2> SUFFICES ASSUME NothingYet, ls = {} PROVE NothingYet'
    OBVIOUS
  <2>1. rs = {} BY <1>1, <1>2 DEF NothingYet, Requests
  <2>2. \A j : j \notin md'.jobs BY <1>5, <2>1 DEF NothingYet
  <2>3. md'.jobs = {} /\ md'.live = {} BY <1>5, <2>1, <2>2
  <2> QED BY <1>5, <2>3 DEF NothingYet
<1> QED BY <1>7, <1>8, <1>9, <1>10, <1>11

LEMMA RestoredKeeps ==
  ASSUME LinesInv, client = "lines", UNCHANGED <<client, sock>>, PnlOnRestored, Opening',
         at'.main = at.main
  PROVE  LinesInv'
<1>1. LinesTyped /\ md \in MdRecords BY DEF LinesInv, LinesTyped
<1>2. PICK m \in MdRecords : m = md BY <1>1
<1>3. PICK ls : ls = md.live OBVIOUS
<1>4. m = [md EXCEPT !.live = ls] BY <1>1, <1>2, <1>3 DEF MdRecords
<1>5. PICK granted \in SUBSET Ids : md' = Resubscribed(m, granted) BY <1>2 DEF PnlOnRestored
<1>6. starved' = starved \ Refed /\ UNCHANGED <<held, ended, legs, cool, skipped>> BY DEF PnlOnRestored
<1>7. /\ LinesTyped' /\ Unused' /\ \A c \in Contracts : LineOf(c)'
      /\ \A c \in Contracts \ starved' : OneLine(c)' /\ AllListen(c)' /\ OnItsWay(c)'
      /\ NothingYet /\ ls = {} => NothingYet'
  BY <1>4, <1>5, <1>6, ResubscribedKeeps
<1>8. WhoIsWatched'
  <2>1. NothingYet => NothingYet' BY <1>3, <1>7 DEF NothingYet
  <2> QED BY <1>6, <2>1 DEF LinesInv, WhoIsWatched
<1> QED BY <1>7, <1>8 DEF LinesInv

LEMMA DataLostKeeps ==
  ASSUME LinesInv, client = "lines", UNCHANGED <<client, sock, at>>, NEW named \in BOOLEAN, DataLost(named)
  PROVE  LinesInv'
<1>0. LinesTyped /\ md \in MdRecords BY DEF LinesInv, LinesTyped
<1>1. at.main \in {"run", "off"} BY RunsByNow DEF DataLost
<1>2. /\ UNCHANGED <<held, ended, legs, skipped>> /\ Opening' /\ WhoIsWatched'
  BY <1>1 DEF DataLost, LinesInv, Opening, WhoIsWatched
<1>3. PICK m \in MdRecords : m = [md EXCEPT !.live = {}] BY <1>0 DEF MdRecords
<1>4. CASE named
  <2>1. PICK granted \in SUBSET Ids : md' = Resubscribed(m, granted) BY <1>3, <1>4 DEF DataLost
  <2>2. starved' = starved \ Refed /\ cool' = {} BY <1>4 DEF DataLost
  <2>3. PICK ls : ls = {} OBVIOUS
  <2>4. m = [md EXCEPT !.live = ls] BY <1>3, <2>3
  <2>5. /\ LinesTyped' /\ Unused' /\ \A c \in Contracts : LineOf(c)'
        /\ \A c \in Contracts \ starved' : OneLine(c)' /\ AllListen(c)' /\ OnItsWay(c)'
    BY <1>2, <2>1, <2>2, <2>4, ResubscribedKeeps
  <2> QED BY <1>2, <2>5 DEF LinesInv
<1>5. CASE ~named
  <2>1. md' = m /\ starved' = starved \cup Active /\ UNCHANGED cool BY <1>3, <1>5 DEF DataLost
  <2>2. /\ md'.reqOf = md.reqOf /\ md'.of = md.of /\ md'.hear = md.hear /\ md'.next = md.next
        /\ md'.jobs = md.jobs
    BY <1>0, <1>3, <2>1 DEF MdRecords
  <2>3. LinesTyped' /\ Unused' BY <1>2, <2>1, <2>2 DEF LinesInv, LinesTyped, Unused
  <2>4. \A c \in Contracts : LineOf(c)' BY <2>2 DEF LinesInv, LineOf
  <2>5. ASSUME NEW c \in Contracts \ starved' PROVE OneLine(c)' /\ AllListen(c)' /\ OnItsWay(c)'
    <3>1. OneLine(c) /\ AllListen(c) BY <2>1 DEF LinesInv
    <3>2. md.reqOf[c] = 0 BY <2>1 DEF Active
    <3>3. OneLine(c)' BY <2>2, <3>1 DEF OneLine
    <3>4. AllListen(c)' BY <1>2, <2>2, <3>1 DEF AllListen, Listens
    <3> QED BY <2>2, <3>2, <3>3, <3>4 DEF OnItsWay
  <2> QED BY <1>2, <2>3, <2>4, <2>5 DEF LinesInv
<1> QED BY <1>4, <1>5

(* watch_open and the hydration.                                           *)
LEMMA WatchKeeps ==
  ASSUME LinesInv, client = "lines", NEW ts \in SUBSET Trades, Watch(ts),
         sock' = sock, ToBeRestored => ToBeRestored'
  PROVE  /\ md' \in MdRecords /\ Unused'
         /\ \A c \in Contracts : LineOf(c)'
         /\ \A c \in Contracts \ starved : OneLine(c)' /\ OnItsWay(c)'
         /\ \A t \in Trades, c \in Contracts : Listens(t, c) => Listens(t, c)'
         /\ \A t \in ts : \A c \in Legs[t] : IsConnected \/ c \notin cool => Listens(t, c)'
<1>0. LinesTyped /\ md \in MdRecords BY DEF LinesInv, LinesTyped
<1>l. \A t \in Trades : Legs[t] \subseteq Contracts BY PnlAssumption
<1>1. CASE IsConnected
  <2> DEFINE new == UNION {{<<"qualify", t, c>> : c \in Legs[t]} : t \in ts}
  <2>1. new \subseteq Jobs
    <3>1. ASSUME NEW j \in new PROVE j \in Jobs
      <4>1. PICK t \in ts : j \in {<<"qualify", t, c>> : c \in Legs[t]} OBVIOUS
      <4>2. PICK c \in Legs[t] : j = <<"qualify", t, c>> BY <4>1
      <4> QED BY <1>l, <4>2 DEF Jobs
    <3> QED BY <3>1
  <2>2. md' = [md EXCEPT !.jobs = @ \cup new] BY <1>1 DEF Watch, Qualifying
  <2>3. \A t \in ts : \A c \in Legs[t] : <<"qualify", t, c>> \in new OBVIOUS
  <2>4. \A r : <<"cancel", r, None>> \notin new
    <3>1. ASSUME NEW r, <<"cancel", r, None>> \in new PROVE FALSE
      <4>1. PICK t \in ts : <<"cancel", r, None>> \in {<<"qualify", t, c>> : c \in Legs[t]} BY <3>1
      <4>2. PICK c \in Legs[t] : <<"cancel", r, None>> = <<"qualify", t, c>> BY <4>1
      <4> QED BY <4>2
    <3> QED BY <3>1
  <2> HIDE DEF new
  <2>5. /\ md' \in MdRecords /\ md'.jobs = md.jobs \cup new /\ md'.live = md.live
        /\ md'.reqOf = md.reqOf /\ md'.of = md.of /\ md'.hear = md.hear /\ md'.next = md.next
    BY <1>0, <2>1, <2>2 DEF MdRecords
  <2>6. \A r : <<"cancel", r, None>> \in md'.jobs => <<"cancel", r, None>> \in md.jobs BY <2>4, <2>5
  <2>7. Unused' BY <2>5, <2>6 DEF LinesInv, Unused
  <2>8. \A c \in Contracts : LineOf(c)' BY <2>5, <2>6 DEF LinesInv, LineOf
  <2>9. ASSUME NEW c \in Contracts \ starved PROVE OneLine(c)' /\ OnItsWay(c)'
    <3>1. OneLine(c) /\ OnItsWay(c) BY DEF LinesInv
    <3>2. OneLine(c)' BY <2>5, <3>1 DEF OneLine
    <3>3. OnItsWay(c)' BY <2>5, <3>1 DEF OnItsWay
    <3> QED BY <3>2, <3>3
  <2>10. \A t \in Trades, c \in Contracts : Listens(t, c) => Listens(t, c)' BY <2>5 DEF Listens
  <2>11. \A t \in ts : \A c \in Legs[t] : Listens(t, c)' BY <2>3, <2>5 DEF Listens
  <2> QED BY <2>5, <2>7, <2>8, <2>9, <2>10, <2>11
<1>2. CASE ~IsConnected
  <2>1. PICK want : want = Wanted(ts) OBVIOUS
  <2>2. PICK num \in Numbers(want), granted \in SUBSET Ids : md' = Subscribed(md, want, num, granted)
    BY <1>2, <2>1 DEF Watch
  <2>3. PICK m \in MdRecords : m = md BY <1>0
  <2>4. PICK js : js = md.jobs OBVIOUS
  <2>5. m = [md EXCEPT !.jobs = js] BY <1>0, <2>3, <2>4 DEF MdRecords
  <2>6. md' = Subscribed(m, want, num, granted) BY <2>2, <2>3
  <2>8. /\ js \subseteq md.jobs
        /\ \A k \in {"send", "resub"} : \A r : <<k, r, None>> \in md.jobs => <<k, r, None>> \in js
    BY <2>4
  <2>9. /\ md' \in MdRecords /\ Unused'
        /\ \A c \in Contracts : LineOf(c)'
        /\ \A c \in Contracts \ starved : OneLine(c)' /\ OnItsWay(c)'
        /\ \A t \in Trades, c \in Contracts : Listens(t, c) /\ <<"qualify", t, c>> \notin md.jobs \ js => Listens(t, c)'
        /\ \A t \in Trades, c \in Contracts : <<t, c>> \in want => Listens(t, c)'
    BY <2>5, <2>6, <2>8, SubscribedKeeps
  <2>10. \A t \in ts : \A c \in Legs[t] : c \notin cool => <<t, c>> \in want BY <1>l, <2>1 DEF Wanted
  <2>11. \A t \in ts : \A c \in Legs[t] : IsConnected \/ c \notin cool => Listens(t, c)'
    BY <1>2, <1>l, <2>9, <2>10
  <2> QED BY <2>4, <2>9, <2>11
<1> QED BY <1>1, <1>2

LEMMA LifespanKeeps ==
  ASSUME LinesInv, client = "lines", UNCHANGED <<client, sock>>, Lifespan, at \in Places, PnlOnLifespan
  PROVE  LinesInv'
<1>1. /\ at.main \in {"up", "down"} /\ at'.main = "run" /\ at'.loop = at.loop
  BY DEF Lifespan, Places
<1>2. /\ NothingYet /\ Opening' /\ (ToBeRestored => ToBeRestored')
  BY <1>1 DEF LinesInv, WhoIsWatched, Opening, ToBeRestored
<1>3. UNCHANGED <<held, ended, cool, starved>> BY DEF PnlOnLifespan
<1>4. CASE at.main = "up"
  <2>1. legs' = Hydrated /\ Watch(Hydrated) /\ skipped' = skipped BY <1>4 DEF PnlOnLifespan
  <2>2. PICK ts \in SUBSET Trades : ts = Hydrated BY PnlAssumption
  <2>3. Watch(ts) BY <2>1, <2>2
  <2>4. /\ md' \in MdRecords /\ Unused'
        /\ \A c \in Contracts : LineOf(c)'
        /\ \A c \in Contracts \ starved : OneLine(c)' /\ OnItsWay(c)'
        /\ \A t \in ts : \A c \in Legs[t] : IsConnected \/ c \notin cool => Listens(t, c)'
    BY <1>2, <2>3, WatchKeeps
  <2>5. LinesTyped' BY <1>3, <2>1, <2>4, PnlAssumption DEF LinesInv, LinesTyped
  <2>6. WhoIsWatched' BY <1>1, <1>2, <1>3, <2>1 DEF WhoIsWatched, NothingYet
  <2>7. \A c \in Contracts \ starved' : AllListen(c)' BY <1>2, <2>1, <2>2, <2>4 DEF AllListen, NothingYet
  <2> QED BY <1>2, <1>3, <2>4, <2>5, <2>6, <2>7 DEF LinesInv
<1>5. CASE at.main = "down"
  <2>1. skipped' = Hydrated /\ UNCHANGED <<legs, md>> BY <1>5 DEF PnlOnLifespan
  <2>2. LinesTyped' /\ Unused' BY <1>3, <2>1, PnlAssumption DEF LinesInv, LinesTyped, Unused
  <2>3. WhoIsWatched' BY <1>1, <1>2, <1>3, <2>1 DEF WhoIsWatched, NothingYet
  <2>4. \A c \in Contracts : LineOf(c)' BY <2>1 DEF LinesInv, LineOf
  <2>5. ASSUME NEW c \in Contracts \ starved' PROVE OneLine(c)' /\ AllListen(c)' /\ OnItsWay(c)'
    <3>1. OneLine(c) BY <1>3 DEF LinesInv
    <3> QED BY <1>2, <2>1, <3>1 DEF OneLine, AllListen, OnItsWay, NothingYet
  <2> QED BY <1>2, <2>2, <2>3, <2>4, <2>5 DEF LinesInv
<1> QED BY <1>1, <1>4, <1>5

LEMMA WatchOpenKeeps ==
  ASSUME LinesInv, client = "lines", UNCHANGED <<client, sock, at>>, NEW t \in Trades, WatchOpen(t)
  PROVE  LinesInv'
<1>1. /\ at.main = "run" /\ held' = held \cup {t} /\ legs' = legs \cup {t} /\ Watch({t})
      /\ starved' = IF IsConnected THEN starved ELSE starved \cup (Legs[t] \cap cool)
      /\ UNCHANGED <<ended, cool, skipped>>
  BY DEF WatchOpen
<1>2. Opening' /\ WhoIsWatched' /\ (ToBeRestored => ToBeRestored')
  BY <1>1 DEF LinesInv, Opening, WhoIsWatched, ToBeRestored
<1>3. PICK ts \in SUBSET Trades : ts = {t} OBVIOUS
<1>4. Watch(ts) BY <1>1, <1>3
<1>5. /\ md' \in MdRecords /\ Unused'
      /\ \A c \in Contracts : LineOf(c)'
      /\ \A c \in Contracts \ starved : OneLine(c)' /\ OnItsWay(c)'
      /\ \A u \in Trades, c \in Contracts : Listens(u, c) => Listens(u, c)'
      /\ \A u \in ts : \A c \in Legs[u] : IsConnected \/ c \notin cool => Listens(u, c)'
  BY <1>2, <1>4, WatchKeeps
<1>6. LinesTyped' BY <1>1, <1>5 DEF LinesInv, LinesTyped
<1>7. starved \subseteq starved' BY <1>1
<1>8. ASSUME NEW c \in Contracts \ starved' PROVE AllListen(c)'
  <2> SUFFICES ASSUME NEW u \in legs', c \in Legs[u] PROVE Listens(u, c)'
    BY DEF AllListen
  <2>1. CASE u = t BY <1>1, <1>3, <1>5, <2>1
  <2>2. CASE u # t
    <3>1. u \in legs /\ u \in Trades BY <1>1, <2>2 DEF LinesInv, LinesTyped
    <3>2. AllListen(c) BY <1>7 DEF LinesInv
    <3> QED BY <1>5, <3>1, <3>2 DEF AllListen
  <2> QED BY <2>1, <2>2
<1> QED BY <1>2, <1>5, <1>6, <1>7, <1>8 DEF LinesInv

LEMMA QualifyKeeps ==
  ASSUME LinesInv, client = "lines", UNCHANGED <<client, sock, at>>, NEW t \in Trades, NEW c \in Legs[t],
         QualifyThenSubscribe(t, c)
  PROVE  LinesInv'
<1> DEFINE j == <<"qualify", t, c>>
<1>0. LinesTyped /\ md \in MdRecords BY DEF LinesInv, LinesTyped
<1>c. c \in Contracts BY PnlAssumption
<1>1. /\ j \in md.jobs /\ starved' = starved \cup ({c} \cap cool)
      /\ UNCHANGED <<held, ended, legs, cool, skipped>>
  BY DEF QualifyThenSubscribe
<1>2. at.main \in {"run", "off"} BY <1>1, RunsByNow
<1>3. Opening' /\ WhoIsWatched' /\ (ToBeRestored => ToBeRestored')
  BY <1>1, <1>2 DEF LinesInv, Opening, WhoIsWatched, ToBeRestored
<1>4. PICK want : want = {<<t, c>>} \cap Wanted({t}) OBVIOUS
<1>5. PICK num \in Numbers(want), granted \in SUBSET Ids : md' = Subscribed(Done(j), want, num, granted)
  BY <1>4 DEF QualifyThenSubscribe
<1>6. PICK js : js = md.jobs \ {j} OBVIOUS
<1>7. PICK m : m = Done(j) OBVIOUS
<1>8. m = [md EXCEPT !.jobs = js] /\ m \in MdRecords BY <1>0, <1>6, <1>7 DEF Done, MdRecords
<1>9. md' = Subscribed(m, want, num, granted) BY <1>5, <1>7
<1>10. c \notin cool => <<t, c>> \in want BY <1>4, <1>c DEF Wanted
<1>11. /\ js \subseteq md.jobs
       /\ \A k \in {"send", "resub"} : \A r : <<k, r, None>> \in md.jobs => <<k, r, None>> \in js
  BY <1>6
<1>12. /\ md' \in MdRecords /\ Unused'
       /\ \A d \in Contracts : LineOf(d)'
       /\ \A d \in Contracts \ starved : OneLine(d)' /\ OnItsWay(d)'
       /\ \A u \in Trades, d \in Contracts : Listens(u, d) /\ <<"qualify", u, d>> \notin md.jobs \ js => Listens(u, d)'
       /\ \A u \in Trades, d \in Contracts : <<u, d>> \in want => Listens(u, d)'
  BY <1>3, <1>8, <1>9, <1>11, SubscribedKeeps
<1>13. LinesTyped' BY <1>1, <1>12 DEF LinesInv, LinesTyped
<1>14. ASSUME NEW d \in Contracts \ starved' PROVE AllListen(d)'
  <2> SUFFICES ASSUME NEW u \in legs', d \in Legs[u] PROVE Listens(u, d)'
    BY DEF AllListen
  <2>1. u \in legs /\ u \in Trades BY <1>1 DEF LinesInv, LinesTyped
  <2>2. CASE u = t /\ d = c BY <1>1, <1>10, <1>12, <2>2
  <2>3. CASE ~(u = t /\ d = c)
    <3>1. <<"qualify", u, d>> \notin md.jobs \ js BY <1>6, <2>3
    <3>2. Listens(u, d) BY <1>1, <2>1 DEF LinesInv, AllListen
    <3> QED BY <1>12, <2>1, <3>1, <3>2
  <2> QED BY <2>2, <2>3
<1>15. \A d \in Contracts \ starved' : OneLine(d)' /\ OnItsWay(d)' BY <1>1, <1>12
<1> QED BY <1>3, <1>12, <1>13, <1>14, <1>15 DEF LinesInv

LEMMA RerouteKeeps ==
  ASSUME LinesInv, client = "lines", UNCHANGED <<client, sock, at>>, NEW r \in Ids, Reroute(r)
  PROVE  LinesInv'
<1>0. LinesTyped /\ md \in MdRecords BY DEF LinesInv, LinesTyped
<1>1. UNCHANGED <<held, ended, legs, cool, starved, skipped>> /\ r \in md.live /\ md.hear[r] # {}
  BY DEF Reroute, InUse
<1>2. at.main \in {"run", "off"} BY <1>1, RunsByNow
<1>3. Opening' /\ WhoIsWatched' /\ (ToBeRestored => ToBeRestored')
  BY <1>1, <1>2 DEF LinesInv, Opening, WhoIsWatched, ToBeRestored
<1>4. PICK want : want = md.hear[r] \X {Underlying[md.of[r]]} OBVIOUS
<1>5. PICK num \in Numbers(want), granted \in SUBSET Ids : md' = Subscribed(md, want, num, granted)
  BY <1>4 DEF Reroute
<1>6. PICK m \in MdRecords : m = md BY <1>0
<1>7. PICK js : js = md.jobs OBVIOUS
<1>8. m = [md EXCEPT !.jobs = js] BY <1>0, <1>6, <1>7 DEF MdRecords
<1>9. md' = Subscribed(m, want, num, granted) BY <1>5, <1>6
<1>10. /\ js \subseteq md.jobs
       /\ \A k \in {"send", "resub"} : \A q : <<k, q, None>> \in md.jobs => <<k, q, None>> \in js
  BY <1>7
<1>11. /\ md' \in MdRecords /\ Unused'
       /\ \A d \in Contracts : LineOf(d)'
       /\ \A d \in Contracts \ starved : OneLine(d)' /\ OnItsWay(d)'
       /\ \A u \in Trades, d \in Contracts : Listens(u, d) /\ <<"qualify", u, d>> \notin md.jobs \ js => Listens(u, d)'
  BY <1>3, <1>8, <1>9, <1>10, SubscribedKeeps
<1>12. LinesTyped' BY <1>1, <1>11 DEF LinesInv, LinesTyped
<1>13. \A d \in Contracts \ starved' : AllListen(d)'
  BY <1>1, <1>7, <1>11 DEF LinesInv, LinesTyped, AllListen
<1> QED BY <1>1, <1>3, <1>11, <1>12, <1>13 DEF LinesInv

(* A line that nobody listens to any more goes, and with it the request    *)
(* the map has for its contract: the same one, if nothing happened to the  *)
(* contract.                                                               *)
LEMMA UnwatchKeeps ==
  ASSUME LinesInv, client = "lines", UNCHANGED <<client, sock, at>>, NEW t \in Trades, Unwatch(t)
  PROVE  LinesInv'
<1>0. LinesTyped /\ md \in MdRecords /\ Unused /\ \A c \in Contracts : LineOf(c) BY DEF LinesInv, LinesTyped
<1> DEFINE rel  == Released(t)
           gone == {r \in Ids : t \in md.hear[r] /\ rel[r] = {}}
           req  == [c \in Contracts |-> IF c \in {md.of[r] : r \in gone} THEN 0 ELSE md.reqOf[c]]
           m    == [md EXCEPT !.hear = rel, !.reqOf = req]
<1>1. /\ at.main = "run" /\ held' = held \ {t} /\ legs' = legs \ {t}
      /\ UNCHANGED <<cool, starved, skipped>>
  BY DEF Unwatch
<1>2. Opening' /\ WhoIsWatched' BY <1>1 DEF LinesInv, Opening, WhoIsWatched
<1>t. /\ md.reqOf \in [Contracts -> {0} \cup Ids] /\ md.hear \in [Ids -> SUBSET Trades]
      /\ md.next \in Nat /\ 0 \notin Ids /\ Ids \subseteq Nat
  BY <1>0 DEF MdRecords, Ids
<1>3. /\ rel \in [Ids -> SUBSET Trades] /\ \A r \in Ids : rel[r] = md.hear[r] \ {t}
  BY <1>t DEF Released
<1>4. \A c \in Contracts : req[c] = IF \E r \in gone : md.of[r] = c THEN 0 ELSE md.reqOf[c]
  OBVIOUS
<1>5. req \in [Contracts -> {0} \cup Ids] BY <1>t
<1>6. PICK granted \in SUBSET Ids : md' = PacedCalls(m, "cancel", gone, granted)
  BY <1>0 DEF Unwatch, MdRecords
<1>g. \A r \in gone : r \in Ids /\ md.hear[r] # {} /\ rel[r] = {} OBVIOUS
<1>h. \A r \in Ids : md.hear[r] # {} /\ rel[r] = {} => r \in gone BY <1>3
<1> HIDE DEF rel, gone, req
<1>7. /\ m \in MdRecords /\ m.reqOf = req /\ m.hear = rel /\ m.of = md.of /\ m.next = md.next
      /\ m.live = md.live /\ m.jobs = md.jobs
  BY <1>0, <1>3, <1>5 DEF MdRecords
<1> HIDE DEF m
<1>8. PacedTo(m, "cancel", gone, granted, md')
  <2>1. PICK n : n = md' OBVIOUS
  <2>2. PICK k \in {"send", "cancel", "resub"} : k = "cancel" OBVIOUS
  <2>3. PICK h \in MdRecords : h = m BY <1>7
  <2>4. PICK rs \in SUBSET Ids : rs = gone BY <1>g
  <2>5. n = PacedCalls(h, k, rs, granted) BY <1>6, <2>1, <2>2, <2>3, <2>4
  <2>6. PacedTo(h, k, rs, granted, n) BY <2>5, PacedFields
  <2> QED BY <2>1, <2>2, <2>3, <2>4, <2>6
<1>9. /\ md' \in MdRecords
      /\ md'.reqOf = req /\ md'.of = md.of /\ md'.hear = rel /\ md'.next = md.next
      /\ \A j : j \in md'.jobs <=> j \in md.jobs \/ \E r \in gone \ granted : j = <<"cancel", r, None>>
      /\ md'.live = md.live \ (gone \cap granted)
  BY <1>7, <1>8 DEF PacedTo
<1>10. LinesTyped' BY <1>1, <1>9 DEF LinesInv, LinesTyped
<1>11. \A r \in Ids : <<"cancel", r, None>> \in md'.jobs => <<"cancel", r, None>> \in md.jobs \/ r \in gone
  BY <1>9
<1>12. Unused'
  <2> SUFFICES ASSUME NEW r \in Ids, r >= md'.next
               PROVE  md'.hear[r] = {} /\ <<"cancel", r, None>> \notin md'.jobs
    BY DEF Unused
  <2>1. md.hear[r] = {} /\ <<"cancel", r, None>> \notin md.jobs BY <1>0, <1>9 DEF Unused
  <2> QED BY <1>3, <1>9, <1>11, <1>g, <2>1
<1>13. ASSUME NEW c \in Contracts, md'.reqOf[c] # 0
       PROVE  md'.reqOf[c] = md.reqOf[c] /\ md.reqOf[c] \in Ids /\ md.reqOf[c] \notin gone /\ md.of[md.reqOf[c]] = c
  <2>1. md'.reqOf[c] = md.reqOf[c] /\ \A r \in gone : md.of[r] # c BY <1>4, <1>9, <1>13
  <2> QED BY <1>0, <1>13, <1>t, <2>1 DEF LineOf
<1>14. ASSUME NEW c \in Contracts PROVE LineOf(c)'
  <2> SUFFICES ASSUME md'.reqOf[c] # 0
               PROVE  /\ md'.of[md'.reqOf[c]] = c /\ md'.reqOf[c] < md'.next /\ md'.hear[md'.reqOf[c]] # {}
                      /\ <<"cancel", md'.reqOf[c], None>> \notin md'.jobs
    BY DEF LineOf
  <2>1. md'.reqOf[c] = md.reqOf[c] /\ md.reqOf[c] \in Ids /\ md.reqOf[c] \notin gone /\ md.of[md.reqOf[c]] = c
    BY <1>13
  <2>2. /\ md.reqOf[c] < md.next /\ <<"cancel", md.reqOf[c], None>> \notin md.jobs
        /\ md.hear[md.reqOf[c]] # {}
    BY <1>0, <1>t, <2>1 DEF LineOf
  <2> QED BY <1>9, <1>11, <1>h, <2>1, <2>2
<1>15. ASSUME NEW c \in Contracts \ starved' PROVE OneLine(c)' /\ AllListen(c)' /\ OnItsWay(c)'
  <2>1. OneLine(c) /\ AllListen(c) /\ OnItsWay(c) BY <1>1 DEF LinesInv
  <2>2. \A r \in gone : md.of[r] = c => md.reqOf[c] = r BY <1>g, <2>1 DEF OneLine
  <2>3. OneLine(c)'
    <3> SUFFICES ASSUME NEW r \in Ids, md'.of[r] = c, md'.hear[r] # {} PROVE md'.reqOf[c] = r
      BY DEF OneLine
    <3>1. md.of[r] = c /\ md.hear[r] # {} /\ rel[r] # {} BY <1>3, <1>9
    <3>2. md.reqOf[c] = r BY <2>1, <3>1 DEF OneLine
    <3>3. r \notin gone BY <1>g, <3>1
    <3>4. \A q \in gone : md.of[q] # c BY <2>2, <3>2, <3>3
    <3> QED BY <1>4, <1>9, <3>2, <3>4
  <2>4. AllListen(c)'
    <3> SUFFICES ASSUME NEW u \in legs', c \in Legs[u] PROVE Listens(u, c)'
      BY DEF AllListen
    <3>1. u \in legs /\ u # t BY <1>1
    <3>2. Listens(u, c) BY <2>1, <3>1 DEF AllListen
    <3>3. CASE <<"qualify", u, c>> \in md.jobs BY <1>9, <3>3 DEF Listens
    <3>4. CASE md.reqOf[c] # 0 /\ u \in md.hear[md.reqOf[c]]
      <4>1. md.reqOf[c] \in Ids BY <1>t, <3>4
      <4>2. u \in rel[md.reqOf[c]] BY <1>3, <3>1, <3>4, <4>1
      <4>3. md.reqOf[c] \notin gone BY <1>g, <4>2
      <4>4. md'.reqOf[c] = md.reqOf[c] BY <1>4, <1>9, <2>2, <4>3
      <4> QED BY <1>9, <3>4, <4>2, <4>4 DEF Listens
    <3> QED BY <3>2, <3>3, <3>4 DEF Listens
  <2>5. OnItsWay(c)'
    <3> SUFFICES ASSUME md'.reqOf[c] # 0 PROVE OnItsWay(c)'
      BY DEF OnItsWay
    <3>1. md'.reqOf[c] = md.reqOf[c] /\ md.reqOf[c] \notin gone /\ md.reqOf[c] # 0 BY <1>13
    <3> QED BY <1>9, <2>1, <3>1 DEF OnItsWay, ToBeRestored
  <2> QED BY <2>3, <2>4, <2>5
<1> QED BY <1>2, <1>10, <1>12, <1>14, <1>15 DEF LinesInv

LEMMA PacedRetryKeeps ==
  ASSUME LinesInv, client = "lines", UNCHANGED <<client, sock, at>>, NEW r \in Ids,
         NEW k \in {"send", "cancel", "resub"}, PacedRetry(k, r)
  PROVE  LinesInv'
<1> DEFINE j == <<k, r, None>>
<1>0. LinesTyped /\ md \in MdRecords /\ Unused /\ \A c \in Contracts : LineOf(c) BY DEF LinesInv, LinesTyped
<1>1. /\ j \in md.jobs /\ md' = PacedCalls(Done(j), k, {r}, {r})
      /\ UNCHANGED <<held, ended, legs, cool, starved, skipped>>
  BY DEF PacedRetry
<1>2. at.main \in {"run", "off"} BY <1>1, RunsByNow
<1>3. Opening' /\ WhoIsWatched' BY <1>1, <1>2 DEF LinesInv, Opening, WhoIsWatched
<1>4. PICK m : m = Done(j) OBVIOUS
<1>5. /\ m \in MdRecords /\ m.jobs = md.jobs \ {j} /\ m.live = md.live
      /\ m.reqOf = md.reqOf /\ m.of = md.of /\ m.hear = md.hear /\ m.next = md.next
  BY <1>0, <1>4 DEF Done, MdRecords
<1>6. PacedTo(m, k, {r}, {r}, md')
  <2>1. PICK n : n = md' OBVIOUS
  <2>2. PICK rs \in SUBSET Ids : rs = {r} OBVIOUS
  <2>3. n = PacedCalls(m, k, rs, rs) BY <1>1, <1>4, <2>1, <2>2
  <2>4. PacedTo(m, k, rs, rs, n) BY <1>5, <2>3, PacedFields
  <2> QED BY <2>1, <2>2, <2>4
<1>7. /\ md' \in MdRecords
      /\ md'.reqOf = md.reqOf /\ md'.of = md.of /\ md'.hear = md.hear /\ md'.next = md.next
      /\ \A i : i \in md'.jobs <=> i \in md.jobs /\ i # j
      /\ k = "cancel" => md'.live = md.live \ {r}
      /\ k # "cancel" /\ sock = "ready" => md'.live = md.live \cup {r}
      /\ k # "cancel" /\ sock # "ready" => md'.live = md.live
  BY <1>5, <1>6 DEF PacedTo
<1>8. LinesTyped' BY <1>1, <1>7 DEF LinesInv, LinesTyped
<1>9. Unused' BY <1>0, <1>7 DEF Unused
<1>10. \A c \in Contracts : LineOf(c)' BY <1>0, <1>7 DEF LineOf
<1>11. ASSUME NEW c \in Contracts \ starved' PROVE OneLine(c)' /\ AllListen(c)' /\ OnItsWay(c)'
  <2>1. OneLine(c) /\ AllListen(c) /\ OnItsWay(c) BY <1>1 DEF LinesInv
  <2>2. OneLine(c)' BY <1>7, <2>1 DEF OneLine
  <2>3. AllListen(c)'
    <3>1. \A u : <<"qualify", u, c>> # j OBVIOUS
    <3> QED BY <1>1, <1>7, <2>1, <3>1 DEF AllListen, Listens
  <2>4. OnItsWay(c)'
    <3> SUFFICES ASSUME md.reqOf[c] # 0, sock = "ready", ~ToBeRestored PROVE OnItsWay(c)'
      BY <1>7 DEF OnItsWay, ToBeRestored
    <3>1. CASE md.reqOf[c] = r
      <4>1. k # "cancel" BY <1>0, <1>1, <3>1 DEF LineOf
      <4> QED BY <1>7, <3>1, <4>1 DEF OnItsWay
    <3>2. CASE md.reqOf[c] # r
      <4>1. <<"send", md.reqOf[c], None>> # j /\ <<"resub", md.reqOf[c], None>> # j BY <3>2
      <4>2. md.reqOf[c] \in md.live => md.reqOf[c] \in md'.live BY <1>7, <3>2
      <4> QED BY <1>7, <2>1, <4>1, <4>2 DEF OnItsWay
    <3> QED BY <3>1, <3>2
  <2> QED BY <2>2, <2>3, <2>4
<1> QED BY <1>3, <1>8, <1>9, <1>10, <1>11 DEF LinesInv

LEMMA RetryFailsKeeps ==
  ASSUME LinesInv, client = "lines", UNCHANGED <<client, sock, at>>, NEW r \in Ids, RetryFails(r)
  PROVE  LinesInv'
<1> DEFINE j   == <<"send", r, None>>
           req == [c \in Contracts |-> IF c = md.of[r] THEN 0 ELSE md.reqOf[c]]
           hr  == [md.hear EXCEPT ![r] = {}]
<1>0. LinesTyped /\ md \in MdRecords /\ Unused /\ \A c \in Contracts : LineOf(c) BY DEF LinesInv, LinesTyped
<1>1. /\ j \in md.jobs /\ md' = SendFailed(Done(j), r) /\ starved' = starved \cup {md.of[r]}
      /\ UNCHANGED <<held, ended, legs, cool, skipped>>
  BY DEF RetryFails
<1>2. at.main \in {"run", "off"} BY <1>1, RunsByNow
<1>3. Opening' /\ WhoIsWatched' BY <1>1, <1>2 DEF LinesInv, Opening, WhoIsWatched
<1>4. PICK m : m = Done(j) OBVIOUS
<1>5. /\ m \in MdRecords /\ m.jobs = md.jobs \ {j} /\ m.live = md.live
      /\ m.reqOf = md.reqOf /\ m.of = md.of /\ m.hear = md.hear /\ m.next = md.next
  BY <1>0, <1>4 DEF Done, MdRecords
<1>6. md' = [m EXCEPT !.hear = hr, !.reqOf = req]
  <2>1. md' = SendFailed(m, r) BY <1>1, <1>4
  <2>2. SendFailed(m, r) = [m EXCEPT !.hear[r] = {}, !.reqOf = [c \in Contracts |-> IF c = m.of[r] THEN 0 ELSE m.reqOf[c]]]
    BY DEF SendFailed
  <2> QED BY <1>5, <2>1, <2>2 DEF MdRecords
<1>7. /\ md.hear \in [Ids -> SUBSET Trades] /\ md.reqOf \in [Contracts -> {0} \cup Ids]
  BY <1>0 DEF MdRecords
<1>8. /\ hr \in [Ids -> SUBSET Trades] /\ \A q \in Ids : hr[q] = IF q = r THEN {} ELSE md.hear[q]
      /\ req \in [Contracts -> {0} \cup Ids] /\ \A c \in Contracts : req[c] = IF c = md.of[r] THEN 0 ELSE md.reqOf[c]
  BY <1>7
<1> HIDE DEF hr, req
<1>9. /\ md' \in MdRecords /\ md'.reqOf = req /\ md'.of = md.of /\ md'.hear = hr /\ md'.next = md.next
      /\ md'.jobs = md.jobs \ {j} /\ md'.live = md.live
  BY <1>5, <1>6, <1>8 DEF MdRecords
<1>10. LinesTyped' BY <1>1, <1>9 DEF LinesInv, LinesTyped
<1>11. Unused' BY <1>0, <1>8, <1>9 DEF Unused
<1>12. \A c \in Contracts : LineOf(c)' BY <1>0, <1>8, <1>9 DEF LineOf
<1>13. ASSUME NEW c \in Contracts \ starved' PROVE OneLine(c)' /\ AllListen(c)' /\ OnItsWay(c)'
  <2>1. OneLine(c) /\ AllListen(c) /\ OnItsWay(c) /\ c # md.of[r] BY <1>1 DEF LinesInv
  <2>2. md'.reqOf[c] = md.reqOf[c] BY <1>8, <1>9, <2>1
  <2>3. OneLine(c)' BY <1>8, <1>9, <2>1, <2>2 DEF OneLine
  <2>4. md.reqOf[c] # 0 => md.reqOf[c] # r /\ md.reqOf[c] \in Ids BY <1>0, <1>7, <2>1 DEF LineOf
  <2>5. AllListen(c)'
    <3>1. \A u : <<"qualify", u, c>> # j OBVIOUS
    <3> QED BY <1>1, <1>8, <1>9, <2>1, <2>2, <2>4, <3>1 DEF AllListen, Listens
  <2>6. OnItsWay(c)'
    <3>1. <<"resub", md.reqOf[c], None>> # j /\ (md.reqOf[c] # r => <<"send", md.reqOf[c], None>> # j) OBVIOUS
    <3> QED BY <1>9, <2>1, <2>2, <2>4, <3>1 DEF OnItsWay, ToBeRestored
  <2> QED BY <2>3, <2>5, <2>6
<1> QED BY <1>3, <1>10, <1>11, <1>12, <1>13 DEF LinesInv

LEMMA NoMarketDataKeeps ==
  ASSUME LinesInv, client = "lines", UNCHANGED <<client, sock, at>>, NEW r \in Ids, NoMarketData(r)
  PROVE  LinesInv'
<1>0. LinesTyped /\ md \in MdRecords /\ Unused /\ \A c \in Contracts : LineOf(c) BY DEF LinesInv, LinesTyped
<1>1. /\ r \in md.live /\ md' = [md EXCEPT !.live = @ \ {r}] /\ UNCHANGED <<held, ended, legs, skipped>>
      /\ md.hear[r] # {} => cool' = cool \cup {md.of[r]} /\ starved' = starved \cup {md.of[r]}
      /\ md.hear[r] = {} => UNCHANGED <<cool, starved>>
  BY DEF NoMarketData, Ended, InUse
<1>2. at.main \in {"run", "off"} BY <1>1, RunsByNow
<1>3. Opening' /\ WhoIsWatched' BY <1>1, <1>2 DEF LinesInv, Opening, WhoIsWatched
<1>4. /\ md' \in MdRecords /\ md'.jobs = md.jobs /\ md'.live = md.live \ {r}
      /\ md'.reqOf = md.reqOf /\ md'.of = md.of /\ md'.hear = md.hear /\ md'.next = md.next
  BY <1>0, <1>1 DEF MdRecords
<1>5. LinesTyped' /\ Unused' BY <1>0, <1>1, <1>4 DEF LinesTyped, Unused
<1>6. \A c \in Contracts : LineOf(c)' BY <1>0, <1>4 DEF LineOf
<1>7. ASSUME NEW c \in Contracts \ starved' PROVE OneLine(c)' /\ AllListen(c)' /\ OnItsWay(c)'
  <2>1. starved \subseteq starved' BY <1>1
  <2>2. OneLine(c) /\ AllListen(c) /\ OnItsWay(c) BY <2>1 DEF LinesInv
  <2>3. md.reqOf[c] # r \/ md.reqOf[c] = 0 BY <1>0, <1>1 DEF LineOf
  <2>4. OneLine(c)' BY <1>4, <2>2 DEF OneLine
  <2>5. AllListen(c)' BY <1>1, <1>4, <2>2 DEF AllListen, Listens
  <2>6. OnItsWay(c)' BY <1>4, <2>2, <2>3 DEF OnItsWay, ToBeRestored
  <2> QED BY <2>4, <2>5, <2>6
<1> QED BY <1>3, <1>5, <1>6, <1>7 DEF LinesInv

LEMMA CooldownOverKeeps ==
  ASSUME LinesInv, client = "lines", UNCHANGED <<client, sock, at>>, NEW c \in Contracts, CooldownOver(c)
  PROVE  LinesInv'
<1>1. c \in cool /\ cool' = cool \ {c} /\ UNCHANGED <<held, ended, legs, md, starved, skipped>>
  BY DEF CooldownOver
<1>2. at.main \in {"run", "off"} BY <1>1, RunsByNow
<1>3. Opening' /\ WhoIsWatched' BY <1>1, <1>2 DEF LinesInv, Opening, WhoIsWatched
<1>4. LinesTyped' /\ Unused' BY <1>1 DEF LinesInv, LinesTyped, Unused
<1>5. \A d \in Contracts : LineOf(d)' BY <1>1 DEF LinesInv, LineOf
<1>6. ASSUME NEW d \in Contracts \ starved' PROVE OneLine(d)' /\ AllListen(d)' /\ OnItsWay(d)'
  <2>1. OneLine(d) /\ AllListen(d) /\ OnItsWay(d) BY <1>1 DEF LinesInv
  <2> QED BY <1>1, <2>1 DEF OneLine, AllListen, Listens, OnItsWay, ToBeRestored
<1> QED BY <1>3, <1>4, <1>5, <1>6 DEF LinesInv

LEMMA LinesSessionKeeps ==
  ASSUME SessionInv, LinesInv, client = "lines", UNCHANGED client, SessionNext
  PROVE  LinesInv'
<1>w. at \in Places /\ (connEvent => sock = "ready") BY DEF SessionInv
<1>o. Opening /\ (sock = "open" => ~connEvent) BY DEF LinesInv, SessionInv
<1>1. ASSUME NEW t \in {"main", "loop"}, Refused(t) \/ Connected(t) \/ ClearAfterTimeout(t), UNCHANGED lines
      PROVE  LinesInv'
  <2>1. sock' = sock BY <1>1 DEF Refused, Connected, ClearAfterTimeout
  <2>2. /\ ToBeRestored => ToBeRestored'
        /\ at'.main \in {"run", "off"} <=> at.main \in {"run", "off"}
        /\ sock = "open" => (at.loop = "wait" => at'.loop = "wait") /\ (at.main = "wait" => at'.main = "wait")
    <3> USE <1>w, <1>o DEF Places, ToBeRestored
    <3>1. CASE Refused(t)
      <4>1. CASE t = "main" BY <3>1, <4>1 DEF Refused, Returned, Begins
      <4>2. CASE t = "loop" BY <3>1, <4>2 DEF Refused, Returned, Begins
      <4> QED BY <4>1, <4>2
    <3>2. CASE Connected(t)
      <4>1. CASE t = "main" BY <3>2, <4>1 DEF Connected, Returned
      <4>2. CASE t = "loop" BY <3>2, <4>2 DEF Connected, Returned
      <4> QED BY <4>1, <4>2
    <3>3. CASE ClearAfterTimeout(t)
      <4>1. CASE t = "main" BY <3>3, <4>1 DEF ClearAfterTimeout, Returned, Started, LoopAlive
      <4>2. CASE t = "loop" BY <3>3, <4>2 DEF ClearAfterTimeout, Returned, Started, LoopAlive
      <4> QED BY <4>1, <4>2
    <3> QED BY <1>1, <3>1, <3>2, <3>3
  <2>3. Opening' BY <1>o, <2>1, <2>2 DEF Opening
  <2> QED BY <1>1, <2>1, <2>2, <2>3, LinesRest
<1>2. ASSUME NEW t \in {"main", "loop"}, Connect(t), OnConnect PROVE LinesInv'
  <2>1. sock' = "open" /\ at' = [at EXCEPT ![t] = "wait"] /\ Begins(t) /\ PnlOnClosed
    BY <1>2 DEF Connect, OnConnect
  <2>2. Opening' /\ (at'.main \in {"run", "off"} <=> at.main \in {"run", "off"})
    BY <1>w, <2>1 DEF Opening, Places, Begins
  <2> QED BY <2>1, <2>2, LinesClosedKeeps
<1>3. ASSUME NEW t \in {"main", "loop"}, HandshakeTimeout(t), OnClosed PROVE LinesInv'
  <2>1. sock' = "closed" /\ at[t] = "wait" /\ at' = Started([at EXCEPT ![t] = "clear"]) /\ PnlOnClosed
    BY <1>3 DEF HandshakeTimeout, ConnectionClosed, OnClosed
  <2>2. at'.main \in {"run", "off"} <=> at.main \in {"run", "off"}
    <3>1. CASE t = "main" BY <1>w, <2>1, <3>1 DEF Started, Places
    <3>2. CASE t = "loop" BY <1>w, <2>1, <3>2 DEF Started, Places
    <3> QED BY <3>1, <3>2
  <2>3. Opening' BY <2>1 DEF Opening
  <2> QED BY <2>1, <2>2, <2>3, LinesClosedKeeps
<1>4. CASE Drop /\ OnClosed
  <2>1. sock' = "closed" /\ at' = Started(at) /\ PnlOnClosed BY <1>4 DEF Drop, ConnectionClosed, OnClosed
  <2>2. at'.main = at.main BY <1>w, <2>1 DEF Started, Places
  <2>3. Opening' BY <2>1 DEF Opening
  <2> QED BY <2>1, <2>2, <2>3, LinesClosedKeeps
<1>5. CASE DisconnectClean /\ OnClosed
  <2>1. /\ sock' = "closed" /\ at.main = "run" /\ at' = [at EXCEPT !.main = "off"] /\ PnlOnClosed
    BY <1>5 DEF DisconnectClean, OnClosed
  <2>2. at'.main = "off" BY <1>w, <2>1 DEF Places
  <2>3. Opening' BY <2>1 DEF Opening
  <2> QED BY <2>1, <2>2, <2>3, LinesClosedKeeps
<1>6. CASE NextValidId /\ OnNextValidId
  <2>1. sock = "open" /\ sock' = "ready" /\ at' = at /\ UNCHANGED lines BY <1>6 DEF NextValidId, OnNextValidId
  <2>2. Opening' /\ (at.loop = "wait" \/ at.main = "wait") BY <1>o, <2>1 DEF Opening
  <2> QED BY <2>1, <2>2, LinesRest DEF ToBeRestored
<1>7. CASE Restored /\ OnRestored
  <2>1. sock' = sock /\ at.loop = "restored" /\ at' = [at EXCEPT !.loop = "ending"] /\ PnlOnRestored
    BY <1>7 DEF Restored, OnRestored
  <2>2. at'.main = at.main BY <1>w, <2>1 DEF Places
  <2>3. Opening' BY <1>o, <2>1, <2>2 DEF Opening
  <2> QED BY <2>1, <2>2, <2>3, RestoredKeeps
<1>8. CASE Lifespan /\ OnLifespan
  <2>1. sock' = sock /\ PnlOnLifespan BY <1>8 DEF Lifespan, OnLifespan
  <2> QED BY <1>8, <1>w, <2>1, LifespanKeeps
<1>9. ASSUME LoopEnds \/ LoopCheck \/ Backoff, UNCHANGED lines PROVE LinesInv'
  <2>1. sock' = sock /\ at.loop \notin {"wait", "restored"} BY <1>9 DEF LoopEnds, LoopCheck, Backoff
  <2>2. at'.main = at.main BY <1>9, <1>w DEF LoopEnds, LoopCheck, Backoff, Places
  <2>3. Opening' BY <1>o, <2>1, <2>2 DEF Opening
  <2> QED BY <1>9, <2>1, <2>2, <2>3, LinesRest DEF ToBeRestored
<1> QED BY <1>1, <1>2, <1>3, <1>4, <1>5, <1>6, <1>7, <1>8, <1>9 DEF SessionNext, ThreadSteps

LEMMA LinesStep == SessionInv /\ LinesInv /\ [Next]_vars => LinesInv'
<1> SUFFICES ASSUME SessionInv, LinesInv, [Next]_vars, client' = "lines" PROVE LinesInv'
  BY DEF LinesInv
<1>c. client = "lines" /\ UNCHANGED client BY DEF Next, vars
<1>1. CASE SessionNext BY <1>c, <1>1, LinesSessionKeeps
<1>2. ASSUME LinesNext, UNCHANGED session PROVE LinesInv'
  <2>1. UNCHANGED <<sock, at>> BY <1>2 DEF session
  <2> QED BY <1>c, <1>2, <2>1, WatchOpenKeeps, UnwatchKeeps, QualifyKeeps, PacedRetryKeeps, CooldownOverKeeps
      DEF LinesNext
<1>3. ASSUME LinesFaults, UNCHANGED session PROVE LinesInv'
  <2>1. UNCHANGED <<sock, at>> BY <1>3 DEF session
  <2> QED BY <1>c, <1>3, <2>1, RetryFailsKeeps, NoMarketDataKeeps, RerouteKeeps, DataLostKeeps DEF LinesFaults
<1>4. ASSUME UNCHANGED lines, UNCHANGED session PROVE LinesInv'
  <2>1. UNCHANGED <<sock, at>> BY <1>4 DEF session
  <2>2. Opening' BY <1>c, <2>1 DEF LinesInv, Opening
  <2> QED BY <1>c, <1>4, <2>1, <2>2, LinesRest DEF ToBeRestored
<1> QED BY <1>c, <1>1, <1>2, <1>3, <1>4 DEF Next, ClientNext, Alone, vars

(* Whatever is paced, qualified, rerouted, dropped and reconnected in      *)
(* between, on a live connection with no callback pending every leg of an  *)
(* open trade has its line, but for contracts an error or a failed request *)
(* took the line of and trades open when the first connection failed, for  *)
(* any trades, legs and reroutes.                                          *)
THEOREM TradesAreFed == Spec => []OpenTradeIsFed
<1>1. Init => SessionInv /\ LinesInv BY SessionStart, LinesStart DEF Init
<1>2. SessionInv /\ LinesInv /\ [Next]_vars => (SessionInv /\ LinesInv)'
  BY SessionStep, LinesStep
<1>3. ASSUME SessionInv, LinesInv PROVE OpenTradeIsFed
  <2> SUFFICES ASSUME client = "lines", at.main = "run", IsConnected, at.loop = "none", md.jobs = {},
                      NEW t \in held \ skipped, NEW c \in Legs[t] \ starved
               PROVE  \E r \in md.live : md.of[r] = c /\ t \in md.hear[r]
    BY DEF OpenTradeIsFed
  <2>1. sock = "ready" BY <1>3 DEF SessionInv, IsConnected
  <2>2. t \in legs /\ t \in Trades BY <1>3 DEF LinesInv, WhoIsWatched, LinesTyped
  <2>3. c \in Contracts BY <2>2, PnlAssumption
  <2>4. AllListen(c) /\ OnItsWay(c) /\ LineOf(c) BY <1>3, <2>3 DEF LinesInv
  <2>5. md.reqOf[c] # 0 /\ t \in md.hear[md.reqOf[c]] BY <2>2, <2>4 DEF AllListen, Listens
  <2>6. md.reqOf[c] \in md.live BY <2>1, <2>4, <2>5 DEF OnItsWay, ToBeRestored
  <2> QED BY <2>4, <2>5, <2>6 DEF LineOf
<1> QED BY <1>1, <1>2, <1>3, PTL DEF Spec

=============================================================================
