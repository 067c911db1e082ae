--------------------------- MODULE GatewayLimiter ---------------------------
(* The token bucket every message to one IB Gateway passes: a global       *)
(* bucket, a normal bucket below it, and an emergency reserve that only    *)
(* the flatten orders (priority 0) may spend.  Tokens are counted in       *)
(* parts, Parts of them to a token, and a tick is the Parts-th part of a   *)
(* second, so that a refill by elapsed * rate stays an integer.            *)
EXTENDS Integers, Sequences, FiniteSets, SequencesExt

CONSTANTS
  MaxMsg,       \* max_msg_per_sec, also the burst
  NormalMsg,    \* normal_msg_per_sec
  ReserveMsg,   \* emergency_reserve_per_sec
  Parts,        \* parts of a token
  Callers,      \* requests that pass through the limiter
  Priority,     \* of a caller: 0 flatten, 1 order, 2 details, 3 market data, 4 diagnostic
  OnLoop        \* the callers that run on the event loop and use the async acquire

ASSUME LimiterAssumption ==
  /\ {MaxMsg, NormalMsg, Parts} \subseteq Nat \ {0} /\ ReserveMsg \in Nat
  /\ NormalMsg + ReserveMsg <= MaxMsg
  /\ Priority \in [Callers -> 0 .. 4] /\ OnLoop \subseteq Callers

\* The rate is lowered to leave the reserve; the burst is not.
NormalRate == IF ReserveMsg < MaxMsg /\ NormalMsg > MaxMsg - ReserveMsg
              THEN MaxMsg - ReserveMsg ELSE NormalMsg
GlobalCap  == MaxMsg * Parts
NormalCap  == (IF NormalMsg < MaxMsg THEN NormalMsg ELSE MaxMsg) * Parts

VARIABLES
  bucket,    \* _global_tokens, _normal_tokens
  cooling,   \* before _cooldown_until
  heap,      \* _wait_heap in the order of its keys
  call,      \* where each request stands
  spent      \* history: a flatten order or an Error 100 took of the reserve since it was last full

limiter == <<bucket, cooling, heap, call, spent>>

LimiterInit ==
  /\ bucket = [global |-> GlobalCap, normal |-> NormalCap]
  /\ cooling = FALSE /\ spent = FALSE
  /\ heap = <<>> /\ call = [c \in Callers |-> "idle"]

LimiterTypeOK ==
  /\ bucket \in [global : 0 .. GlobalCap, normal : 0 .. NormalCap]
  /\ {cooling, spent} \subseteq BOOLEAN
  /\ heap \in Seq(Callers) /\ IsInjective(heap)
  /\ call \in [Callers -> {"idle", "waiting", "granted", "refused"}]

Lesser(a, b) == IF a < b THEN a ELSE b

Refilled == [global |-> Lesser(GlobalCap, bucket.global + MaxMsg),
             normal |-> Lesser(NormalCap, bucket.normal + NormalRate)]

CanConsume_Unreserved(p) ==
  /\ ~cooling /\ bucket.global >= Parts
  /\ p \notin {0, 1} => bucket.normal >= Parts

\* A flatten order needs a global token, an order a normal one too or else to
\* leave the reserve untouched, everything else both.
CanConsume(p) ==
  /\ ~cooling /\ bucket.global >= Parts
  /\ p = 1 => bucket.global - Parts >= ReserveMsg * Parts \/ bucket.normal >= Parts
  /\ p > 1 => bucket.normal >= Parts

Consumed(p) ==
  [global |-> bucket.global - Parts,
   normal |-> IF p # 0 /\ bucket.normal >= Parts THEN bucket.normal - Parts ELSE bucket.normal]

\* The async acquire waits on a threading.Event: while one request waits
\* there the event loop runs nothing else.
LoopIsHeld(c) == \E d \in OnLoop \ {c} : call[d] = "waiting"

Enters(c) == call[c] # "waiting" /\ (c \in OnLoop => ~LoopIsHeld(c))

IsHighestWaiter(c) == heap # <<>> /\ Head(heap) = c

Enqueue(c) ==
  LET before == SelectSeq(heap, LAMBDA d : Priority[d] <= Priority[c])
      after  == SelectSeq(heap, LAMBDA d : Priority[d] > Priority[c])
  IN  before \o <<c>> \o after

Grant(c) ==
  /\ bucket' = Consumed(Priority[c])
  /\ spent' = (spent \/ Priority[c] = 0)
  /\ heap' = Remove(heap, c)
  /\ call' = [call EXCEPT ![c] = "granted"]

\* try_acquire, and the first pass of a waiting acquire: it does not look at
\* who waits already.
Acquire(c) == Enters(c) /\ CanConsume(Priority[c]) /\ Grant(c) /\ UNCHANGED cooling

\* try_acquire returns None; market data is asked for again 50 ms later.
TryAcquireDenied(c) ==
  /\ Priority[c] = 3 /\ Enters(c) /\ ~CanConsume(3)
  /\ call' = [call EXCEPT ![c] = "refused"]
  /\ UNCHANGED <<bucket, cooling, heap, spent>>

Wait(c) ==
  /\ Priority[c] # 3 /\ Enters(c) /\ ~CanConsume(Priority[c])
  /\ heap' = Enqueue(c)
  /\ call' = [call EXCEPT ![c] = "waiting"]
  /\ UNCHANGED <<bucket, cooling, spent>>

\* A waiter that wakes goes ahead only from the top of the heap.
Wake(c) ==
  /\ call[c] = "waiting" /\ IsHighestWaiter(c) /\ CanConsume(Priority[c])
  /\ Grant(c) /\ UNCHANGED cooling

\* GatewayPacingTimeout, or None from blocking_acquire.
AcquireTimeout(c) ==
  /\ call[c] = "waiting" /\ ~(IsHighestWaiter(c) /\ CanConsume(Priority[c]))
  /\ heap' = Remove(heap, c)
  /\ call' = [call EXCEPT ![c] = "refused"]
  /\ UNCHANGED <<bucket, cooling, spent>>

\* The refill is lazy in the code; every reader refills before it looks, so
\* it may as well happen as time passes.  During a cooldown no reader does.
Tick ==
  /\ ~cooling /\ bucket # Refilled
  /\ bucket' = Refilled
  /\ spent' = (spent /\ ~(Refilled.global = GlobalCap))
  /\ UNCHANGED <<cooling, heap, call>>

NotifyError100 ==
  /\ bucket' = [global |-> 0, normal |-> 0]
  /\ cooling' = TRUE /\ spent' = TRUE
  /\ UNCHANGED <<heap, call>>

\* _last_refill stands at the error: the first reader after the cooldown adds
\* what the cooldown earned, which is a few ticks at once.
CooldownEnds == cooling /\ cooling' = FALSE /\ UNCHANGED <<bucket, heap, call, spent>>

LimiterNext ==
  \/ \E c \in Callers : \/ Acquire(c) \/ TryAcquireDenied(c) \/ Wait(c)
                        \/ Wake(c) \/ AcquireTimeout(c)
  \/ Tick \/ NotifyError100 \/ CooldownEnds

\* gateway_rate_limiter.py:349 lets orders pass without a normal token, and
\* the two buckets refill at different rates: whatever traffic of priorities
\* 1 to 4 comes in, the flatten orders find their reserve but for less than
\* one token of it, unless they have used it themselves or an Error 100
\* emptied the bucket since it was full.
ReserveHolds == spent \/ bucket.global > (ReserveMsg - 1) * Parts

=============================================================================
