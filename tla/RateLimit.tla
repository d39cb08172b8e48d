------------------------------ MODULE RateLimit -----------------------------
(***************************************************************************)
(* The sliding-window rate limiter of api/middleware/rate_limit.py.        *)
(*                                                                         *)
(* dispatch is a coroutine without an await between reading the clock and  *)
(* appending to the bucket: the event loop runs it as one step.            *)
(***************************************************************************)
EXTENDS Integers, Sequences

CONSTANTS
  Clients,   \* client addresses
  Limit,     \* LIMIT_PER_MINUTE
  Window,    \* WINDOW_SECONDS, in ticks of the clock
  MaxTime    \* bound: the clock

ASSUME RateLimitAssumption ==
  /\ Limit \in Nat \ {0}
  /\ Window \in Nat
  /\ MaxTime \in Nat

VARIABLES
  now,       \* time.monotonic()
  bucket,    \* _BUCKETS[client]: times of admitted requests, oldest first
  log,       \* history: the time of every request ever admitted
  refused    \* history: the time of the last refusal, or -1

vars == <<now, bucket, log, refused>>

Init ==
  /\ now = 0
  /\ bucket = [c \in Clients |-> <<>>]
  /\ log = [c \in Clients |-> <<>>]
  /\ refused = [c \in Clients |-> -1]

Elapse ==
  /\ now < MaxTime
  /\ now' = now + 1
  /\ UNCHANGED <<bucket, log, refused>>

OutOrAtEdge(t) == now - t >= Window  \* mutant

OutOfWindow(t) == now - t > Window

\* The while loop drops entries from the left as long as they are out of the
\* window: dropping k of them is what it does.
Drops(b, k) ==
  /\ k \in 0..Len(b)
  /\ \A i \in 1..k : OutOfWindow(b[i])
  /\ k < Len(b) => ~OutOfWindow(b[k + 1])

Rest(b, k) == SubSeq(b, k + 1, Len(b))

OverLimit(b) == Len(b) >= Limit - 1  \* mutant

Full(b) == Len(b) >= Limit

Stamp == now

Admit(c) ==
  /\ \E k \in 0..Len(bucket[c]) :
       /\ Drops(bucket[c], k)
       /\ ~Full(Rest(bucket[c], k))
       /\ bucket' = [bucket EXCEPT ![c] = Append(Rest(bucket[c], k), Stamp)]
  /\ log' = [log EXCEPT ![c] = Append(log[c], now)]
  /\ UNCHANGED <<now, refused>>

\* 429
Refuse(c) ==
  /\ \E k \in 0..Len(bucket[c]) :
       /\ Drops(bucket[c], k)
       /\ Full(Rest(bucket[c], k))
       /\ bucket' = [bucket EXCEPT ![c] = Rest(bucket[c], k)]
  /\ refused' = [refused EXCEPT ![c] = now]
  /\ UNCHANGED <<now, log>>

Next ==
  \/ Elapse
  \/ \E c \in Clients : Admit(c) \/ Refuse(c)

Spec == Init /\ [][Next]_vars

-----------------------------------------------------------------------------
(* Properties *)

\* Every variable has its type.
TypeOK ==
  /\ now \in 0..MaxTime
  /\ bucket \in [Clients -> Seq(Nat)]
  /\ log \in [Clients -> Seq(Nat)]
  /\ refused \in [Clients -> Nat \union {-1}]

\* In no window of Window seconds, ends included and wherever it starts, are
\* more than Limit requests of one client admitted, although the middleware
\* forgets the requests that left the window.
NeverOverLimit ==
  \A c \in Clients : \A i \in 1..Len(log[c]) :
    i + Limit <= Len(log[c]) => log[c][i + Limit] - log[c][i] > Window

\* A request is refused only if the window that ends with it holds Limit
\* admitted requests: other clients, and refused requests, do not count.
NeverRefusedEarly ==
  \A c \in Clients : refused[c] = now =>
    /\ Len(log[c]) >= Limit
    /\ now - log[c][Len(log[c]) - Limit + 1] <= Window
=============================================================================
