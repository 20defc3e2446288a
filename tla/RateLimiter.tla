---------------------------- MODULE RateLimiter ----------------------------
(***************************************************************************)
(* The rate limiter of the capability gateway (pkg/gateway/gateway.go): a  *)
(* bucket per session, opened by the first request and replaced by the     *)
(* first request after its end.  Time is counted in ticks.                 *)
(***************************************************************************)
EXTENDS Integers, Sequences

CONSTANTS
  Keys,      \* session ids, also those no session has
  Minute,    \* ticks in the life of a bucket
  MaxNow,    \* bound: ticks the clock makes
  Configs    \* the configurations a gateway may be started with

ASSUME LimiterAssumption ==
  /\ Minute \in Nat \ {0}
  /\ \A c \in Configs : c.rpm \in Nat

VARIABLES
  config,    \* gateway.Config
  now,       \* the clock
  buckets,   \* the bucket of each key
  granted    \* history: when each key was granted a request

limiterVars == <<config, now, buckets, granted>>

Bucket == [count : Nat, reset : Nat]

\* No bucket is in the map for the key.
NoBucket == [count |-> 0, reset |-> 0]

LimiterTypeOK ==
  /\ config \in Configs
  /\ now \in Nat
  /\ buckets \in [Keys -> Bucket]
  /\ granted \in [Keys -> Seq(Nat)]

LimiterInit ==
  /\ config \in Configs
  /\ now = 0
  /\ buckets = [k \in Keys |-> NoBucket]
  /\ granted = [k \in Keys |-> <<>>]

Tick == now < MaxNow /\ now' = now + 1 /\ UNCHANGED <<config, buckets, granted>>

Unlimited == config.rpm <= 0

Expired(k) == buckets[k] = NoBucket \/ now > buckets[k].reset

\* Variant with a fault: one request too many in a bucket.
OpenOneMore(k) == ~Expired(k) /\ buckets[k].count <= config.rpm

Open(k) == ~Expired(k) /\ buckets[k].count < config.rpm

Allow(k) ==
  /\ ~Unlimited
  /\ \/ Expired(k) /\ buckets' =
          [buckets EXCEPT ![k] = [count |-> 1, reset |-> now + Minute]]
     \/ Open(k) /\ buckets' = [buckets EXCEPT ![k].count = @ + 1]
  /\ granted' = [granted EXCEPT ![k] = Append(@, now)]
  /\ UNCHANGED <<config, now>>

Exceeded(k) == ~Unlimited /\ ~Expired(k) /\ ~Open(k)

-----------------------------------------------------------------------------
\* A session is granted at most twice the configured number of requests in
\* any minute: a bucket is full at most at its end, and the next one at its
\* beginning (gateway.go:106-125).
TwiceRpmPerMinute ==
  \A k \in Keys : \A i, j \in DOMAIN granted[k] :
    ~Unlimited /\ j = i + 2 * config.rpm => granted[k][j] - granted[k][i] > Minute
=============================================================================
