--------------------------- MODULE GatewayProofs ---------------------------
(* Theorems about the gateway for every configuration, clock, set of       *)
(* sessions, calls and rules.                                              *)
EXTENDS Gateway, SeqFacts

-----------------------------------------------------------------------------
(* The rate limiter.  No step of the gateway touches it but Allow and Tick. *)

LimiterStep == (\E k \in Keys : Allow(k)) \/ Tick \/ UNCHANGED limiterVars

LEMMA GatewayLimiterStep == [Next]_vars => LimiterStep
<1> SUFFICES ASSUME [Next]_vars PROVE LimiterStep
  OBVIOUS
<1>1. ASSUME NEW c \in Calls, NEW k \in Keys, Post(c, k) PROVE LimiterStep
  BY <1>1 DEF Post, LimiterStep
<1>2. ASSUME NEW c \in Calls, Handling(c) PROVE LimiterStep
  BY <1>2 DEF Handling, LookUp, BadRequest, Clear, Deny, DenyPanics, Forward, ForwardFails,
              LimiterStep
<1>3. ASSUME Session PROVE LimiterStep
  BY <1>3 DEF Session, Others, LimiterStep
<1>4. ASSUME Watch(Watching \/ WriteFile) PROVE LimiterStep
  BY <1>4 DEF Watch, LimiterStep
<1>5. ASSUME Clock PROVE LimiterStep
  BY <1>5 DEF Clock, LimiterStep
<1>6. ASSUME UNCHANGED vars PROVE LimiterStep
  BY <1>6 DEF vars, LimiterStep
<1> QED BY <1>1, <1>2, <1>3, <1>4, <1>5, <1>6 DEF Next

\* Where the grants of a key lie in time, given its bucket: those of the
\* bucket, which are the last ones, before its end; those before it before
\* its beginning; and those more than a full bucket before it a minute
\* earlier still.
Spread(b, g) ==
  /\ b = NoBucket => g = <<>>
  /\ b # NoBucket =>
       /\ b.count \in 1..config.rpm
       /\ b.reset <= now + Minute
       /\ \A i \in DOMAIN g :
            /\ g[i] <= b.reset
            /\ i + b.count <= Len(g) => g[i] + Minute < b.reset
            /\ i + b.count + config.rpm <= Len(g) =>
                 g[i] + Minute + Minute < b.reset

Apart(g) ==
  \A i, j \in DOMAIN g : j = i + 2 * config.rpm => g[j] - g[i] > Minute

LimiterInv ==
  /\ LimiterTypeOK
  /\ ~Unlimited => \A k \in Keys : Spread(buckets[k], granted[k]) /\ Apart(granted[k])

LEMMA LimiterInvInit == Init => LimiterInv
<1> SUFFICES ASSUME Init PROVE LimiterInv
  OBVIOUS
<1>1. LimiterInit
  BY DEF Init
<1>2. <<>> \in Seq(Nat) /\ DOMAIN <<>> = {}
  OBVIOUS
<1>3. LimiterTypeOK
  BY <1>1, <1>2 DEF LimiterInit, LimiterTypeOK, NoBucket, Bucket
<1>4. ASSUME NEW k \in Keys PROVE Spread(buckets[k], granted[k]) /\ Apart(granted[k])
  BY <1>1, <1>2 DEF LimiterInit, Spread, Apart
<1> QED BY <1>3, <1>4 DEF LimiterInv

\* The arithmetic of a grant at t: of the L grants before it, the bucket that
\* ends at r holds the last c; the i-th was at x; m is the minute.
LEMMA InNewBucket ==
  ASSUME NEW i \in Nat, NEW L \in Nat, NEW R \in Nat, NEW c \in 1..R,
         NEW x \in Nat, NEW r \in Nat, NEW t \in Nat, NEW m \in Nat,
         t > r, x <= r, i + c <= L => x + m < r
  PROVE  /\ x <= t + m /\ x + m < t + m
         /\ i + 1 + R <= L + 1 => x + m + m < t + m
         /\ L + 1 = i + 2 * R => t - x > m
OBVIOUS

LEMMA InOldBucket ==
  ASSUME NEW i \in Nat, NEW L \in Nat, NEW R \in Nat, NEW c \in 1..R,
         NEW x \in Nat, NEW r \in Nat, NEW t \in Nat, NEW m \in Nat,
         c < R, r <= t + m, x <= r,
         i + c <= L => x + m < r, i + c + R <= L => x + m + m < r
  PROVE  /\ i + (c + 1) <= L + 1 => x + m < r
         /\ i + (c + 1) + R <= L + 1 => x + m + m < r
         /\ L + 1 = i + 2 * R => t - x > m
OBVIOUS

\* What is to be shown of each earlier grant is what these lemmas conclude.
LEMMA GrantSpread ==
  ASSUME NEW b \in Bucket, NEW g \in Seq(Nat), NEW d \in Bucket,
         config.rpm \in Nat \ {0}, now \in Nat, Minute \in Nat \ {0},
         Spread(b, g), Apart(g), d # NoBucket,
         d.count \in 1..config.rpm, d.reset \in now..(now + Minute),
         \A i \in DOMAIN g :
           /\ g[i] <= d.reset
           /\ i + d.count <= Len(g) + 1 => g[i] + Minute < d.reset
           /\ i + d.count + config.rpm <= Len(g) + 1 => g[i] + Minute + Minute < d.reset
           /\ Len(g) + 1 = i + 2 * config.rpm => now - g[i] > Minute
  PROVE  Spread(d, Append(g, now)) /\ Apart(Append(g, now))
<1> DEFINE h == Append(g, now)
<1>1. /\ h \in Seq(Nat) /\ Len(h) = Len(g) + 1 /\ Len(g) \in Nat
      /\ DOMAIN g = 1..Len(g) /\ DOMAIN h = 1..(Len(g) + 1)
      /\ h[Len(g) + 1] = now
      /\ \A i \in DOMAIN g : h[i] = g[i] /\ g[i] \in Nat
  BY AppendProperties, LenProperties, ElementOfSeq
<1> HIDE DEF h
<1>2. Spread(d, h)
  <2>1. ASSUME NEW i \in DOMAIN h
        PROVE  /\ h[i] <= d.reset
               /\ i + d.count <= Len(h) => h[i] + Minute < d.reset
               /\ i + d.count + config.rpm <= Len(h) => h[i] + Minute + Minute < d.reset
    <3>1. CASE i = Len(g) + 1
      <4>1. ~(i + d.count <= Len(h)) /\ ~(i + d.count + config.rpm <= Len(h))
        BY <3>1, <1>1
      <4> QED BY <3>1, <4>1, <1>1
    <3>2. CASE i \in DOMAIN g
      BY <3>2, <1>1
    <3> QED BY <3>1, <3>2, <1>1
  <2> QED BY <2>1 DEF Spread
<1>3. Apart(h)
  <2> SUFFICES ASSUME NEW i \in DOMAIN h, NEW j \in DOMAIN h, j = i + 2 * config.rpm
               PROVE  h[j] - h[i] > Minute
    BY DEF Apart
  <2>1. i \in DOMAIN g
    BY <1>1
  <2>2. CASE j = Len(g) + 1
    BY <2>1, <2>2, <1>1
  <2>3. CASE j \in DOMAIN g
    BY <2>1, <2>3, <1>1 DEF Apart
  <2> QED BY <2>2, <2>3, <1>1
<1> QED BY <1>2, <1>3 DEF h

LEMMA LimiterInvStep == LimiterInv /\ [Next]_vars => LimiterInv'
<1> SUFFICES ASSUME LimiterInv, LimiterStep PROVE LimiterInv'
  BY GatewayLimiterStep
<1>1. LimiterTypeOK /\ config.rpm \in Nat /\ Minute \in Nat \ {0}
  BY LimiterAssumption DEF LimiterInv, LimiterTypeOK
<1>2. ASSUME NEW k \in Keys, Allow(k) PROVE LimiterInv'
  <2> DEFINE d == buckets'[k]
  <2>1. /\ ~Unlimited /\ now' = now /\ config' = config
        /\ buckets' = [buckets EXCEPT ![k] = d] /\ d \in Bucket
        /\ granted' = [granted EXCEPT ![k] = Append(@, now)]
        /\ \/ /\ buckets[k] = NoBucket \/ now > buckets[k].reset
              /\ d = [count |-> 1, reset |-> now + Minute]
           \/ /\ buckets[k] # NoBucket /\ now <= buckets[k].reset
              /\ buckets[k].count < config.rpm
              /\ d = [buckets[k] EXCEPT !.count = @ + 1]
    <3>1. buckets \in [Keys -> Bucket] /\ now \in Nat
      BY <1>1 DEF LimiterTypeOK
    <3>2. CASE Expired(k) /\ buckets' =
                 [buckets EXCEPT ![k] = [count |-> 1, reset |-> now + Minute]]
      <4>1. d = [count |-> 1, reset |-> now + Minute] /\ d \in Bucket
        BY <3>1, <3>2, <1>1 DEF Bucket
      <4> QED BY <4>1, <3>2, <1>2 DEF Allow, Expired
    <3>3. CASE Open(k) /\ buckets' = [buckets EXCEPT ![k].count = @ + 1]
      <4>1. d = [buckets[k] EXCEPT !.count = @ + 1] /\ buckets[k] \in Bucket
        BY <3>1, <3>3
      <4>2. d \in Bucket
        BY <4>1 DEF Bucket
      <4>3. buckets' = [buckets EXCEPT ![k] = d]
        BY <4>1, <3>1, <3>3
      <4>4. buckets[k].reset \in Nat
        BY <4>1 DEF Bucket
      <4> QED BY <4>1, <4>2, <4>3, <4>4, <3>1, <3>3, <1>2 DEF Allow, Open, Expired
    <3> QED BY <3>2, <3>3, <1>2 DEF Allow
  <2> HIDE DEF d
  <2>2. buckets[k] \in Bucket /\ granted[k] \in Seq(Nat) /\ now \in Nat
    BY <1>1 DEF LimiterTypeOK
  <2>3. Append(granted[k], now) \in Seq(Nat)
    BY <2>2, AppendProperties
  <2>4. LimiterTypeOK'
    BY <1>1, <2>1, <2>2, <2>3 DEF LimiterTypeOK
  <2>5. Spread(d, Append(granted[k], now)) /\ Apart(Append(granted[k], now))
    <3> DEFINE b == buckets[k]
               g == granted[k]
    <3>1. Spread(b, g) /\ Apart(g)
      BY <2>1 DEF LimiterInv
    <3>2. /\ b \in Bucket /\ g \in Seq(Nat) /\ d \in Bucket
          /\ b.count \in Nat /\ b.reset \in Nat /\ Len(g) \in Nat
          /\ config.rpm \in Nat \ {0} /\ now \in Nat /\ Minute \in Nat \ {0}
          /\ DOMAIN g = 1..Len(g) /\ \A i \in DOMAIN g : g[i] \in Nat /\ i \in Nat
      BY <1>1, <2>1, <2>2, LenProperties, ElementOfSeq DEF Bucket, Unlimited
    <3> HIDE DEF b, g
    <3>3. ASSUME b = NoBucket
          PROVE  Spread(d, Append(g, now)) /\ Apart(Append(g, now))
      <4>1. /\ d # NoBucket /\ d.count = 1 /\ d.reset = now + Minute
            /\ g = <<>> /\ DOMAIN g = {} /\ Len(g) = 0
        BY <3>1, <3>2, <3>3, <2>1 DEF Spread, NoBucket, b
      <4>2. d.count \in 1..config.rpm /\ d.reset \in now..(now + Minute)
        BY <4>1, <3>2
      <4> QED BY <4>1, <4>2, <3>1, <3>2, GrantSpread
    <3>4. ASSUME b # NoBucket /\ now > b.reset
          PROVE  Spread(d, Append(g, now)) /\ Apart(Append(g, now))
      <4>1. d # NoBucket /\ d.count = 1 /\ d.reset = now + Minute
        BY <3>2, <3>4, <2>1 DEF NoBucket, b
      <4>2. ASSUME NEW i \in DOMAIN g
            PROVE  /\ g[i] <= now + Minute /\ g[i] + Minute < now + Minute
                   /\ i + 1 + config.rpm <= Len(g) + 1 => g[i] + Minute + Minute < now + Minute
                   /\ Len(g) + 1 = i + 2 * config.rpm => now - g[i] > Minute
        <5>1. /\ b.count \in 1..config.rpm /\ g[i] <= b.reset
              /\ i + b.count <= Len(g) => g[i] + Minute < b.reset
          BY <3>1, <3>4 DEF Spread
        <5> QED BY <5>1, <3>2, <3>4, InNewBucket
      <4>3. d.count \in 1..config.rpm /\ d.reset \in now..(now + Minute)
        BY <4>1, <3>2
      <4> QED BY <4>1, <4>2, <4>3, <3>1, <3>2, GrantSpread
    <3>5. ASSUME b # NoBucket /\ now <= b.reset
          PROVE  Spread(d, Append(g, now)) /\ Apart(Append(g, now))
      <4>1. /\ d # NoBucket /\ d.count = b.count + 1 /\ d.reset = b.reset
            /\ b.count < config.rpm
        <5>1. ~(now > b.reset)
          BY <3>2, <3>5
        <5>2. d = [b EXCEPT !.count = @ + 1] /\ b.count < config.rpm
          BY <5>1, <3>5, <2>1 DEF b
        <5>3. d.count = b.count + 1 /\ d.reset = b.reset
          BY <5>2, <3>2 DEF Bucket
        <5> QED BY <5>2, <5>3, <3>2 DEF NoBucket
      <4>2. b.count \in 1..config.rpm /\ b.reset <= now + Minute
        BY <3>1, <3>5 DEF Spread
      <4>3. ASSUME NEW i \in DOMAIN g
            PROVE  /\ g[i] <= b.reset
                   /\ i + (b.count + 1) <= Len(g) + 1 => g[i] + Minute < b.reset
                   /\ i + (b.count + 1) + config.rpm <= Len(g) + 1 =>
                        g[i] + Minute + Minute < b.reset
                   /\ Len(g) + 1 = i + 2 * config.rpm => now - g[i] > Minute
        <5>1. /\ g[i] <= b.reset
              /\ i + b.count <= Len(g) => g[i] + Minute < b.reset
              /\ i + b.count + config.rpm <= Len(g) => g[i] + Minute + Minute < b.reset
          BY <3>1, <3>5 DEF Spread
        <5> QED BY <5>1, <4>1, <4>2, <3>2, <3>5, InOldBucket
      <4>4. d.count \in 1..config.rpm /\ d.reset \in now..(now + Minute)
        BY <4>1, <4>2, <3>2, <3>5
      <4> QED BY <4>1, <4>3, <4>4, <3>1, <3>2, GrantSpread
    <3> QED BY <3>2, <3>3, <3>4, <3>5 DEF b, g
  <2>6. ASSUME NEW q \in Keys
        PROVE  Spread(buckets[q], granted[q])' /\ Apart(granted[q])'
    <3>1. CASE q = k
      <4>1. buckets'[q] = d /\ granted'[q] = Append(granted[k], now)
        BY <3>1, <1>1, <2>1 DEF LimiterTypeOK
      <4> QED BY <4>1, <2>1, <2>5 DEF Spread, Apart
    <3>2. CASE q # k
      <4>1. buckets'[q] = buckets[q] /\ granted'[q] = granted[q]
        BY <3>2, <1>1, <2>1 DEF LimiterTypeOK
      <4> QED BY <4>1, <2>1 DEF LimiterInv, Spread, Apart
    <3> QED BY <3>1, <3>2
  <2> QED BY <2>4, <2>6 DEF LimiterInv
<1>3. ASSUME Tick PROVE LimiterInv'
  <2>1. /\ now' = now + 1 /\ now \in Nat
        /\ config' = config /\ buckets' = buckets /\ granted' = granted
    BY <1>1, <1>3 DEF Tick, LimiterTypeOK
  <2>2. LimiterTypeOK'
    BY <1>1, <2>1 DEF LimiterTypeOK
  <2>3. ASSUME ~Unlimited, NEW q \in Keys
        PROVE  Spread(buckets[q], granted[q])' /\ Apart(granted[q])'
    <3>1. Spread(buckets[q], granted[q]) /\ Apart(granted[q])
      BY <2>3 DEF LimiterInv
    <3>2. buckets[q].reset \in Nat
      BY <1>1 DEF LimiterTypeOK, Bucket
    <3>3. buckets[q].reset <= now + Minute => buckets[q].reset <= now' + Minute
      BY <1>1, <2>1, <3>2
    <3> QED BY <2>1, <3>1, <3>3 DEF Spread, Apart
  <2> QED BY <2>1, <2>2, <2>3 DEF LimiterInv, Unlimited
<1>4. ASSUME UNCHANGED limiterVars PROVE LimiterInv'
  BY <1>4 DEF limiterVars, LimiterInv, LimiterTypeOK, Unlimited, Spread, Apart
<1> QED BY <1>2, <1>3, <1>4 DEF LimiterStep

\* No session is ever granted more than twice the configured number of
\* requests within a minute (gateway.go:103-128), whatever the limit, the
\* length of the minute and the number of sessions.
THEOREM LimiterBoundsEveryMinute == Spec => []TwiceRpmPerMinute
<1>1. LimiterInv => TwiceRpmPerMinute
  BY DEF LimiterInv, TwiceRpmPerMinute, Apart
<1> QED BY LimiterInvInit, LimiterInvStep, <1>1, PTL DEF Spec

-----------------------------------------------------------------------------
(* The deny rules.                                                         *)

\* A request under way that the rules in force allow was allowed since its
\* post, and so was every request past the check.
AllowedInv ==
  /\ CallTypeOK
  /\ \A c \in Calls :
       /\ call[c].pc # "idle" /\ ~Denied(c) => call[c].allowed
       /\ call[c].pc \in {"cleared", "202", "500"} => call[c].allowed

\* A request moves on, or is posted, and the rules stay as they are.
LEMMA AllowedGoto ==
  ASSUME AllowedInv, NEW c \in Calls, NEW pc \in {"found"} \union Answers,
         call[c].pc # "idle", pc \in {"202", "500"} => call[c].allowed,
         Goto(c, pc), UNCHANGED watcherVars
  PROVE  AllowedInv'
<1>1. Rules' = Rules
  BY DEF watcherVars, Rules
<1>2. /\ call' = [call EXCEPT ![c] = [call[c] EXCEPT !.pc = pc]]
      /\ call[c] \in [pc : {"idle", "admitted", "found", "cleared"} \union Answers,
                      key : Keys, allowed : BOOLEAN]
  BY DEF Goto, AllowedInv, CallTypeOK
<1>3. /\ call'[c].pc = pc /\ call'[c].allowed = call[c].allowed
      /\ call'[c] \in [pc : {"idle", "admitted", "found", "cleared"} \union Answers,
                       key : Keys, allowed : BOOLEAN]
      /\ \A d \in Calls : d # c => call'[d] = call[d]
  BY <1>2 DEF AllowedInv, CallTypeOK
<1>4. CallTypeOK'
  BY <1>2, <1>3 DEF AllowedInv, CallTypeOK
<1>5. pc # "cleared"
  BY DEF Answers
<1> QED BY <1>1, <1>3, <1>4, <1>5 DEF AllowedInv, Denied

LEMMA AllowedClear ==
  ASSUME AllowedInv, NEW c \in Calls, Clear(c)
  PROVE  AllowedInv'
<1>1. Rules' = Rules /\ call[c].pc = "found" /\ call[c].allowed
  BY DEF Clear, watcherVars, Rules, AllowedInv
<1>2. /\ call' = [call EXCEPT ![c] = [call[c] EXCEPT !.pc = "cleared"]]
      /\ call[c] \in [pc : {"idle", "admitted", "found", "cleared"} \union Answers,
                      key : Keys, allowed : BOOLEAN]
  BY DEF Clear, Goto, AllowedInv, CallTypeOK
<1>3. /\ call'[c].allowed = call[c].allowed
      /\ call'[c] \in [pc : {"idle", "admitted", "found", "cleared"} \union Answers,
                       key : Keys, allowed : BOOLEAN]
      /\ \A d \in Calls : d # c => call'[d] = call[d]
  BY <1>2 DEF AllowedInv, CallTypeOK
<1>4. CallTypeOK'
  BY <1>2, <1>3 DEF AllowedInv, CallTypeOK
<1> QED BY <1>1, <1>3, <1>4 DEF AllowedInv, Denied

LEMMA AllowedRequest ==
  ASSUME AllowedInv, NEW c \in Calls, NEW k \in Keys, NEW pc \in {"admitted", "429"},
         Request(c, k, pc), UNCHANGED watcherVars
  PROVE  AllowedInv'
<1>1. Rules' = Rules
  BY DEF watcherVars, Rules
<1> DEFINE r == [pc |-> pc, key |-> k, allowed |-> ~Denied(c)]
<1>2. r \in [pc : {"idle", "admitted", "found", "cleared"} \union Answers,
             key : Keys, allowed : BOOLEAN]
  BY DEF Answers
<1>3. /\ call' = [call EXCEPT ![c] = r] /\ call'[c] = r
      /\ \A d \in Calls : d # c => call'[d] = call[d]
  BY DEF Request, AllowedInv, CallTypeOK
<1>4. CallTypeOK'
  BY <1>2, <1>3 DEF AllowedInv, CallTypeOK
<1>5. /\ r.pc \notin {"cleared", "202", "500"}
      /\ ~Denied(c) => r.allowed
  OBVIOUS
<1> HIDE DEF r
<1> QED BY <1>1, <1>3, <1>4, <1>5 DEF AllowedInv, Denied

LEMMA AllowedWatch ==
  ASSUME AllowedInv, Watch(Watching \/ WriteFile)
  PROVE  AllowedInv'
<1> DEFINE f(c) == call[c].allowed \/ (call[c].pc # "idle" /\ ~Denied(c)')
<1>1. /\ call' = [c \in Calls |-> [pc |-> call[c].pc, key |-> call[c].key, allowed |-> f(c)]]
  BY DEF Watch
<1>2. ASSUME NEW c \in Calls
      PROVE  /\ call'[c].pc = call[c].pc /\ call'[c].key = call[c].key
             /\ call'[c].allowed = f(c) /\ f(c) \in BOOLEAN
             /\ call'[c] = [pc |-> call[c].pc, key |-> call[c].key, allowed |-> f(c)]
  BY <1>1
<1>3. ASSUME NEW c \in Calls
      PROVE  /\ call'[c].pc # "idle" /\ ~Denied(c)' => call'[c].allowed
             /\ call'[c].pc \in {"cleared", "202", "500"} => call'[c].allowed
  <2>1. call[c].pc \in {"cleared", "202", "500"} => call[c].allowed
    BY DEF AllowedInv
  <2>2. call[c].allowed => f(c)
    OBVIOUS
  <2>3. call[c].pc # "idle" /\ ~Denied(c)' => f(c)
    OBVIOUS
  <2> HIDE DEF f
  <2> QED BY <1>2, <2>1, <2>2, <2>3
<1>4. CallTypeOK'
  <2> HIDE DEF f
  <2> QED BY <1>1, <1>2 DEF AllowedInv, CallTypeOK
<1> QED BY <1>3, <1>4 DEF AllowedInv

LEMMA AllowedInvStep == AllowedInv /\ [Next]_vars => AllowedInv'
<1> SUFFICES ASSUME AllowedInv, [Next]_vars PROVE AllowedInv'
  OBVIOUS
<1>1. ASSUME NEW c \in Calls, NEW k \in Keys, Post(c, k) PROVE AllowedInv'
  BY <1>1, AllowedRequest DEF Post
<1>2. ASSUME NEW c \in Calls, LookUp(c) PROVE AllowedInv'
  <2>1. "found" \in {"found"} \union Answers /\ "404" \in {"found"} \union Answers
    BY DEF Answers
  <2>2. Goto(c, "found") \/ Goto(c, "404")
    BY <1>2 DEF LookUp
  <2>3. call[c].pc # "idle" /\ UNCHANGED watcherVars
    BY <1>2 DEF LookUp
  <2> QED BY <2>1, <2>2, <2>3, AllowedGoto
<1>3. ASSUME NEW c \in Calls, Clear(c) PROVE AllowedInv'
  BY <1>3, AllowedClear
<1>4. ASSUME NEW c \in Calls, BadRequest(c) \/ Deny(c) \/ DenyPanics(c) PROVE AllowedInv'
  <2>1. {"400", "denied", "aborted"} \subseteq {"found"} \union Answers
    BY DEF Answers
  <2>2. Goto(c, "400") \/ Goto(c, "denied") \/ Goto(c, "aborted")
    BY <1>4 DEF BadRequest, Deny, DenyPanics
  <2>3. call[c].pc # "idle" /\ UNCHANGED watcherVars
    BY <1>4 DEF BadRequest, Deny, DenyPanics
  <2> QED BY <2>1, <2>2, <2>3, AllowedGoto
<1>5. ASSUME NEW c \in Calls, Forward(c) \/ ForwardFails(c) PROVE AllowedInv'
  <2>1. "202" \in {"found"} \union Answers /\ "500" \in {"found"} \union Answers
    BY DEF Answers
  <2>2. Goto(c, "202") \/ Goto(c, "500")
    BY <1>5 DEF Forward, ForwardFails
  <2>3. call[c].pc = "cleared" /\ UNCHANGED watcherVars
    BY <1>5 DEF Forward, ForwardFails
  <2>4. call[c].allowed
    BY <2>3 DEF AllowedInv
  <2> QED BY <2>1, <2>2, <2>3, <2>4, AllowedGoto
<1>6. ASSUME UNCHANGED <<watcherVars, call>> PROVE AllowedInv'
  BY <1>6 DEF AllowedInv, CallTypeOK, Denied, Rules, watcherVars
<1>7. ASSUME Session PROVE AllowedInv'
  BY <1>6, <1>7 DEF Session, Others
<1>8. ASSUME Clock PROVE AllowedInv'
  BY <1>6, <1>8 DEF Clock
<1>9. ASSUME UNCHANGED vars PROVE AllowedInv'
  BY <1>6, <1>9 DEF vars
<1>10. ASSUME Watch(Watching \/ WriteFile) PROVE AllowedInv'
  BY <1>10, AllowedWatch
<1> QED BY <1>1, <1>2, <1>3, <1>4, <1>5, <1>7, <1>8, <1>9, <1>10 DEF Next, Handling

LEMMA AllowedInvInit == Init => AllowedInv
<1> SUFFICES ASSUME Init PROVE AllowedInv
  OBVIOUS
<1>1. call = [c \in Calls |-> [pc |-> "idle", key |-> SessionId, allowed |-> FALSE]]
  BY DEF Init
<1>2. CallTypeOK
  BY <1>1, GatewayAssumption DEF CallTypeOK
<1> QED BY <1>1, <1>2 DEF AllowedInv

\* No call reaches the server that all the rules in force since its post deny
\* (handler.go:235-240), however the reload of the rules, the session and
\* other calls interleave.
THEOREM DeniedCallsStayOut == Spec => []DeniedStaysOut
<1>1. AllowedInv => DeniedStaysOut
  BY DEF AllowedInv, DeniedStaysOut
<1> QED BY AllowedInvInit, AllowedInvStep, <1>1, PTL DEF Spec

-----------------------------------------------------------------------------
(* The replies in a sequence.                                              *)

\* What a sequence has in another's place: one entry more, after the n-th.
IsInserted(r, s, n, e) ==
  /\ Len(r) = Len(s) + 1
  /\ \A p \in 1..n : r[p] = s[p]
  /\ r[n + 1] = e
  /\ \A p \in (n + 1)..Len(s) : r[p + 1] = s[p]

LEMMA RepliesInsert ==
  ASSUME NEW S, NEW t \in Seq(S), NEW s \in Seq(S), NEW r \in Seq(S),
         NEW n \in 0..Len(s), NEW e, IsInserted(r, s, n, e), ~IsReply(e),
         AreReplies(t, s)
  PROVE  AreReplies(t, r)
<1>1. /\ DOMAIN t = 1..Len(t) /\ DOMAIN s = 1..Len(s) /\ DOMAIN r = 1..Len(r)
      /\ Len(t) \in Nat /\ Len(s) \in Nat /\ n \in Nat /\ Len(r) = Len(s) + 1
  BY LenProperties DEF IsInserted
<1>2. PICK at \in [DOMAIN t -> DOMAIN s] :
        /\ \A i, j \in DOMAIN t : i < j => at[i] < at[j]
        /\ \A i \in DOMAIN t : t[i] = s[at[i]]
        /\ \A p \in DOMAIN s : IsReply(s[p]) <=> \E i \in DOMAIN t : at[i] = p
  BY DEF AreReplies
<1> DEFINE new(p) == IF p <= n THEN p ELSE p + 1
           to == [i \in DOMAIN t |-> new(at[i])]
<1>3. \A p \in DOMAIN s : new(p) \in DOMAIN r /\ r[new(p)] = s[p] /\ new(p) # n + 1
  BY <1>1 DEF IsInserted
<1>4. \A p, q \in DOMAIN s : p < q => new(p) < new(q)
  BY <1>1
<1>5. \A q \in DOMAIN r : q # n + 1 => \E p \in DOMAIN s : new(p) = q
  <2>1. ASSUME NEW q \in DOMAIN r, q <= n PROVE \E p \in DOMAIN s : new(p) = q
    BY <1>1, <2>1
  <2>2. ASSUME NEW q \in DOMAIN r, q > n + 1 PROVE \E p \in DOMAIN s : new(p) = q
    <3>1. q - 1 \in DOMAIN s /\ new(q - 1) = q
      BY <1>1, <2>2
    <3> QED BY <3>1
  <2> QED BY <1>1, <2>1, <2>2
<1>6. \A p, q \in DOMAIN s : new(p) = new(q) => p = q
  BY <1>1
<1> HIDE DEF new
<1>7. to \in [DOMAIN t -> DOMAIN r]
  BY <1>3
<1>8. \A i, j \in DOMAIN t : i < j => to[i] < to[j]
  BY <1>2, <1>4
<1>9. \A i \in DOMAIN t : t[i] = r[to[i]]
  BY <1>2, <1>3
<1>10. ASSUME NEW q \in DOMAIN r PROVE IsReply(r[q]) <=> \E i \in DOMAIN t : to[i] = q
  <2>1. CASE q = n + 1
    <3>1. ~IsReply(r[q]) /\ \A i \in DOMAIN t : to[i] # q
      BY <1>3, <2>1 DEF IsInserted
    <3> QED BY <3>1
  <2>2. CASE q # n + 1
    <3>1. PICK p \in DOMAIN s : new(p) = q
      BY <1>5, <2>2
    <3>2. r[q] = s[p]
      BY <1>3, <3>1
    <3>3. \A i \in DOMAIN t : to[i] = q <=> at[i] = p
      BY <1>6, <3>1
    <3> QED BY <1>2, <3>2, <3>3
  <2> QED BY <2>1, <2>2
<1> HIDE DEF to
<1> QED BY <1>7, <1>8, <1>9, <1>10 DEF AreReplies

LEMMA RepliesRemove ==
  ASSUME NEW S, NEW t \in Seq(S), NEW s \in Seq(S), NEW r \in Seq(S),
         NEW n \in 0..Len(s), NEW e, IsInserted(r, s, n, e), ~IsReply(e),
         AreReplies(t, r)
  PROVE  AreReplies(t, s)
<1>1. /\ DOMAIN t = 1..Len(t) /\ DOMAIN s = 1..Len(s) /\ DOMAIN r = 1..Len(r)
      /\ Len(t) \in Nat /\ Len(s) \in Nat /\ n \in Nat /\ Len(r) = Len(s) + 1
  BY LenProperties DEF IsInserted
<1>2. PICK at \in [DOMAIN t -> DOMAIN r] :
        /\ \A i, j \in DOMAIN t : i < j => at[i] < at[j]
        /\ \A i \in DOMAIN t : t[i] = r[at[i]]
        /\ \A p \in DOMAIN r : IsReply(r[p]) <=> \E i \in DOMAIN t : at[i] = p
  BY DEF AreReplies
<1>3. \A i \in DOMAIN t : at[i] # n + 1
  <2>1. n + 1 \in DOMAIN r /\ ~IsReply(r[n + 1])
    BY <1>1 DEF IsInserted
  <2> QED BY <1>2, <2>1
<1> DEFINE old(q) == IF q <= n THEN q ELSE q - 1
           to == [i \in DOMAIN t |-> old(at[i])]
<1>4. \A q \in DOMAIN r : q # n + 1 => old(q) \in DOMAIN s /\ s[old(q)] = r[q]
  <2>1. ASSUME NEW q \in DOMAIN r, q <= n PROVE old(q) \in DOMAIN s /\ s[old(q)] = r[q]
    BY <1>1, <2>1 DEF IsInserted
  <2>2. ASSUME NEW q \in DOMAIN r, q > n + 1 PROVE old(q) \in DOMAIN s /\ s[old(q)] = r[q]
    <3>1. old(q) = q - 1 /\ q - 1 \in (n + 1)..Len(s) /\ (q - 1) + 1 = q
      BY <1>1, <2>2
    <3>2. r[(q - 1) + 1] = s[q - 1]
      BY <3>1 DEF IsInserted
    <3> QED BY <1>1, <3>1, <3>2
  <2> QED BY <1>1, <2>1, <2>2
<1>5. \A p, q \in DOMAIN r : p # n + 1 /\ q # n + 1 => (p < q => old(p) < old(q))
  BY <1>1
<1>6. \A p, q \in DOMAIN r : p # n + 1 /\ q # n + 1 => (old(p) = old(q) => p = q)
  BY <1>1
<1>7. \A p \in DOMAIN s : \E q \in DOMAIN r : q # n + 1 /\ old(q) = p
  <2>1. ASSUME NEW p \in DOMAIN s, p <= n
        PROVE  p \in DOMAIN r /\ p # n + 1 /\ old(p) = p
    BY <1>1, <2>1
  <2>2. ASSUME NEW p \in DOMAIN s, p > n
        PROVE  p + 1 \in DOMAIN r /\ p + 1 # n + 1 /\ old(p + 1) = p
    BY <1>1, <2>2
  <2> QED BY <1>1, <2>1, <2>2
<1> HIDE DEF old
<1>8. to \in [DOMAIN t -> DOMAIN s]
  BY <1>3, <1>4
<1>9. \A i, j \in DOMAIN t : i < j => to[i] < to[j]
  BY <1>2, <1>3, <1>5
<1>10. \A i \in DOMAIN t : t[i] = s[to[i]]
  BY <1>2, <1>3, <1>4
<1>11. ASSUME NEW p \in DOMAIN s PROVE IsReply(s[p]) <=> \E i \in DOMAIN t : to[i] = p
  <2>1. PICK q \in DOMAIN r : q # n + 1 /\ old(q) = p
    BY <1>7
  <2>2. r[q] = s[p]
    BY <1>4, <2>1
  <2>3. \A i \in DOMAIN t : to[i] = p <=> at[i] = q
    BY <1>3, <1>6, <2>1
  <2> QED BY <1>2, <2>2, <2>3
<1> HIDE DEF to
<1> QED BY <1>8, <1>9, <1>10, <1>11 DEF AreReplies

LEMMA RepliesAppend ==
  ASSUME NEW S, NEW t \in Seq(S), NEW s \in Seq(S), NEW e \in S, IsReply(e),
         AreReplies(t, s)
  PROVE  AreReplies(Append(t, e), Append(s, e))
<1> DEFINE u == Append(t, e)
           r == Append(s, e)
<1>1. /\ DOMAIN t = 1..Len(t) /\ DOMAIN s = 1..Len(s)
      /\ Len(t) \in Nat /\ Len(s) \in Nat
  BY LenProperties
<1>2. /\ u \in Seq(S) /\ Len(u) = Len(t) + 1 /\ u[Len(t) + 1] = e
      /\ \A i \in 1..Len(t) : u[i] = t[i]
      /\ r \in Seq(S) /\ Len(r) = Len(s) + 1 /\ r[Len(s) + 1] = e
      /\ \A i \in 1..Len(s) : r[i] = s[i]
  BY AppendProperties
<1> HIDE DEF u, r
<1>3. DOMAIN u = 1..(Len(t) + 1) /\ DOMAIN r = 1..(Len(s) + 1)
  BY <1>2, LenProperties
<1>4. PICK at \in [DOMAIN t -> DOMAIN s] :
        /\ \A i, j \in DOMAIN t : i < j => at[i] < at[j]
        /\ \A i \in DOMAIN t : t[i] = s[at[i]]
        /\ \A p \in DOMAIN s : IsReply(s[p]) <=> \E i \in DOMAIN t : at[i] = p
  BY DEF AreReplies
<1> DEFINE to == [i \in DOMAIN u |-> IF i <= Len(t) THEN at[i] ELSE Len(s) + 1]
<1>5. /\ \A i \in DOMAIN t : i \in DOMAIN u /\ to[i] = at[i] /\ at[i] \in 1..Len(s)
      /\ Len(t) + 1 \in DOMAIN u /\ to[Len(t) + 1] = Len(s) + 1
      /\ \A i \in DOMAIN u : i \in DOMAIN t \/ i = Len(t) + 1
  BY <1>1, <1>3
<1>6. to \in [DOMAIN u -> DOMAIN r]
  BY <1>1, <1>3, <1>5
<1> HIDE DEF to
<1>7. \A i, j \in DOMAIN u : i < j => to[i] < to[j]
  BY <1>1, <1>4, <1>5
<1>8. \A i \in DOMAIN u : u[i] = r[to[i]]
  BY <1>1, <1>2, <1>4, <1>5
<1>9. ASSUME NEW p \in DOMAIN r PROVE IsReply(r[p]) <=> \E i \in DOMAIN u : to[i] = p
  <2>1. CASE p = Len(s) + 1
    BY <1>2, <1>5, <2>1
  <2>2. CASE p # Len(s) + 1
    <3>1. p \in DOMAIN s /\ r[p] = s[p]
      BY <1>1, <1>2, <1>3, <2>2
    <3>2. (\E i \in DOMAIN u : to[i] = p) <=> (\E i \in DOMAIN t : at[i] = p)
      BY <1>5, <2>2
    <3> QED BY <1>4, <3>1, <3>2
  <2> QED BY <2>1, <2>2
<1>10. AreReplies(u, r)
  BY <1>6, <1>7, <1>8, <1>9 DEF AreReplies
<1> QED BY <1>10 DEF u, r

\* The replies in the beginning of a sequence are the first ones.
LEMMA RepliesPrefix ==
  ASSUME NEW S, NEW t \in Seq(S), NEW a \in Seq(S), NEW b \in Seq(S),
         AreReplies(t, a \o b)
  PROVE  \E n \in 0..Len(t) : AreReplies(SubSeq(t, 1, n), a)
<1> DEFINE s == a \o b
<1>1. /\ Len(s) = Len(a) + Len(b) /\ s \in Seq(S)
      /\ \A p \in 1..Len(a) : s[p] = a[p]
      /\ Len(a) \in Nat /\ Len(b) \in Nat /\ Len(t) \in Nat
      /\ DOMAIN t = 1..Len(t) /\ DOMAIN a = 1..Len(a)
  BY ConcatProperties, LenProperties
<1>2. DOMAIN s = 1..(Len(a) + Len(b))
  BY <1>1, LenProperties
<1>3. AreReplies(t, s)
  OBVIOUS
<1> HIDE DEF s
<1>4. PICK at \in [DOMAIN t -> DOMAIN s] :
        /\ \A i, j \in DOMAIN t : i < j => at[i] < at[j]
        /\ \A i \in DOMAIN t : t[i] = s[at[i]]
        /\ \A p \in DOMAIN s : IsReply(s[p]) <=> \E i \in DOMAIN t : at[i] = p
  BY <1>3 DEF AreReplies
<1>5. \E n \in 0..Len(t) : \A i \in DOMAIN t : at[i] <= Len(a) <=> i <= n
  <2> DEFINE T == {i \in DOMAIN t : at[i] > Len(a)}
  <2>1. CASE T = {}
    <3>1. \A i \in DOMAIN t : at[i] \in Nat /\ at[i] <= Len(a) /\ i <= Len(t)
      BY <1>1, <1>2, <2>1
    <3>2. Len(t) \in 0..Len(t)
      BY <1>1
    <3> QED BY <3>1, <3>2
  <2>2. CASE T # {}
    <3>1. T \in SUBSET Nat
      BY <1>1
    <3>2. PICK m \in T : \A i \in T : m <= i
      BY <2>2, <3>1, LeastNatural
    <3>3. m - 1 \in 0..Len(t)
      BY <1>1
    <3>4. ASSUME NEW i \in DOMAIN t PROVE at[i] <= Len(a) <=> i <= m - 1
      <4>1. at[i] \in Nat /\ at[m] \in Nat /\ at[m] > Len(a) /\ m \in Nat /\ i \in Nat
        BY <1>1, <1>2
      <4>2. i < m => i \notin T
        BY <3>2, <4>1
      <4>3. i > m => at[i] > at[m]
        BY <1>4
      <4> QED BY <1>1, <4>1, <4>2, <4>3
    <3> QED BY <3>3, <3>4
  <2> QED BY <2>1, <2>2
<1>6. PICK n \in 0..Len(t) : \A i \in DOMAIN t : at[i] <= Len(a) <=> i <= n
  BY <1>5
<1> DEFINE u == SubSeq(t, 1, n)
<1>7. u \in Seq(S) /\ Len(u) = n /\ \A i \in 1..n : u[i] = t[i]
  <2>1. \A i \in 1..n : t[i] \in S
    BY <1>1, ElementOfSeq
  <2> QED BY <1>1, <2>1, SubSeqProperties
<1> HIDE DEF u
<1>8. DOMAIN u = 1..n /\ \A i \in 1..n : i \in DOMAIN t /\ at[i] \in DOMAIN a
  <2>1. \A i \in 1..n : i \in DOMAIN t /\ at[i] \in DOMAIN s /\ at[i] <= Len(a)
    BY <1>1, <1>6
  <2> QED BY <1>1, <1>2, <1>7, <2>1, LenProperties
<1> DEFINE to == [i \in DOMAIN u |-> at[i]]
<1>9. to \in [DOMAIN u -> DOMAIN a]
  BY <1>8
<1>10. \A i, j \in DOMAIN u : i < j => to[i] < to[j]
  BY <1>4, <1>8
<1>11. \A i \in DOMAIN u : u[i] = a[to[i]]
  BY <1>1, <1>4, <1>7, <1>8
<1>12. ASSUME NEW p \in DOMAIN a PROVE IsReply(a[p]) <=> \E i \in DOMAIN u : to[i] = p
  <2>1. p \in DOMAIN s /\ s[p] = a[p] /\ p <= Len(a)
    BY <1>1, <1>2
  <2>2. \A i \in DOMAIN t : at[i] = p => i \in 1..n
    BY <1>1, <1>6, <2>1
  <2>3. (\E i \in DOMAIN u : to[i] = p) <=> (\E i \in DOMAIN t : at[i] = p)
    BY <1>8, <2>2
  <2> QED BY <1>4, <2>1, <2>3
<1> HIDE DEF to
<1>13. AreReplies(u, a)
  BY <1>9, <1>10, <1>11, <1>12 DEF AreReplies
<1> QED BY <1>13 DEF u

\* The replies in s are the first ones of p.
First(p, s) == \E n \in 0..Len(p) : AreReplies(SubSeq(p, 1, n), s)

\* The beginning of a sequence.
LEMMA Beginning ==
  ASSUME NEW S, NEW p \in Seq(S), NEW n \in 0..Len(p)
  PROVE  /\ SubSeq(p, 1, n) \in Seq(S) /\ Len(SubSeq(p, 1, n)) = n
         /\ \A i \in 1..n : SubSeq(p, 1, n)[i] = p[i]
<1>1. Len(p) \in Nat /\ \A i \in 1..n : p[i] \in S
  BY LenProperties, ElementOfSeq
<1> QED BY <1>1, SubSeqProperties

LEMMA FirstOfAll ==
  ASSUME NEW S, NEW p \in Seq(S), NEW s, AreReplies(p, s)
  PROVE  First(p, s)
<1>1. SubSeq(p, 1, Len(p)) = p /\ Len(p) \in 0..Len(p)
  BY SubSeqFull, LenProperties
<1> QED BY <1>1 DEF First

LEMMA FirstPrefix ==
  ASSUME NEW S, NEW p \in Seq(S), NEW a \in Seq(S), NEW b \in Seq(S), First(p, a \o b)
  PROVE  First(p, a)
<1>1. PICK n \in 0..Len(p) : AreReplies(SubSeq(p, 1, n), a \o b)
  BY DEF First
<1> DEFINE t == SubSeq(p, 1, n)
<1>2. t \in Seq(S) /\ Len(t) = n /\ \A i \in 1..n : t[i] = p[i]
  BY Beginning
<1>3. PICK m \in 0..n : AreReplies(SubSeq(t, 1, m), a)
  BY <1>1, <1>2, RepliesPrefix
<1>4. SubSeq(t, 1, m) = SubSeq(p, 1, m)
  <2>1. m \in 0..Len(p) /\ m \in 0..Len(t) /\ n \in Nat
    BY <1>2, LenProperties
  <2>2. /\ SubSeq(t, 1, m) \in Seq(S) /\ Len(SubSeq(t, 1, m)) = m
        /\ \A i \in 1..m : SubSeq(t, 1, m)[i] = t[i]
    BY <1>2, <2>1, Beginning
  <2>3. /\ SubSeq(p, 1, m) \in Seq(S) /\ Len(SubSeq(p, 1, m)) = m
        /\ \A i \in 1..m : SubSeq(p, 1, m)[i] = p[i]
    BY <2>1, Beginning
  <2>4. \A i \in 1..m : i \in 1..n
    BY <2>1
  <2> HIDE DEF t
  <2>5. \A i \in 1..m : SubSeq(t, 1, m)[i] = SubSeq(p, 1, m)[i]
    BY <1>2, <2>2, <2>3, <2>4
  <2> QED BY <2>2, <2>3, <2>5, SeqEqual
<1>5. m \in 0..Len(p)
  BY LenProperties
<1> QED BY <1>3, <1>4, <1>5 DEF First

LEMMA FirstInsert ==
  ASSUME NEW S, NEW p \in Seq(S), NEW s \in Seq(S), NEW r \in Seq(S),
         NEW n \in 0..Len(s), NEW e, IsInserted(r, s, n, e), ~IsReply(e), First(p, s)
  PROVE  First(p, r)
<1>1. PICK k \in 0..Len(p) : AreReplies(SubSeq(p, 1, k), s)
  BY DEF First
<1>2. AreReplies(SubSeq(p, 1, k), r)
  BY <1>1, Beginning, RepliesInsert
<1> QED BY <1>2 DEF First

LEMMA FirstRemove ==
  ASSUME NEW S, NEW p \in Seq(S), NEW s \in Seq(S), NEW r \in Seq(S),
         NEW n \in 0..Len(s), NEW e, IsInserted(r, s, n, e), ~IsReply(e), First(p, r)
  PROVE  First(p, s)
<1>1. PICK k \in 0..Len(p) : AreReplies(SubSeq(p, 1, k), r)
  BY DEF First
<1>2. AreReplies(SubSeq(p, 1, k), s)
  BY <1>1, Beginning, RepliesRemove
<1> QED BY <1>2 DEF First

LEMMA FirstLonger ==
  ASSUME NEW S, NEW p \in Seq(S), NEW s, NEW e \in S, First(p, s)
  PROVE  First(Append(p, e), s)
<1> DEFINE q == Append(p, e)
<1>1. PICK n \in 0..Len(p) : AreReplies(SubSeq(p, 1, n), s)
  BY DEF First
<1>2. /\ q \in Seq(S) /\ Len(q) = Len(p) + 1 /\ \A i \in 1..Len(p) : q[i] = p[i]
      /\ Len(p) \in Nat
  BY AppendProperties, LenProperties
<1> HIDE DEF q
<1>3. n \in 0..Len(q) /\ \A i \in 1..n : i \in 1..Len(p)
  BY <1>2
<1>4. /\ SubSeq(p, 1, n) \in Seq(S) /\ Len(SubSeq(p, 1, n)) = n
      /\ \A i \in 1..n : SubSeq(p, 1, n)[i] = p[i]
      /\ SubSeq(q, 1, n) \in Seq(S) /\ Len(SubSeq(q, 1, n)) = n
      /\ \A i \in 1..n : SubSeq(q, 1, n)[i] = q[i]
  BY <1>2, <1>3, Beginning
<1>5. \A i \in 1..n : SubSeq(p, 1, n)[i] = SubSeq(q, 1, n)[i]
  BY <1>2, <1>3, <1>4
<1>6. SubSeq(p, 1, n) = SubSeq(q, 1, n)
  BY <1>4, <1>5, SeqEqual
<1>7. First(q, s)
  BY <1>1, <1>3, <1>6 DEF First
<1> QED BY <1>7 DEF q

\* The head of a sequence moves to the end of the one before it.
LEMMA HeadMoves ==
  ASSUME NEW S, NEW a \in Seq(S), NEW b \in Seq(S), b # <<>>
  PROVE  /\ Head(b) \in S /\ Tail(b) \in Seq(S) /\ Append(a, Head(b)) \in Seq(S)
         /\ Append(a, Head(b)) \o Tail(b) = a \o b
<1> DEFINE x == Append(a, Head(b))
           y == Tail(b)
<1>1. /\ Head(b) \in S /\ y \in Seq(S) /\ Len(y) = Len(b) - 1 /\ Head(b) = b[1]
      /\ \A i \in 1..Len(y) : y[i] = b[i + 1]
  BY HeadTailProperties
<1>2. /\ x \in Seq(S) /\ Len(x) = Len(a) + 1 /\ x[Len(a) + 1] = b[1]
      /\ \A i \in 1..Len(a) : x[i] = a[i]
  BY <1>1, AppendProperties
<1>3. Len(a) \in Nat /\ Len(b) \in Nat /\ Len(b) > 0
  BY EmptySeq, LenProperties
<1> HIDE DEF x, y
<1>4. /\ x \o y \in Seq(S) /\ Len(x \o y) = Len(a) + Len(b)
      /\ \A i \in 1..(Len(a) + Len(b)) :
           (x \o y)[i] = IF i <= Len(a) + 1 THEN x[i] ELSE y[i - (Len(a) + 1)]
  <2>1. /\ x \o y \in Seq(S) /\ Len(x \o y) = Len(x) + Len(y)
        /\ \A i \in 1..(Len(x) + Len(y)) :
             (x \o y)[i] = IF i <= Len(x) THEN x[i] ELSE y[i - Len(x)]
    BY <1>1, <1>2, ConcatProperties
  <2>2. Len(x) + Len(y) = Len(a) + Len(b)
    BY <1>1, <1>2, <1>3
  <2> QED BY <1>2, <2>1, <2>2
<1>5. /\ a \o b \in Seq(S) /\ Len(a \o b) = Len(a) + Len(b)
      /\ \A i \in 1..(Len(a) + Len(b)) :
           (a \o b)[i] = IF i <= Len(a) THEN a[i] ELSE b[i - Len(a)]
  BY ConcatProperties
<1>6. ASSUME NEW i \in 1..(Len(a) + Len(b)) PROVE (x \o y)[i] = (a \o b)[i]
  <2>1. CASE i <= Len(a)
    BY <1>2, <1>3, <1>4, <1>5, <2>1
  <2>2. CASE i = Len(a) + 1
    BY <1>2, <1>3, <1>4, <1>5, <2>2
  <2>3. CASE i > Len(a) + 1
    <3>1. i - (Len(a) + 1) \in 1..Len(y) /\ (i - (Len(a) + 1)) + 1 = i - Len(a)
      BY <1>1, <1>3, <2>3
    <3>2. y[i - (Len(a) + 1)] = b[(i - (Len(a) + 1)) + 1]
      BY <1>1, <3>1
    <3> QED BY <1>3, <1>4, <1>5, <2>3, <3>1, <3>2
  <2>4. i <= Len(a) \/ i = Len(a) + 1 \/ i > Len(a) + 1
    BY <1>3
  <2> QED BY <2>1, <2>2, <2>3, <2>4
<1>7. x \o y = a \o b
  BY <1>4, <1>5, <1>6, SeqEqual
<1> QED BY <1>1, <1>2, <1>7 DEF x, y

\* An entry between two sequences.
LEMMA InsertedBetween ==
  ASSUME NEW S, NEW a \in Seq(S), NEW b \in Seq(S), NEW e \in S
  PROVE  /\ a \o b \in Seq(S) /\ Append(a, e) \o b \in Seq(S)
         /\ Len(a) \in 0..Len(a \o b)
         /\ IsInserted(Append(a, e) \o b, a \o b, Len(a), e)
<1> DEFINE x == Append(a, e)
<1>1. /\ x \in Seq(S) /\ Len(x) = Len(a) + 1 /\ x[Len(a) + 1] = e
      /\ \A i \in 1..Len(a) : x[i] = a[i]
  BY AppendProperties
<1> HIDE DEF x
<1>2. Len(a) \in Nat /\ Len(b) \in Nat
  BY LenProperties
<1>3. /\ x \o b \in Seq(S) /\ Len(x \o b) = Len(a) + 1 + Len(b)
      /\ \A i \in 1..(Len(a) + 1 + Len(b)) :
           (x \o b)[i] = IF i <= Len(a) + 1 THEN x[i] ELSE b[i - (Len(a) + 1)]
  <2>1. /\ x \o b \in Seq(S) /\ Len(x \o b) = Len(x) + Len(b)
        /\ \A i \in 1..(Len(x) + Len(b)) :
             (x \o b)[i] = IF i <= Len(x) THEN x[i] ELSE b[i - Len(x)]
    BY <1>1, ConcatProperties
  <2> QED BY <1>1, <2>1
<1>4. /\ a \o b \in Seq(S) /\ Len(a \o b) = Len(a) + Len(b)
      /\ \A i \in 1..(Len(a) + Len(b)) :
           (a \o b)[i] = IF i <= Len(a) THEN a[i] ELSE b[i - Len(a)]
  BY ConcatProperties
<1>5. \A i \in 1..Len(a) : (x \o b)[i] = (a \o b)[i]
  BY <1>1, <1>2, <1>3, <1>4
<1>6. (x \o b)[Len(a) + 1] = e
  BY <1>1, <1>2, <1>3
<1>7. ASSUME NEW i \in (Len(a) + 1)..Len(a \o b) PROVE (x \o b)[i + 1] = (a \o b)[i]
  <2>1. /\ i + 1 \in 1..(Len(a) + 1 + Len(b)) /\ ~(i + 1 <= Len(a) + 1)
        /\ (i + 1) - (Len(a) + 1) = i - Len(a) /\ i \in 1..(Len(a) + Len(b)) /\ ~(i <= Len(a))
    BY <1>2, <1>4
  <2> QED BY <1>3, <1>4, <2>1
<1>8. IsInserted(x \o b, a \o b, Len(a), e)
  BY <1>2, <1>3, <1>4, <1>5, <1>6, <1>7 DEF IsInserted
<1> QED BY <1>2, <1>3, <1>4, <1>8 DEF x

-----------------------------------------------------------------------------
(* A session: its types, and where its replies are.                        *)

Here == client \in {"connected", "stalled"}

\* What the client has or is being sent, what it may get besides, and what
\* the reader can still get.
Sent == delivered \o sending
Queued == Sent \o messages \o held
Coming == IF reader = "ended" THEN <<>> ELSE stdout

\* Before there is a session nothing has happened; a server that was waited
\* for has ended.
SessionShape ==
  /\ client = "absent" => sse \in {"none", "failed"}
  /\ sse \in {"none", "failed"} =>
       /\ client = "absent" /\ process = "none" /\ reader = "none" /\ ~done
       /\ held = <<>> /\ messages = <<>> /\ sending = <<>> /\ stdin = <<>>
       /\ stdout = <<>> /\ produced = <<>> /\ delivered = <<>>
       /\ \A c \in Calls : call[c].pc \notin {"found", "cleared"}
  /\ done => process = "exited"

\* The replies the client has, those that are under way and those that will
\* never be: of a living server's none is missing, of a dead one's only the
\* last, and a client that has left keeps what it has.
RepliesFlow ==
  /\ Here /\ ~done =>
       AreReplies(produced, Queued \o stdout)
  /\ Here /\ done => First(produced, Queued \o Coming)
  /\ ~Here => First(produced, delivered)

SessionInv == SessionTypeOK /\ SessionShape /\ RepliesFlow

LEMMA MessageSeqs ==
  ASSUME SessionTypeOK
  PROVE  /\ held \in Seq(Messages) /\ held \in Seq(Messages \union Lines)
         /\ messages \in Seq(Messages \union Lines)
         /\ stdout \in Seq(Messages \union Lines)
         /\ produced \in Seq(Messages \union Lines)
         /\ delivered \in Seq(Messages \union Lines)
         /\ sending \in Seq(Messages \union Lines)
         /\ Sent \in Seq(Messages \union Lines)
<1>1. Replies \subseteq Messages /\ Replies \subseteq Messages \union Lines
  BY DEF Messages
<1>2. Messages \subseteq Messages \union Lines /\ Lines \subseteq Messages \union Lines
  OBVIOUS
<1>3. /\ held \in Seq(Replies) /\ messages \in Seq(Messages) /\ stdout \in Seq(Lines)
      /\ produced \in Seq(Replies) /\ delivered \in Seq(Messages)
      /\ sending \in Seq(Messages)
  BY DEF SessionTypeOK
<1>4. /\ held \in Seq(Messages) /\ held \in Seq(Messages \union Lines)
      /\ produced \in Seq(Messages \union Lines)
  BY <1>1, <1>3, SeqMonotonic
<1>5. messages \in Seq(Messages \union Lines) /\ delivered \in Seq(Messages \union Lines)
  BY <1>2, <1>3, SeqMonotonic
<1>6. stdout \in Seq(Messages \union Lines)
  BY <1>2, <1>3, SeqMonotonic
<1>7. sending \in Seq(Messages \union Lines)
  BY <1>2, <1>3, SeqMonotonic
<1>8. Sent \in Seq(Messages \union Lines)
  BY <1>5, <1>7, ConcatProperties DEF Sent
<1> QED BY <1>4, <1>5, <1>6, <1>7, <1>8

\* Nothing is being sent outside of the write.
LEMMA SentAlone ==
  ASSUME SessionTypeOK, sse # "writing"
  PROVE  sending = <<>> /\ Sent = delivered
<1>1. sending \in Seq(Messages) /\ Len(sending) = 0
  BY DEF SessionTypeOK
<1>2. sending = <<>>
  BY <1>1, EmptySeq
<1>3. delivered \in Seq(Messages \union Lines)
  BY MessageSeqs
<1> QED BY <1>2, <1>3, ConcatEmptySeq DEF Sent

LEMMA HeldAlone ==
  ASSUME SessionTypeOK
  PROVE  reader # "holding" => held = <<>>
<1>1. held \in Seq(Replies) /\ Len(held) = IF reader = "holding" THEN 1 ELSE 0
  BY DEF SessionTypeOK
<1> QED BY <1>1, EmptySeq

LEMMA ReadingTypes ==
  ASSUME SessionTypeOK, Reading
  PROVE  SessionTypeOK'
<1>1. CASE Scan
  <2>1. stdout \in Seq(Lines) /\ Tail(stdout) \in Seq(Lines)
    BY <1>1, HeadTailProperties DEF Scan, SessionTypeOK
  <2>2. <<Head(stdout)>> \in Seq(Replies) /\ Len(<<Head(stdout)>>) = 1
    BY <1>1 DEF Scan
  <2> QED BY <1>1, <2>1, <2>2 DEF Scan, SessionTypeOK
<1>2. CASE SkipLine
  <2>1. stdout \in Seq(Lines) /\ Tail(stdout) \in Seq(Lines)
    BY <1>2, HeadTailProperties DEF SkipLine, SessionTypeOK
  <2> QED BY <1>2, <2>1 DEF SkipLine, SessionTypeOK
<1>3. CASE Put
  <2>1. messages \in Seq(Messages) /\ held \in Seq(Messages) /\ Len(held) = 1
    BY <1>3, MessageSeqs DEF Put, SessionTypeOK
  <2>2. messages \o held \in Seq(Messages) /\ Len(messages \o held) = Len(messages) + 1
    <3>1. /\ messages \o held \in Seq(Messages)
          /\ Len(messages \o held) = Len(messages) + Len(held)
      BY <2>1, ConcatProperties
    <3> QED BY <2>1, <3>1
  <2>3. Len(messages) \in Nat /\ Len(messages) < Room /\ Room \in Nat
    BY <1>3, <2>1, LenProperties, SessionAssumption DEF Put
  <2>4. <<>> \in Seq(Replies) /\ Len(<<>>) = 0
    BY EmptySeq
  <2> QED BY <1>3, <2>2, <2>3, <2>4 DEF Put, SessionTypeOK
<1>4. CASE GiveUp
  <2>1. <<>> \in Seq(Replies) /\ Len(<<>>) = 0
    BY EmptySeq
  <2> QED BY <1>4, <2>1 DEF GiveUp, SessionTypeOK
<1>5. CASE ReaderEnds
  BY <1>5 DEF ReaderEnds, SessionTypeOK
<1> QED BY <1>1, <1>2, <1>3, <1>4, <1>5 DEF Reading

LEMMA ServingTypes ==
  ASSUME SessionTypeOK, Serving \/ Client \/ Killed \/ WaitReturns
  PROVE  SessionTypeOK'
<1>1. CASE ServerStep
  <2>1. /\ Head(stdin) \in Calls /\ Tail(stdin) \in Seq(Calls)
        /\ Len(Tail(stdin)) = Len(stdin) - 1 /\ Len(stdin) \in Nat /\ Len(stdin) <= PipeRoom
    BY <1>1, HeadTailProperties, LenProperties DEF ServerStep, SessionTypeOK
  <2>2. Len(Tail(stdin)) <= PipeRoom
    BY <2>1, SessionAssumption
  <2>3. Reply(Head(stdin)) \in Replies /\ Reply(Head(stdin)) \in Lines
    BY <2>1 DEF Replies, Lines
  <2>4. /\ Append(produced, Reply(Head(stdin))) \in Seq(Replies)
        /\ \A l \in Lines : Append(stdout, l) \in Seq(Lines)
    BY <2>3, AppendProperties DEF SessionTypeOK
  <2>5. stdout' \in Seq(Lines) /\ produced' \in Seq(Replies)
    BY <1>1, <2>3, <2>4 DEF ServerStep, SessionTypeOK
  <2> QED BY <1>1, <2>1, <2>2, <2>5 DEF ServerStep, SessionTypeOK
<1>2. CASE Exit
  <2>1. <<>> \in Seq(Calls) /\ Len(<<>>) <= PipeRoom
    BY EmptySeq, SessionAssumption
  <2> QED BY <1>2, <2>1 DEF Exit, SessionTypeOK
<1>3. CASE Client
  BY <1>3 DEF Client, ClientStalls, ClientResumes, ClientLeaves, SessionTypeOK
<1>4. CASE WaitReturns
  <2>1. PICK n \in 0..Len(stdout) : stdout' = SubSeq(stdout, 1, n)
    BY <1>4 DEF WaitReturns
  <2>2. stdout' \in Seq(Lines)
    BY <2>1, Beginning DEF SessionTypeOK
  <2> QED BY <1>4, <2>2 DEF WaitReturns, SessionTypeOK
<1> QED BY <1>1, <1>2, <1>3, <1>4 DEF Serving, Killed

LEMMA StreamingTypes ==
  ASSUME SessionTypeOK, SessionShape, Connect \/ Streaming \/ Flush \/ Ending
  PROVE  SessionTypeOK'
<1>1. CASE Spawn
  BY <1>1 DEF Spawn, SessionTypeOK, SessionShape
<1>2. CASE SpawnFails
  BY <1>2 DEF SpawnFails, SessionTypeOK
<1>3. CASE Take
  <2>1. /\ Head(messages) \in Messages /\ Tail(messages) \in Seq(Messages)
        /\ Len(Tail(messages)) = Len(messages) - 1 /\ Len(messages) \in Nat
        /\ Len(messages) <= Room
    BY <1>3, HeadTailProperties, LenProperties DEF Take, SessionTypeOK
  <2>2. <<Head(messages)>> \in Seq(Messages) /\ Len(<<Head(messages)>>) = 1
    BY <2>1
  <2>3. Len(Tail(messages)) <= Room
    BY <2>1, SessionAssumption
  <2> QED BY <1>3, <2>1, <2>2, <2>3 DEF Take, SessionTypeOK
<1>4. CASE Flush
  <2>1. delivered' \in Seq(Messages)
    BY <1>4, ConcatProperties DEF Flush, SessionTypeOK
  <2>2. <<>> \in Seq(Messages) /\ Len(<<>>) = 0
    BY EmptySeq
  <2> QED BY <1>4, <2>1, <2>2 DEF Flush, SessionTypeOK
<1>5. CASE StreamEnds \/ DeleteSession \/ CloseSession
  BY <1>5 DEF StreamEnds, DeleteSession, CloseSession, SessionTypeOK
<1> QED BY <1>1, <1>2, <1>3, <1>4, <1>5 DEF Connect, Streaming, Ending

LEMMA HandlingTypes ==
  ASSUME SessionTypeOK, NEW c \in Calls, Handling(c)
  PROVE  SessionTypeOK'
<1>1. CASE Deny(c)
  <2>1. CASE UNCHANGED messages
    BY <1>1, <2>1 DEF Deny, SessionTypeOK
  <2>2. CASE Len(messages) < Room /\ messages' = Append(messages, Denial(c))
    <3>1. Denial(c) \in Messages
      BY DEF Messages
    <3>2. /\ Append(messages, Denial(c)) \in Seq(Messages) /\ Len(messages) \in Nat
          /\ Len(Append(messages, Denial(c))) = Len(messages) + 1
      BY <3>1, AppendProperties, LenProperties DEF SessionTypeOK
    <3>3. Len(messages) + 1 <= Room
      BY <2>2, <3>2, SessionAssumption
    <3> QED BY <1>1, <2>2, <3>2, <3>3 DEF Deny, SessionTypeOK
  <2> QED BY <1>1, <2>1, <2>2 DEF Deny
<1>2. CASE Forward(c)
  <2>1. /\ Append(stdin, c) \in Seq(Calls) /\ Len(stdin) \in Nat
        /\ Len(Append(stdin, c)) = Len(stdin) + 1 /\ Len(stdin) < PipeRoom
    BY <1>2, AppendProperties, LenProperties DEF Forward, SessionTypeOK
  <2>2. Len(stdin) + 1 <= PipeRoom
    BY <2>1, SessionAssumption
  <2> QED BY <1>2, <2>1, <2>2 DEF Forward, SessionTypeOK
<1>3. CASE UNCHANGED sessionVars
  BY <1>3 DEF sessionVars, SessionTypeOK
<1> QED BY <1>1, <1>2, <1>3 DEF Handling, LookUp, BadRequest, Clear, DenyPanics, ForwardFails

LEMMA SessionTypesStep ==
  ASSUME SessionTypeOK, SessionShape, [Next]_vars
  PROVE  SessionTypeOK'
<1>1. ASSUME UNCHANGED sessionVars PROVE SessionTypeOK'
  BY <1>1 DEF sessionVars, SessionTypeOK
<1>2. ASSUME NEW c \in Calls, NEW k \in Keys, Post(c, k) PROVE SessionTypeOK'
  BY <1>1, <1>2 DEF Post
<1>3. ASSUME Watch(Watching \/ WriteFile) \/ Clock PROVE SessionTypeOK'
  BY <1>1, <1>3 DEF Watch, Clock
<1>4. ASSUME UNCHANGED vars PROVE SessionTypeOK'
  BY <1>1, <1>4 DEF vars
<1>5. ASSUME Session PROVE SessionTypeOK'
  BY <1>5, ReadingTypes, ServingTypes, StreamingTypes DEF Session
<1> QED BY <1>2, <1>3, <1>4, <1>5, HandlingTypes DEF Next

\* A request is past the lookup only while there is a session.
LEMMA ShapeOfCalls ==
  ASSUME SessionShape, CallTypeOK, UNCHANGED sessionVars,
         NEW c \in Calls, NEW r, call' = [call EXCEPT ![c] = r],
         sse \in {"none", "failed"} => r.pc \notin {"found", "cleared"}
  PROVE  SessionShape'
<1>1. \A d \in Calls : call'[d] = IF d = c THEN r ELSE call[d]
  BY DEF CallTypeOK
<1>2. sse \in {"none", "failed"} => \A d \in Calls : call'[d].pc \notin {"found", "cleared"}
  BY <1>1 DEF SessionShape
<1> QED BY <1>2 DEF SessionShape, sessionVars

LEMMA CallGoes ==
  ASSUME CallTypeOK, NEW c \in Calls, NEW pc, Goto(c, pc)
  PROVE  /\ call' = [call EXCEPT ![c] = [call[c] EXCEPT !.pc = pc]]
         /\ [call[c] EXCEPT !.pc = pc].pc = pc
BY DEF Goto, CallTypeOK

LEMMA SessionShapeStep ==
  ASSUME SessionTypeOK, SessionShape, CallTypeOK, [Next]_vars
  PROVE  SessionShape'
<1>1. ASSUME UNCHANGED <<sessionVars, call>> PROVE SessionShape'
  BY <1>1 DEF sessionVars, SessionShape
<1>2. ASSUME NEW c \in Calls, NEW k \in Keys, Post(c, k) PROVE SessionShape'
  <2>1. PICK pc \in {"admitted", "429"} : Request(c, k, pc)
    BY <1>2 DEF Post
  <2> DEFINE r == [pc |-> pc, key |-> k, allowed |-> ~Denied(c)]
  <2>2. call' = [call EXCEPT ![c] = r] /\ r.pc \notin {"found", "cleared"}
    BY <2>1 DEF Request
  <2>3. UNCHANGED sessionVars
    BY <1>2 DEF Post
  <2> HIDE DEF r
  <2> QED BY <2>2, <2>3, ShapeOfCalls
<1>3. ASSUME NEW c \in Calls, LookUp(c) PROVE SessionShape'
  <2>1. PICK pc \in {"found", "404"} :
          Goto(c, pc) /\ (pc = "found" => Registered) /\ UNCHANGED sessionVars
    BY <1>3 DEF LookUp
  <2>2. sse \in {"none", "failed"} => pc \notin {"found", "cleared"}
    BY <2>1 DEF Registered
  <2> DEFINE r == [call[c] EXCEPT !.pc = pc]
  <2>3. call' = [call EXCEPT ![c] = r] /\ r.pc = pc
    BY <2>1, CallGoes
  <2> HIDE DEF r
  <2> QED BY <2>1, <2>2, <2>3, ShapeOfCalls
<1>4. ASSUME NEW c \in Calls, NEW pc, Goto(c, pc), UNCHANGED sessionVars,
             call[c].pc \in {"found", "cleared"}
      PROVE  SessionShape'
  BY <1>4, CallGoes, ShapeOfCalls DEF SessionShape
<1>5. ASSUME NEW c \in Calls, BadRequest(c) \/ Clear(c) \/ DenyPanics(c) \/ ForwardFails(c)
      PROVE  SessionShape'
  BY <1>4, <1>5 DEF BadRequest, Clear, DenyPanics, ForwardFails
<1>6. ASSUME NEW c \in Calls, Deny(c) \/ Forward(c) PROVE SessionShape'
  <2>1. sse \notin {"none", "failed"} /\ sse' = sse /\ client' = client
    BY <1>6 DEF Deny, Forward, SessionShape
  <2>2. done' = done /\ process' = process
    BY <1>6 DEF Deny, Forward
  <2> QED BY <2>1, <2>2 DEF SessionShape
<1>7. ASSUME Session PROVE SessionShape'
  <2>1. UNCHANGED call
    BY <1>7 DEF Session, Others
  <2>2. CASE Spawn
    BY <2>1, <2>2 DEF Spawn, SessionShape
  <2>3. CASE SpawnFails
    BY <2>1, <2>3 DEF SpawnFails, SessionShape
  <2>4. CASE Streaming \/ Flush \/ Ending
    BY <2>1, <2>4
    DEF Streaming, Flush, Ending, Take, StreamEnds, DeleteSession, CloseSession, SessionShape
  <2>5. CASE Reading
    BY <2>1, <2>5 DEF Reading, Scan, SkipLine, Put, GiveUp, ReaderEnds, SessionShape
  <2>6. CASE Serving \/ Killed \/ WaitReturns
    BY <2>1, <2>6 DEF Serving, Killed, ServerStep, Exit, WaitReturns, SessionShape
  <2>7. CASE Client
    BY <2>1, <2>7 DEF Client, ClientStalls, ClientResumes, ClientLeaves, SessionShape
  <2> QED BY <1>7, <2>2, <2>3, <2>4, <2>5, <2>6, <2>7 DEF Session, Connect
<1>8. ASSUME Watch(Watching \/ WriteFile) PROVE SessionShape'
  <2>1. UNCHANGED sessionVars /\ \A c \in Calls : call'[c].pc = call[c].pc
    BY <1>8 DEF Watch
  <2> QED BY <2>1 DEF sessionVars, SessionShape
<1>9. ASSUME Clock \/ UNCHANGED vars PROVE SessionShape'
  BY <1>1, <1>9 DEF Clock, vars
<1> QED BY <1>2, <1>3, <1>5, <1>6, <1>7, <1>8, <1>9 DEF Next, Handling

LEMMA NothingOfNothing == AreReplies(<<>>, <<>>)
<1>1. DOMAIN <<>> = {}
  BY EmptyIsSeq
<1>2. [i \in DOMAIN <<>> |-> i] \in [DOMAIN <<>> -> DOMAIN <<>>]
  BY <1>1
<1> QED BY <1>1, <1>2 DEF AreReplies

\* How what is under way is put together.
LEMMA QueuedParts ==
  ASSUME SessionTypeOK, NEW x \in Seq(Messages \union Lines)
  PROVE  /\ Sent \o messages \in Seq(Messages \union Lines)
         /\ Queued \in Seq(Messages \union Lines)
         /\ held \o x \in Seq(Messages \union Lines)
         /\ Queued \o x \in Seq(Messages \union Lines)
         /\ Queued \o x = (Sent \o messages) \o (held \o x)
         /\ Queued \o x = Sent \o (messages \o (held \o x))
<1>1. Sent \o messages \in Seq(Messages \union Lines)
  BY MessageSeqs, ConcatProperties
<1>2. Queued \in Seq(Messages \union Lines)
  BY <1>1, MessageSeqs, ConcatProperties DEF Queued
<1>3. /\ held \o x \in Seq(Messages \union Lines)
      /\ Queued \o x \in Seq(Messages \union Lines)
  BY <1>2, MessageSeqs, ConcatProperties
<1>4. Queued \o x = (Sent \o messages) \o (held \o x)
  <2> DEFINE a == Sent \o messages
  <2>1. a \in Seq(Messages \union Lines) /\ held \in Seq(Messages \union Lines)
    BY <1>1, MessageSeqs
  <2> HIDE DEF a
  <2>2. (a \o held) \o x = a \o (held \o x)
    BY <2>1, ConcatAssociative
  <2> QED BY <2>2 DEF a, Queued
<1>5. (Sent \o messages) \o (held \o x) = Sent \o (messages \o (held \o x))
  <2> DEFINE y == held \o x
             S == Messages \union Lines
  <2>1. y \in Seq(S)
    BY <1>3
  <2>2. Sent \in Seq(S)
    BY MessageSeqs
  <2>3. messages \in Seq(S)
    BY MessageSeqs
  <2> HIDE DEF y, S
  <2>4. (Sent \o messages) \o y = Sent \o (messages \o y)
    BY <2>1, <2>2, <2>3, ConcatAssociative
  <2> QED BY <2>4 DEF y
<1> QED BY <1>1, <1>2, <1>3, <1>4, <1>5

LEMMA ComingIsSeq ==
  ASSUME SessionTypeOK
  PROVE  Coming \in Seq(Messages \union Lines)
BY MessageSeqs, EmptySeq DEF Coming

\* A step that moves what is under way without a change.
LEMMA FlowSame ==
  ASSUME RepliesFlow, UNCHANGED <<client, done, produced>>,
         ~Here => delivered' = delivered,
         Here => /\ Queued' \o stdout' = Queued \o stdout
                 /\ Queued' \o Coming' = Queued \o Coming
  PROVE  RepliesFlow'
<1>1. Here' = Here
  BY DEF Here
<1> QED BY <1>1 DEF RepliesFlow

\* The write is begun ...
LEMMA FlowTake ==
  ASSUME SessionTypeOK, RepliesFlow, Take
  PROVE  RepliesFlow'
<1> DEFINE x == Append(delivered, Head(messages))
<1>1. /\ delivered \in Seq(Messages \union Lines) /\ messages \in Seq(Messages \union Lines)
      /\ messages # <<>> /\ Sent = delivered
  BY MessageSeqs, SentAlone DEF Take
<1>2. Head(messages) \in Messages \union Lines /\ x \o Tail(messages) = Sent \o messages
  BY <1>1, HeadMoves
<1>3. Sent' = x
  <2>1. x = delivered \o <<Head(messages)>>
    BY <1>1, <1>2, AppendIsConcat
  <2> QED BY <2>1 DEF Sent, Take
<1> HIDE DEF x
<1>4. Queued' = Queued
  BY <1>2, <1>3 DEF Queued, Take
<1>5. Coming' = Coming /\ stdout' = stdout
  BY DEF Coming, Take
<1> QED BY <1>4, <1>5, FlowSame DEF Take

\* ... and ends: what was being sent is with the client.
LEMMA FlowFlush ==
  ASSUME SessionTypeOK, SessionShape, RepliesFlow, Flush
  PROVE  RepliesFlow'
<1>1. Coming' = Coming /\ stdout' = stdout /\ UNCHANGED <<client, done, produced>>
  BY DEF Coming, Flush
<1>2. CASE ~Here
  <2>1. client = "left"
    BY <1>2 DEF Flush, SessionShape, SessionTypeOK, Here
  <2> QED BY <1>1, <1>2, <2>1, FlowSame DEF Flush
<1>3. CASE Here
  <2>1. Sent' = Sent \o <<>>
    BY <1>3 DEF Sent, Flush, Here
  <2>2. Sent' = Sent
    BY <2>1, MessageSeqs, ConcatEmptySeq
  <2>3. Queued' = Queued
    BY <2>2 DEF Queued, Flush
  <2> QED BY <1>1, <1>3, <2>3, FlowSame
<1> QED BY <1>2, <1>3

LEMMA FlowScan ==
  ASSUME SessionTypeOK, RepliesFlow, Scan
  PROVE  RepliesFlow'
<1> DEFINE a == Sent \o messages
<1>1. held = <<>> /\ stdout \in Seq(Messages \union Lines) /\ stdout # <<>>
  BY HeldAlone, MessageSeqs DEF Scan
<1>2. a \in Seq(Messages \union Lines) /\ Queued \in Seq(Messages \union Lines)
  BY <1>1, QueuedParts
<1>3. Queued = a
  BY <1>1, <1>2, ConcatEmptySeq DEF Queued
<1>4. Queued' = Append(a, Head(stdout))
  <2>1. Head(stdout) \in Messages \union Lines
    BY <1>1, HeadTailProperties
  <2>2. Append(a, Head(stdout)) = a \o <<Head(stdout)>>
    BY <1>2, <2>1, AppendIsConcat
  <2> QED BY <2>2 DEF Queued, Sent, Scan
<1>5. stdout' = Tail(stdout)
  BY DEF Scan
<1> HIDE DEF a
<1>6. Queued' \o stdout' = Queued \o stdout
  BY <1>1, <1>2, <1>3, <1>4, <1>5, HeadMoves
<1>7. Coming = stdout /\ Coming' = stdout'
  BY DEF Coming, Scan
<1> QED BY <1>6, <1>7, FlowSame DEF Scan

LEMMA FlowSkip ==
  ASSUME SessionTypeOK, RepliesFlow, SkipLine
  PROVE  RepliesFlow'
<1>1. stdout \in Seq(Messages \union Lines) /\ stdout # <<>> /\ ~IsReply(Head(stdout))
  BY MessageSeqs DEF SkipLine, IsReply
<1>2. Queued \in Seq(Messages \union Lines)
  BY <1>1, QueuedParts
<1> DEFINE x == Append(Queued, Head(stdout)) \o Tail(stdout)
           y == Queued \o Tail(stdout)
<1>3. Head(stdout) \in Messages \union Lines /\ Tail(stdout) \in Seq(Messages \union Lines)
  BY <1>1, HeadTailProperties
<1>4. x = Queued \o stdout
  BY <1>1, <1>2, HeadMoves
<1>5. /\ x \in Seq(Messages \union Lines) /\ y \in Seq(Messages \union Lines)
      /\ Len(Queued) \in 0..Len(y) /\ IsInserted(x, y, Len(Queued), Head(stdout))
  BY <1>2, <1>3, InsertedBetween
<1>6. y = Queued' \o stdout' /\ Coming = stdout /\ Coming' = stdout'
  BY DEF SkipLine, Queued, Sent, Coming
<1> HIDE DEF x, y
<1>7. produced \in Seq(Messages \union Lines)
  BY MessageSeqs
<1>8. AreReplies(produced, x) => AreReplies(produced, y)
  BY <1>1, <1>5, <1>7, RepliesRemove
<1>9. First(produced, x) => First(produced, y)
  BY <1>1, <1>5, <1>7, FirstRemove
<1> QED BY <1>4, <1>6, <1>8, <1>9 DEF RepliesFlow, SkipLine, Here

LEMMA FlowPut ==
  ASSUME SessionTypeOK, RepliesFlow, Put
  PROVE  RepliesFlow'
<1>1. /\ Sent \in Seq(Messages \union Lines) /\ messages \in Seq(Messages \union Lines)
      /\ held \in Seq(Messages \union Lines) /\ <<>> \in Seq(Messages \union Lines)
  BY MessageSeqs, EmptySeq
<1>2. Queued = Sent \o (messages \o held) /\ Queued \in Seq(Messages \union Lines)
  BY <1>1, ConcatAssociative, QueuedParts DEF Queued
<1>3. Queued' = Queued \o <<>>
  BY <1>2 DEF Put, Queued, Sent
<1>4. Queued' = Queued
  BY <1>2, <1>3, ConcatEmptySeq
<1>5. Coming' = Coming /\ stdout' = stdout
  BY DEF Put, Coming
<1> QED BY <1>4, <1>5, FlowSame DEF Put

\* What a sequence of replies begins with when its end is cut off.
LEMMA FlowCut ==
  ASSUME NEW S, NEW p \in Seq(S), NEW a \in Seq(S), NEW b \in Seq(S),
         AreReplies(p, a \o b)
  PROVE  First(p, a)
<1>1. a \o b \in Seq(S)
  BY ConcatProperties
<1>2. First(p, a \o b)
  BY <1>1, FirstOfAll
<1> QED BY <1>2, FirstPrefix

\* While the client is there, what it has is in order.
LEMMA DeliveredInOrder ==
  ASSUME SessionTypeOK, RepliesFlow
  PROVE  First(produced, delivered)
<1> DEFINE S == Messages \union Lines
           b(x) == messages \o (held \o x)
<1>1. /\ Sent \in Seq(S) /\ produced \in Seq(S) /\ messages \in Seq(S)
      /\ held \in Seq(S) /\ stdout \in Seq(S) /\ Coming \in Seq(S)
      /\ delivered \in Seq(S) /\ sending \in Seq(S)
  BY MessageSeqs, ComingIsSeq
<1>2. ASSUME NEW x \in Seq(S) PROVE b(x) \in Seq(S) /\ Queued \o x = Sent \o b(x)
  <2>1. held \o x \in Seq(S)
    BY QueuedParts
  <2>2. messages \o (held \o x) \in Seq(S)
    BY <1>1, <2>1, ConcatProperties
  <2> QED BY <2>2, QueuedParts
<1> HIDE DEF b, S
<1>3. First(produced, Sent) => First(produced, delivered)
  BY <1>1, FirstPrefix DEF Sent
<1>4. CASE Here /\ ~done
  <2>1. AreReplies(produced, Sent \o b(stdout))
    BY <1>1, <1>2, <1>4 DEF RepliesFlow
  <2> QED BY <1>1, <1>2, <1>3, <2>1, FlowCut
<1>5. CASE Here /\ done
  <2>1. First(produced, Sent \o b(Coming))
    BY <1>1, <1>2, <1>5 DEF RepliesFlow
  <2> QED BY <1>1, <1>2, <1>3, <2>1, FirstPrefix
<1>6. CASE ~Here
  BY <1>6 DEF RepliesFlow
<1> QED BY <1>4, <1>5, <1>6

LEMMA FlowGiveUp ==
  ASSUME SessionTypeOK, RepliesFlow, GiveUp
  PROVE  RepliesFlow'
<1> DEFINE S == Messages \union Lines
           a == Sent \o messages
<1>1. a \in Seq(S) /\ stdout \in Seq(S) /\ held \o stdout \in Seq(S) /\ produced \in Seq(S)
  BY MessageSeqs, QueuedParts
<1>2. Coming = stdout /\ Queued \o stdout = a \o (held \o stdout)
  BY MessageSeqs, QueuedParts DEF Coming, GiveUp
<1>3. Queued' \o Coming' = (a \o <<>>) \o <<>>
  BY DEF Queued, Sent, Coming, GiveUp
<1> HIDE DEF S, a
<1>4. Queued' \o Coming' = a
  BY <1>1, <1>3, ConcatEmptySeq
<1>5. Here => First(produced, a)
  <2>1. Here => First(produced, a \o (held \o stdout))
    BY <1>2 DEF RepliesFlow, GiveUp
  <2> QED BY <1>1, <2>1, FirstPrefix
<1> QED BY <1>4, <1>5 DEF RepliesFlow, GiveUp, Here

LEMMA FlowReaderEnds ==
  ASSUME SessionTypeOK, RepliesFlow, ReaderEnds
  PROVE  RepliesFlow'
<1> DEFINE S == Messages \union Lines
<1>1. Queued \in Seq(S) /\ stdout \in Seq(S) /\ produced \in Seq(S)
  BY MessageSeqs, QueuedParts
<1>2. Coming = stdout /\ Coming' = <<>> /\ Queued' = Queued
  BY DEF Coming, Queued, Sent, ReaderEnds
<1> HIDE DEF S
<1>3. Queued' \o Coming' = Queued
  BY <1>1, <1>2, ConcatEmptySeq
<1>4. Here /\ done => First(produced, Queued)
  <2>1. Here /\ done => First(produced, Queued \o stdout)
    BY <1>2 DEF RepliesFlow
  <2> QED BY <1>1, <2>1, FirstPrefix
<1> QED BY <1>2, <1>3, <1>4 DEF RepliesFlow, ReaderEnds, Here

LEMMA FlowWaitReturns ==
  ASSUME SessionTypeOK, RepliesFlow, WaitReturns
  PROVE  RepliesFlow'
<1> DEFINE S == Messages \union Lines
<1>1. Queued \in Seq(S) /\ stdout \in Seq(S) /\ produced \in Seq(S)
  BY MessageSeqs, QueuedParts
<1>2. PICK n \in 0..Len(stdout) : stdout' = SubSeq(stdout, 1, n)
  BY DEF WaitReturns
<1>3. stdout' \in Seq(S)
  BY <1>1, <1>2, Beginning
<1>4. \E rest \in Seq(S) : stdout' \o rest = stdout
  <2>1. Len(stdout) \in Nat /\ \A i \in 1..Len(stdout) : stdout[i] \in S
    BY <1>1, LenProperties, ElementOfSeq
  <2> DEFINE rest == SubSeq(stdout, n + 1, Len(stdout))
  <2>2. rest \in Seq(S)
    <3>1. \A i \in (n + 1)..Len(stdout) : stdout[i] \in S
      BY <2>1
    <3> QED BY <2>1, <3>1, SubSeqProperties
  <2>3. SubSeq(stdout, 1, n) \o rest = SubSeq(stdout, 1, Len(stdout))
    <3>1. /\ 1 \in 1..(Len(stdout) + 1) /\ n \in (1 - 1)..Len(stdout)
          /\ Len(stdout) \in n..Len(stdout)
      BY <2>1
    <3> QED BY <1>1, <3>1, ConcatAdjacentSubSeq
  <2>4. SubSeq(stdout, 1, Len(stdout)) = stdout
    BY <1>1, SubSeqFull
  <2> HIDE DEF rest
  <2> QED BY <1>2, <2>2, <2>3, <2>4
<1>5. PICK rest \in Seq(S) : stdout' \o rest = stdout
  BY <1>4
<1> HIDE DEF S
<1> DEFINE q == Queued \o stdout'
<1>6. q \in Seq(S) /\ Queued \o stdout = q \o rest
  <2>1. q \in Seq(S)
    BY <1>1, <1>3, ConcatProperties
  <2>2. (Queued \o stdout') \o rest = Queued \o (stdout' \o rest)
    <3>1. Queued \in Seq(S)
      BY <1>1
    <3> QED BY <1>3, <3>1, ConcatAssociative
  <2> QED BY <1>5, <2>1, <2>2
<1> HIDE DEF q
<1>7. Here => First(produced, q)
  <2>1. Here => AreReplies(produced, q \o rest)
    BY <1>6 DEF RepliesFlow, WaitReturns
  <2> QED BY <1>1, <1>6, <2>1, FlowCut
<1>8. Here => First(produced, Queued \o <<>>)
  <2>1. Here => First(produced, Queued)
    BY <1>1, <1>3, <1>7, FirstPrefix DEF q
  <2> QED BY <1>1, <2>1, ConcatEmptySeq
<1>9. Queued' = Queued /\ Coming' = IF reader = "ended" THEN <<>> ELSE stdout'
  BY DEF Queued, Sent, Coming, WaitReturns
<1> QED BY <1>7, <1>8, <1>9 DEF RepliesFlow, WaitReturns, Here, q

LEMMA FlowSpawn ==
  ASSUME SessionShape, Spawn
  PROVE  RepliesFlow'
<1>1. /\ delivered' = <<>> /\ messages' = <<>> /\ held' = <<>> /\ stdout' = <<>>
      /\ produced' = <<>> /\ sending' = <<>> /\ client' = "connected" /\ ~done'
  BY DEF Spawn, SessionShape
<1>2. <<>> \o <<>> = <<>>
  BY EmptySeq, ConcatEmptySeq
<1>3. Queued' \o stdout' = <<>>
  BY <1>1, <1>2 DEF Queued, Sent
<1> QED BY <1>1, <1>3, NothingOfNothing DEF RepliesFlow, Here

LEMMA FlowClientLeaves ==
  ASSUME SessionTypeOK, RepliesFlow, ClientLeaves
  PROVE  RepliesFlow'
BY DeliveredInOrder DEF ClientLeaves, RepliesFlow, Here

\* It stalls or reads again.
LEMMA FlowClientStalls ==
  ASSUME RepliesFlow, ClientStalls \/ ClientResumes
  PROVE  RepliesFlow'
<1>1. /\ Here' = Here /\ Queued' = Queued /\ Coming' = Coming
      /\ UNCHANGED <<done, stdout, produced, delivered>>
  BY DEF ClientStalls, ClientResumes, Here, Queued, Sent, Coming
<1> QED BY <1>1 DEF RepliesFlow

\* The server adds a line, and its reply to what it has written.
LEMMA FlowServerStep ==
  ASSUME SessionTypeOK, SessionShape, RepliesFlow, ServerStep
  PROVE  RepliesFlow'
<1> DEFINE S == Messages \union Lines
           s == Queued \o stdout
           e == Reply(Head(stdin))
<1>1. Queued \in Seq(S) /\ stdout \in Seq(S) /\ produced \in Seq(S) /\ s \in Seq(S)
  BY MessageSeqs, QueuedParts
<1>2. ~done /\ ~done' /\ Here' = Here /\ delivered' = delivered /\ Queued' = Queued
  BY DEF ServerStep, SessionShape, Here, Queued, Sent
<1>3. e \in S /\ IsReply(e)
  BY HeadTailProperties DEF ServerStep, SessionTypeOK, Messages, Replies, Reply, IsReply
<1>4. ASSUME NEW l \in S PROVE Queued \o Append(stdout, l) = Append(s, l)
  <2>1. /\ Append(stdout, l) = stdout \o <<l>> /\ Append(s, l) = s \o <<l>>
    BY <1>1, AppendIsConcat
  <2>2. <<l>> \in Seq(S)
    OBVIOUS
  <2> DEFINE u == <<l>>
  <2> HIDE DEF u, S
  <2>3. (Queued \o stdout) \o u = Queued \o (stdout \o u)
    BY <1>1, <2>2, ConcatAssociative DEF u
  <2> QED BY <2>1, <2>3 DEF u
<1>5. CASE UNCHANGED <<stdout, produced>>
  BY <1>2, <1>5 DEF RepliesFlow
<1>6. CASE stdout' = Append(stdout, e) /\ produced' = Append(produced, e)
  <2>1. Here => AreReplies(produced', Queued' \o stdout')
    <3> HIDE DEF e, s, S
    <3>1. Here => AreReplies(produced, s)
      BY <1>2 DEF RepliesFlow, s
    <3>2. Here => AreReplies(Append(produced, e), Append(s, e))
      BY <1>1, <1>3, <3>1, RepliesAppend
    <3> QED BY <1>2, <1>3, <1>4, <1>6, <3>2
  <2>2. ~Here => First(produced', delivered')
    <3> HIDE DEF e, s, S
    <3>1. ~Here => First(produced, delivered)
      BY DEF RepliesFlow
    <3> QED BY <1>1, <1>2, <1>3, <1>6, <3>1, FirstLonger
  <2> QED BY <1>2, <2>1, <2>2 DEF RepliesFlow
<1>7. ASSUME NEW l \in Lines \ Replies, stdout' = Append(stdout, l), UNCHANGED produced
      PROVE  RepliesFlow'
  <2>1. l \in S /\ ~IsReply(l)
    BY DEF Lines, IsReply
  <2>2. Here => AreReplies(produced', Queued' \o stdout')
    <3> HIDE DEF s, S
    <3>1. Here => AreReplies(produced, s)
      BY <1>2 DEF RepliesFlow, s
    <3>2. <<>> \in Seq(S) /\ Append(s, l) \in Seq(S)
      BY <1>1, <2>1, EmptySeq, AppendProperties
    <3>3. s \o <<>> = s /\ Append(s, l) \o <<>> = Append(s, l)
      BY <1>1, <3>2, ConcatEmptySeq
    <3>4. Len(s) \in 0..Len(s) /\ IsInserted(Append(s, l), s, Len(s), l)
      <4>1. /\ Len(s) \in 0..Len(s \o <<>>)
            /\ IsInserted(Append(s, l) \o <<>>, s \o <<>>, Len(s), l)
        BY <1>1, <2>1, <3>2, InsertedBetween
      <4> QED BY <3>3, <4>1
    <3>5. Here => AreReplies(produced, Append(s, l))
      BY <1>1, <2>1, <3>1, <3>2, <3>4, RepliesInsert
    <3> QED BY <1>2, <1>4, <1>7, <2>1, <3>5
  <2> QED BY <1>2, <1>7, <2>2 DEF RepliesFlow
<1> QED BY <1>5, <1>6, <1>7 DEF ServerStep

LEMMA FlowDeny ==
  ASSUME SessionTypeOK, RepliesFlow, NEW c \in Calls, Deny(c)
  PROVE  RepliesFlow'
<1> DEFINE S == Messages \union Lines
           e == Denial(c)
           a == Sent \o messages
<1>1. /\ UNCHANGED <<client, done, produced, delivered, held, stdout, reader>>
      /\ Coming' = Coming /\ Sent' = Sent /\ Here' = Here
  BY DEF Deny, Coming, Sent, Here
<1>2. CASE UNCHANGED messages
  <2>1. Queued' = Queued
    BY <1>1, <1>2 DEF Queued
  <2> QED BY <1>1, <2>1, FlowSame
<1>3. CASE messages' = Append(messages, e)
  <2>1. a \in Seq(S) /\ produced \in Seq(S)
    BY MessageSeqs, QueuedParts, ComingIsSeq
  <2>2. e \in S /\ ~IsReply(e)
    BY DEF Messages, Denial, IsReply
  <2>3. Queued' = Append(a, e) \o held
    <3>1. Sent \in Seq(S) /\ messages \in Seq(S)
      BY MessageSeqs
    <3>2. Append(messages, e) = messages \o <<e>> /\ Append(a, e) = a \o <<e>>
      BY <2>1, <2>2, <3>1, AppendIsConcat
    <3>3. <<e>> \in Seq(S)
      BY <2>2
    <3> DEFINE u == <<e>>
    <3> HIDE DEF u, S
    <3>4. (Sent \o messages) \o u = Sent \o (messages \o u)
      BY <3>1, <3>3, ConcatAssociative DEF u
    <3> QED BY <1>1, <1>3, <3>2, <3>4 DEF Queued, u
  <2>4. ASSUME NEW x \in Seq(S)
        PROVE  /\ Queued \o x \in Seq(S) /\ Queued' \o x \in Seq(S)
               /\ Len(a) \in 0..Len(Queued \o x)
               /\ IsInserted(Queued' \o x, Queued \o x, Len(a), e)
    <3> DEFINE b == held \o x
    <3>1. b \in Seq(S) /\ Queued \o x = a \o b
      BY QueuedParts
    <3>2. held \in Seq(S) /\ Append(a, e) \in Seq(S)
      BY <2>1, <2>2, MessageSeqs, AppendProperties
    <3> DEFINE f == Append(a, e)
    <3>3. Queued' = f \o held /\ f \in Seq(S)
      BY <2>3, <3>2
    <3> HIDE DEF a, e, S, f
    <3>4. (f \o held) \o x = f \o (held \o x)
      BY <3>2, <3>3, ConcatAssociative
    <3> HIDE DEF b
    <3>5. Queued' \o x = f \o b
      BY <3>3, <3>4 DEF b
    <3>6. /\ a \o b \in Seq(S) /\ f \o b \in Seq(S) /\ Len(a) \in 0..Len(a \o b)
          /\ IsInserted(f \o b, a \o b, Len(a), e)
      BY <2>1, <2>2, <3>1, InsertedBetween DEF f
    <3> QED BY <3>1, <3>5, <3>6
  <2>5. stdout \in Seq(S) /\ Coming \in Seq(S)
    BY MessageSeqs, ComingIsSeq
  <2> HIDE DEF a, e, S
  <2>6. AreReplies(produced, Queued \o stdout) => AreReplies(produced, Queued' \o stdout)
    BY <2>1, <2>2, <2>4, <2>5, RepliesInsert
  <2>7. First(produced, Queued \o Coming) => First(produced, Queued' \o Coming)
    BY <2>1, <2>2, <2>4, <2>5, FirstInsert
  <2> QED BY <1>1, <2>6, <2>7 DEF RepliesFlow
<1> QED BY <1>2, <1>3 DEF Deny

LEMMA RepliesFlowStep ==
  ASSUME SessionTypeOK, SessionShape, RepliesFlow, [Next]_vars
  PROVE  RepliesFlow'
<1>1. ASSUME UNCHANGED <<client, done, reader, held, messages, sending, stdout, produced,
                            delivered>>
      PROVE  RepliesFlow'
  BY <1>1 DEF RepliesFlow, Here, Queued, Sent, Coming
<1>2. ASSUME UNCHANGED sessionVars PROVE RepliesFlow'
  BY <1>1, <1>2 DEF sessionVars
<1>3. ASSUME NEW c \in Calls, NEW k \in Keys, Post(c, k) PROVE RepliesFlow'
  BY <1>2, <1>3 DEF Post
<1>4. ASSUME NEW c \in Calls, LookUp(c) \/ BadRequest(c) \/ Clear(c) \/ DenyPanics(c)
                              \/ ForwardFails(c)
      PROVE  RepliesFlow'
  BY <1>2, <1>4 DEF LookUp, BadRequest, Clear, DenyPanics, ForwardFails
<1>5. ASSUME NEW c \in Calls, Forward(c) PROVE RepliesFlow'
  BY <1>1, <1>5 DEF Forward
<1>6. ASSUME Session PROVE RepliesFlow'
  <2>1. CASE SpawnFails \/ StreamEnds \/ Ending \/ Exit
    BY <1>1, <2>1 DEF SpawnFails, StreamEnds, Ending, DeleteSession, CloseSession, Exit
  <2>2. CASE Spawn \/ Take \/ Flush
    BY <2>2, FlowSpawn, FlowTake, FlowFlush
  <2>3. CASE Reading
    BY <2>3, FlowScan, FlowSkip, FlowPut, FlowGiveUp, FlowReaderEnds DEF Reading
  <2>4. CASE ServerStep \/ Client \/ WaitReturns
    BY <2>4, FlowServerStep, FlowClientStalls, FlowClientLeaves, FlowWaitReturns DEF Client
  <2> QED BY <1>6, <2>1, <2>2, <2>3, <2>4 DEF Session, Connect, Streaming, Serving, Killed
<1>7. ASSUME Watch(Watching \/ WriteFile) \/ Clock \/ UNCHANGED vars PROVE RepliesFlow'
  BY <1>2, <1>7 DEF Watch, Clock, vars
<1> QED BY <1>3, <1>4, <1>5, <1>6, <1>7, FlowDeny DEF Next, Handling

\* The invariant takes the shape of the calls from that of the deny rules.
FlowInv == AllowedInv /\ SessionTypeOK /\ SessionShape /\ RepliesFlow

LEMMA FlowInvInit == Init => FlowInv
<1> SUFFICES ASSUME Init PROVE FlowInv
  OBVIOUS
<1>1. /\ client = "absent" /\ sse = "none" /\ process = "none" /\ reader = "none"
      /\ done = FALSE /\ closed = FALSE /\ held = <<>> /\ messages = <<>>
      /\ sending = <<>> /\ stdin = <<>> /\ stdout = <<>> /\ produced = <<>> /\ delivered = <<>>
  BY DEF Init, SessionInit
<1>2. call = [c \in Calls |-> [pc |-> "idle", key |-> SessionId, allowed |-> FALSE]]
  BY DEF Init
<1>3. SessionTypeOK
  <2>1. /\ <<>> \in Seq(Replies) /\ <<>> \in Seq(Messages) /\ <<>> \in Seq(Calls)
        /\ <<>> \in Seq(Lines) /\ Len(<<>>) = 0
    BY EmptySeq
  <2>2. done \in BOOLEAN /\ closed \in BOOLEAN
    BY Zenon DEF Init, SessionInit
  <2>3. held \in Seq(Replies) /\ Len(held) = IF reader = "holding" THEN 1 ELSE 0
    BY <1>1, <2>1
  <2> QED BY <1>1, <2>1, <2>2, <2>3, SessionAssumption DEF SessionTypeOK
<1>4. SessionShape
  BY <1>1, <1>2 DEF SessionShape
<1>5. RepliesFlow
  <2>1. <<>> \in Seq({})
    BY EmptySeq
  <2>2. First(<<>>, <<>>)
    BY <2>1, NothingOfNothing, FirstOfAll
  <2> QED BY <1>1, <2>2 DEF RepliesFlow, Here
<1> QED BY <1>3, <1>4, <1>5, AllowedInvInit DEF FlowInv

LEMMA FlowInvStep == FlowInv /\ [Next]_vars => FlowInv'
BY AllowedInvStep, SessionTypesStep, SessionShapeStep, RepliesFlowStep
DEF FlowInv, AllowedInv

\* For every set of calls, every capacity of the channel and of the pipe, and
\* every interleaving of reader, sender, denials and exits, the client has the
\* first replies of the server, in their order (handler.go:141-164, 425-474).
THEOREM RepliesArriveInOrder == Spec => []RepliesInOrder
<1>1. FlowInv => RepliesInOrder
  BY DeliveredInOrder DEF FlowInv, First, RepliesInOrder, FirstReplies
<1> QED BY FlowInvInit, FlowInvStep, <1>1, PTL DEF Spec

\* While client and server are there no reply is missing between the two, full
\* as the channel may be and whatever is denied meanwhile.
THEOREM NoReplyIsLost == Spec => []NoReplyLost
<1>1. FlowInv => NoReplyLost
  BY DEF FlowInv, RepliesFlow, NoReplyLost, Here, Queued, Sent
<1> QED BY FlowInvInit, FlowInvStep, <1>1, PTL DEF Spec

-----------------------------------------------------------------------------
(* Types.                                                                  *)

LEMMA WatcherTypesStep ==
  ASSUME WatcherTypeOK, [Next]_vars
  PROVE  WatcherTypeOK'
<1>1. ASSUME UNCHANGED watcherVars PROVE WatcherTypeOK'
  BY <1>1 DEF watcherVars, WatcherTypeOK
<1>2. ASSUME Watch(Watching \/ WriteFile) PROVE WatcherTypeOK'
  <2>1. CASE FirstLoad
    BY <2>1 DEF FirstLoad, LoadAll, WatcherTypeOK
  <2>2. CASE AddWatch
    BY <2>2 DEF AddWatch, WatcherTypeOK
  <2>3. CASE HandleEvent
    BY <2>3 DEF HandleEvent, WatcherTypeOK
  <2>4. CASE DebounceExpires
    BY <2>4 DEF DebounceExpires, LoadAll, WatcherTypeOK
  <2>5. CASE WriteFile
    BY <2>5, WatcherAssumption DEF WriteFile, WatcherTypeOK
  <2> QED BY <1>2, <2>1, <2>2, <2>3, <2>4, <2>5 DEF Watch, Watching
<1>3. ASSUME NEW c \in Calls, NEW k \in Keys, Post(c, k) PROVE WatcherTypeOK'
  BY <1>1, <1>3 DEF Post
<1>4. ASSUME NEW c \in Calls, Handling(c) PROVE WatcherTypeOK'
  BY <1>1, <1>4 DEF Handling, LookUp, BadRequest, Clear, Deny, DenyPanics, Forward, ForwardFails
<1>5. ASSUME Session \/ Clock \/ UNCHANGED vars PROVE WatcherTypeOK'
  BY <1>1, <1>5 DEF Session, Others, Clock, vars
<1> QED BY <1>2, <1>3, <1>4, <1>5 DEF Next

LEMMA WatcherTypesInit == Init => WatcherTypeOK
<1>1. Init => event \in BOOLEAN /\ pending \in BOOLEAN /\ missed \in BOOLEAN
  BY Zenon DEF Init, WatcherInit
<1> QED BY <1>1, WatcherAssumption DEF Init, WatcherInit, WatcherTypeOK

\* Every variable of the gateway keeps its type; with it the channel and the
\* pipe their capacities, and the reader at most one line in its hand.
THEOREM GatewayTypes == Spec => []TypeOK
<1> DEFINE Inv == LimiterInv /\ FlowInv /\ WatcherTypeOK
<1>1. Init => Inv
  BY LimiterInvInit, FlowInvInit, WatcherTypesInit
<1>2. Inv /\ [Next]_vars => Inv'
  BY LimiterInvStep, FlowInvStep, WatcherTypesStep
<1>3. Inv => TypeOK
  BY DEF LimiterInv, FlowInv, AllowedInv, TypeOK
<1> HIDE DEF Inv
<1> QED BY <1>1, <1>2, <1>3, PTL DEF Spec
=============================================================================
