---------------------------- MODULE RateLimiter ----------------------------
(***************************************************************************)
(* The fixed-window limiter in front of the API: the in-memory buckets of  *)
(* one instance, whose goroutines share two atomics with no lock around    *)
(* them, or the Redis script shared by all instances.  All requests carry  *)
(* the same credential, so each level of the middleware has one key.       *)
(***************************************************************************)
EXTENDS Naturals, Sequences, FiniteSets

CONSTANTS Goroutines,
          Levels,           \* checked in this order: ip, provider, environment, credential, endpoint
          Limit,            \* level -> requests per window; 0 disables the ip level
          Window,           \* ticks
          CleanupGrace,     \* ticks after its window before a bucket is dropped
          MaxTicks,         \* bound: ticks
          MaxAttempts       \* bound: requests

ASSUME LimiterAssumption ==
    /\ Goroutines # {} /\ IsFiniteSet(Goroutines)
    /\ Window \in Nat \ {0} /\ CleanupGrace \in Nat
    /\ Levels \in Seq(STRING) /\ Len(Levels) >= 2
    /\ \A i \in DOMAIN Levels : Limit[Levels[i]] \in Nat

VARIABLES backend,      \* "memory" or "redis"
          ticks,
          buckets,      \* level -> its buckets, the last one in the map; [count, end]
          redis,        \* level -> [count, end], end = 0 for no key
          calls,        \* goroutine -> where its request is
          admitted,     \* history: level -> bucket -> admissions since its window opened
          failedOpen,   \* history: level -> Redis errors in the window
          attempts

limiterState == <<backend, ticks, buckets, redis, calls, admitted, failedOpen, attempts>>

NoCall == [pc |-> "idle"]
LevelOf(g) == Levels[calls[g].level]
BucketOf(g) == buckets[LevelOf(g)][calls[g].bucket]
Go(g, pc) == calls' = [calls EXCEPT ![g].pc = pc]

-----------------------------------------------------------------------------
(* Limiter.AllowRetryAfter, in memory: one step per atomic operation *)

\* time.Now and LoadOrStore.
EnterLevel(g, l) ==
    calls' = [calls EXCEPT ![g] =
        [pc |-> IF backend = "redis" THEN "eval" ELSE "load", level |-> l, now |-> ticks,
         bucket |-> Len(buckets[Levels[l]]), end |-> 0]]

LoadWindowEnd(g) ==
    /\ calls[g].pc = "load"
    /\ calls' = [calls EXCEPT ![g].end = BucketOf(g).end,
                              ![g].pc = IF calls[g].now >= BucketOf(g).end THEN "cas" ELSE "add"]
    /\ UNCHANGED <<buckets, admitted>>

\* One of the goroutines that saw the window expired opens the next one.
CompareAndSwapEnd(g) ==
    /\ calls[g].pc = "cas"
    /\ IF BucketOf(g).end = calls[g].end
       THEN /\ buckets' = [buckets EXCEPT ![LevelOf(g)][calls[g].bucket].end = calls[g].now + Window]
            /\ admitted' = [admitted EXCEPT ![LevelOf(g)][calls[g].bucket] = 0]
            /\ Go(g, "store")
       ELSE Go(g, "add") /\ UNCHANGED <<buckets, admitted>>

\* ... and resets the count in a second operation, however much later.
StoreZero(g) ==
    /\ calls[g].pc = "store"
    /\ buckets' = [buckets EXCEPT ![LevelOf(g)][calls[g].bucket].count = 0]
    /\ Go(g, "add") /\ UNCHANGED admitted

\* Mutant: the limit is compared with the count before the increment.
withinExclusive(count, limit) == count <= limit + 1

withinLimit(count, limit) == count <= limit

\* The next level, or the handler; a refusal answers 429 and ends the request.
LeaveLevel(g, allowed) ==
    IF allowed /\ calls[g].level < Len(Levels)
    THEN EnterLevel(g, calls[g].level + 1)
    ELSE calls' = [calls EXCEPT ![g] = NoCall]

AllowRetryAfter(g) ==
    /\ calls[g].pc = "add"
    /\ LET count == BucketOf(g).count + 1
           allowed == withinLimit(count, Limit[LevelOf(g)]) IN
       /\ buckets' = [buckets EXCEPT ![LevelOf(g)][calls[g].bucket].count = count]
       /\ admitted' = [admitted EXCEPT ![LevelOf(g)][calls[g].bucket] = IF allowed THEN @ + 1 ELSE @]
       /\ LeaveLevel(g, allowed)

MemoryStep(g) ==
    /\ LoadWindowEnd(g) \/ CompareAndSwapEnd(g) \/ StoreZero(g) \/ AllowRetryAfter(g)
    /\ UNCHANGED <<redis, failedOpen>>

InUse(lv, b) == \E g \in Goroutines : calls[g] # NoCall /\ LevelOf(g) = lv /\ calls[g].bucket = b

\* The cleanup goroutine forgets a bucket whose window is long over, or was never
\* opened; who already holds it keeps using it.  The last bucket of a level that
\* is new and that nobody holds stands for no entry in the map.
StartCleanup ==
    /\ backend = "memory"
    /\ \E lv \in DOMAIN buckets :
          LET b == Len(buckets[lv]) IN
          /\ ticks > buckets[lv][b].end + CleanupGrace
          /\ buckets[lv][b].end > 0 \/ InUse(lv, b)
          /\ buckets' = [buckets EXCEPT ![lv] = Append(@, [count |-> 0, end |-> 0])]
          /\ admitted' = [admitted EXCEPT ![lv] = Append(@, 0)]
    /\ UNCHANGED <<backend, ticks, redis, calls, failedOpen, attempts>>

-----------------------------------------------------------------------------
(* RedisLimiter.AllowRetryAfter *)

\* INCR, and EXPIRE on the first request of a window, in one script.
fixedWindowScript(row) ==
    IF row.end > ticks THEN [row EXCEPT !.count = @ + 1]
                       ELSE [count |-> 1, end |-> ticks + Window]

RedisAllowRetryAfter(g) ==
    /\ calls[g].pc = "eval"
    /\ LET lv == LevelOf(g)
           row == fixedWindowScript(redis[lv])
           allowed == withinLimit(row.count, Limit[lv])
           opened == row.count = 1 IN
       \/ /\ redis' = [redis EXCEPT ![lv] = row]
          /\ admitted' = [admitted EXCEPT ![lv][1] =
                 (IF opened THEN 0 ELSE @) + (IF allowed THEN 1 ELSE 0)]
          /\ failedOpen' = [failedOpen EXCEPT ![lv] = IF opened THEN 0 ELSE @]
          /\ LeaveLevel(g, allowed)
       \/ /\ failedOpen' = [failedOpen EXCEPT ![lv] = @ + 1]      \* an error admits the request
          /\ admitted' = [admitted EXCEPT ![lv][1] = @ + 1]
          /\ LeaveLevel(g, TRUE)
          /\ UNCHANGED redis
    /\ UNCHANGED buckets

-----------------------------------------------------------------------------
(* Middleware *)

\* ipRateLimitMiddleware lets everything pass when its limit is 0.
FirstLevel == IF Levels[1] = "ip" /\ Limit["ip"] = 0 THEN 2 ELSE 1

rateLimitMiddleware(g) ==
    /\ calls[g] = NoCall
    /\ attempts < MaxAttempts /\ attempts' = attempts + 1
    /\ EnterLevel(g, FirstLevel)
    /\ UNCHANGED <<backend, ticks, buckets, redis, admitted, failedOpen>>

Tick ==
    /\ ticks < MaxTicks /\ ticks' = ticks + 1
    /\ UNCHANGED <<backend, buckets, redis, calls, admitted, failedOpen, attempts>>

AllLevels == {Levels[i] : i \in DOMAIN Levels}

LimiterInit ==
    /\ backend \in {"memory", "redis"}
    /\ ticks = CleanupGrace + 1      \* the clock is far from the zero of a new bucket
    /\ attempts = 0
    /\ buckets = [lv \in AllLevels |-> <<[count |-> 0, end |-> 0]>>]
    /\ admitted = [lv \in AllLevels |-> <<0>>]
    /\ redis = [lv \in AllLevels |-> [count |-> 0, end |-> 0]]
    /\ failedOpen = [lv \in AllLevels |-> 0]
    /\ calls = [g \in Goroutines |-> NoCall]

LimiterNext ==
    \/ Tick \/ StartCleanup
    \/ \E g \in Goroutines :
          \/ rateLimitMiddleware(g)
          \/ (MemoryStep(g) \/ RedisAllowRetryAfter(g)) /\ UNCHANGED <<backend, ticks, attempts>>

LimiterSpec == LimiterInit /\ [][LimiterNext]_limiterState

-----------------------------------------------------------------------------
(* Properties *)

\* What limiter.go claims ("whether the request is within the limit for the
\* given key"), redis.go ("the semantics match the in-memory Limiter exactly"),
\* and a test of the in-memory limiter (exactly 10 of 100 concurrent requests):
\* one window of one bucket admits no more than Limit requests, besides those
\* that a Redis error lets pass.
LimitIsExact ==
    \A lv \in AllLevels : \A b \in DOMAIN admitted[lv] : admitted[lv][b] <= Limit[lv] + failedOpen[lv]

\* What holds of both.  Redis keeps the claim.  In memory the count is reset in
\* a second operation, which may come late, even windows later, and forgets
\* admissions; each goroutine can do so once in a window, so that a window
\* admits at most Limit for each goroutine.
AdmittedBounded ==
    \A lv \in AllLevels :
        IF backend = "redis"
        THEN admitted[lv][1] <= Limit[lv] + failedOpen[lv]
        ELSE \A b \in DOMAIN admitted[lv] : admitted[lv][b] <= Limit[lv] * Cardinality(Goroutines)
=============================================================================
