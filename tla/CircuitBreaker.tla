----------------------------- MODULE CircuitBreaker -----------------------------
(***************************************************************************)
(* internal/circuitbreaker/breaker.go: a breaker shared by concurrent      *)
(* callers through atomics.  Every atomic load, store, add and             *)
(* compare-and-swap is one step; pc[c] is the next atomic operation of     *)
(* caller c.  Callers may run any number of calls, each Allow, the call    *)
(* itself, then OnSuccess or OnFailure.                                    *)
(***************************************************************************)
EXTENDS BreakerOps, FiniteSets

CONSTANTS Callers,   \* goroutines that may share the breaker
          MaxDrift   \* bound: calls overlap only while halfInFlight >= -MaxDrift

ASSUME CallersAssumption == IsFiniteSet(Callers) /\ Callers # {}
ASSUME DriftAssumption == MaxDrift \in Nat

VARIABLES
    state,         \* atomic.Int32 state
    failures,      \* consecutive failures while closed
    cooldown,      \* "elapsed" when now - openedAt >= OpenTimeout
    halfInFlight,  \* probe slots taken (a signed counter)
    pc,            \* next atomic operation of each caller
    seen,          \* tryAcquireHalfOpen's n
    users,         \* the goroutines that do use this breaker, fixed from the start
    panics         \* may their protected calls panic? fixed from the start

usage == <<users, panics>>
shared == <<state, failures, cooldown, halfInFlight>>
breakerVars == <<state, failures, cooldown, halfInFlight, pc, seen, users, panics>>

AllowSteps == {"allow", "expire", "halfopen", "load", "acquire"}
SuccessSteps == {"success", "close", "release", "clear", "reset"}
FailureSteps == {"failure", "count", "trip", "stamp", "drop", "reopen", "restamp"}
Steps == {"idle", "calling"} \cup AllowSteps \cup SuccessSteps \cup FailureSteps

UsageOK == users \in (SUBSET Callers) \ {{}} /\ panics \in BOOLEAN

BreakerTypeOK ==
    /\ state \in BreakerStates
    /\ failures \in Nat
    /\ cooldown \in Cooldowns
    /\ halfInFlight \in Int
    /\ pc \in [Callers -> Steps]
    /\ seen \in [Callers -> Int]
    /\ UsageOK

BreakerInit ==
    /\ state = "closed"
    /\ failures = 0
    /\ cooldown = "elapsed"
    /\ halfInFlight = 0
    /\ pc = [c \in Callers |-> "idle"]
    /\ seen = [c \in Callers |-> 0]
    /\ UsageOK

Goto(c, from, to) ==
    /\ pc[c] = from
    /\ pc' = [pc EXCEPT ![c] = to]

-------------------------------------------------------------------------------
(* Allow *)

\* MaxDrift bounds the model: halfInFlight can fall without limit, but only
\* when calls overlap.
BeginCall(c) ==
    /\ halfInFlight >= -MaxDrift \/ \A d \in Callers : pc[d] = "idle"
    /\ Goto(c, "idle", "allow")
    /\ UNCHANGED <<shared, seen>>

\* Allow: load the state and branch.
AllowLoad(c) ==
    /\ Goto(c, "allow", CASE state = "closed"    -> "calling"
                          [] state = "open"      -> "expire"
                          [] state = "half_open" -> "load")
    /\ UNCHANGED <<shared, seen>>

\* expireOpen: deny while the cool-down runs ...
ExpireCheck(c) ==
    /\ Goto(c, "expire", IF cooldown = "elapsed" THEN "halfopen" ELSE "idle")
    /\ UNCHANGED <<shared, seen>>

\* ... then CAS(open, half_open), and loop whether it won or lost.
ExpireCAS(c) ==
    /\ Goto(c, "halfopen", "allow")
    /\ state' = IF state = "open" THEN "half_open" ELSE state
    /\ UNCHANGED <<failures, cooldown, halfInFlight, seen>>

\* tryAcquireHalfOpen: load n, deny at HalfOpenMax ...
AcquireLoad(c) ==
    /\ Goto(c, "load", IF halfInFlight >= HalfOpenMax THEN "idle" ELSE "acquire")
    /\ seen' = [seen EXCEPT ![c] = halfInFlight]
    /\ UNCHANGED shared

\* Mutant: a plain add instead of the compare-and-swap.
MutAcquireAdd(c) ==
    /\ Goto(c, "acquire", "calling")
    /\ halfInFlight' = halfInFlight + 1
    /\ UNCHANGED <<state, failures, cooldown, seen>>

\* ... else CAS(n, n + 1), reloading when another caller got in between.
AcquireCAS(c) ==
    /\ Goto(c, "acquire", IF halfInFlight = seen[c] THEN "calling" ELSE "load")
    /\ halfInFlight' = IF halfInFlight = seen[c] THEN seen[c] + 1 ELSE halfInFlight
    /\ UNCHANGED <<state, failures, cooldown, seen>>

-------------------------------------------------------------------------------
(* OnSuccess *)

Succeed(c) ==
    /\ Goto(c, "calling", "success")
    /\ UNCHANGED <<shared, seen>>

SuccessLoad(c) ==
    /\ Goto(c, "success", CASE state = "closed"    -> "reset"
                            [] state = "half_open" -> "close"
                            [] state = "open"      -> "idle")
    /\ UNCHANGED <<shared, seen>>

SuccessClose(c) ==
    /\ Goto(c, "close", IF state = "half_open" THEN "release" ELSE "success")
    /\ state' = IF state = "half_open" THEN "closed" ELSE state
    /\ UNCHANGED <<failures, cooldown, halfInFlight, seen>>

\* Mutant: closing the breaker forgets the probe slot.
MutNoSuccessRelease(c) ==
    /\ Goto(c, "release", "clear")
    /\ UNCHANGED <<shared, seen>>

SuccessRelease(c) ==
    /\ Goto(c, "release", "clear")
    /\ halfInFlight' = halfInFlight - 1
    /\ UNCHANGED <<state, failures, cooldown, seen>>

\* failures.Store(0), after closing ("clear") or while closed ("reset").
SuccessReset(c) ==
    /\ pc[c] \in {"clear", "reset"}
    /\ pc' = [pc EXCEPT ![c] = "idle"]
    /\ failures' = 0
    /\ UNCHANGED <<state, cooldown, halfInFlight, seen>>

-------------------------------------------------------------------------------
(* OnFailure *)

Fail(c) ==
    /\ Goto(c, "calling", "failure")
    /\ UNCHANGED <<shared, seen>>

FailureLoad(c) ==
    /\ Goto(c, "failure", CASE state = "closed"    -> "count"
                            [] state = "half_open" -> "drop"
                            [] state = "open"      -> "idle")
    /\ UNCHANGED <<shared, seen>>

FailureCount(c) ==
    /\ Goto(c, "count", IF failures + 1 < FailureThreshold THEN "idle" ELSE "trip")
    /\ failures' = failures + 1
    /\ UNCHANGED <<state, cooldown, halfInFlight, seen>>

FailureTrip(c) ==
    /\ Goto(c, "trip", IF state = "closed" THEN "stamp" ELSE "idle")
    /\ state' = IF state = "closed" THEN "open" ELSE state
    /\ UNCHANGED <<failures, cooldown, halfInFlight, seen>>

\* Mutant: a failed probe keeps its slot.
MutNoFailureRelease(c) ==
    /\ Goto(c, "drop", "reopen")
    /\ UNCHANGED <<shared, seen>>

FailureRelease(c) ==
    /\ Goto(c, "drop", "reopen")
    /\ halfInFlight' = halfInFlight - 1
    /\ UNCHANGED <<state, failures, cooldown, seen>>

FailureReopen(c) ==
    /\ Goto(c, "reopen", IF state = "half_open" THEN "restamp" ELSE "idle")
    /\ state' = IF state = "half_open" THEN "open" ELSE state
    /\ UNCHANGED <<failures, cooldown, halfInFlight, seen>>

\* Mutant: reopening does not restart the cool-down.
MutNoStamp(c) ==
    /\ pc[c] \in {"stamp", "restamp"}
    /\ pc' = [pc EXCEPT ![c] = "idle"]
    /\ UNCHANGED <<shared, seen>>

\* openedAt.Store(now): the store follows the CAS that opened the breaker.
FailureStamp(c) ==
    /\ pc[c] \in {"stamp", "restamp"}
    /\ pc' = [pc EXCEPT ![c] = "idle"]
    /\ cooldown' = "running"
    /\ UNCHANGED <<state, failures, halfInFlight, seen>>

-------------------------------------------------------------------------------

\* The protected call panics: the supervisor recovers the goroutine and runs
\* the worker again, on the same breaker, without OnSuccess or OnFailure.
BreakerPanic(c) ==
    /\ panics
    /\ Goto(c, "calling", "idle")
    /\ UNCHANGED <<shared, seen>>

\* OpenTimeout after the last openedAt.
Cool ==
    /\ cooldown = "running"
    /\ cooldown' = "elapsed"
    /\ UNCHANGED <<state, failures, halfInFlight, pc, seen>>

AllowStep(c) ==
    AllowLoad(c) \/ ExpireCheck(c) \/ ExpireCAS(c) \/ AcquireLoad(c) \/ AcquireCAS(c)

SuccessStep(c) ==
    SuccessLoad(c) \/ SuccessClose(c) \/ SuccessRelease(c) \/ SuccessReset(c)

FailureStep(c) ==
    \/ FailureLoad(c) \/ FailureCount(c) \/ FailureTrip(c)
    \/ FailureRelease(c) \/ FailureReopen(c) \/ FailureStamp(c)

Step(c) == AllowStep(c) \/ SuccessStep(c) \/ FailureStep(c)

Return(c) == Succeed(c) \/ Fail(c)

BreakerNext ==
    /\ \/ Cool
       \/ \E c \in users : BeginCall(c) \/ Step(c) \/ Return(c) \/ BreakerPanic(c)
    /\ UNCHANGED usage

BreakerSpec == BreakerInit /\ [][BreakerNext]_breakerVars

(* The goroutines run, time passes, and the protected call always returns  *)
(* (its HTTP client has a timeout); a worker polls, so it calls again.     *)
BreakerFairness ==
    /\ WF_breakerVars(Cool /\ UNCHANGED usage)
    /\ \A c \in Callers :
          /\ WF_breakerVars(c \in users /\ BeginCall(c) /\ UNCHANGED usage)
          /\ WF_breakerVars(c \in users /\ Step(c) /\ UNCHANGED usage)
          /\ WF_breakerVars(c \in users /\ Return(c) /\ UNCHANGED usage)

BreakerFairSpec == BreakerSpec /\ BreakerFairness

-------------------------------------------------------------------------------
(* Properties *)

\* tryAcquireHalfOpen's compare-and-swap never takes a slot past HalfOpenMax,
\* whatever the interleaving of loads, releases and acquisitions.
SlotCap == halfInFlight <= HalfOpenMax

\* The breaker has one user, whose calls do not panic: the way the relay and the
\* webhook worker use theirs.
Lone == ~panics /\ \E c \in Callers : users = {c}

\* halfInFlight is the number of "in-flight half-open probes": with its one user
\* outside the breaker and the protected call, every slot is free again.
NoLeakedSlot == Lone /\ (\A c \in Callers : pc[c] = "idle") => halfInFlight = 0

\* A breaker never shuts its one user out for good: calls are admitted again and
\* again, however often the dependency fails.
AlwaysReadmits == []<>(Lone => \E c \in users : pc[c] = "calling")

-------------------------------------------------------------------------------
(* Refinement: for a lone user the atomics below are one method at a time. *)
(* The mapped record keeps the value a method started from until its last  *)
(* atomic operation.  A shared breaker makes no such promise: it is mapped *)
(* to one that stands still.                                               *)

At(steps) == \E c \in users : pc[c] \in steps

AbsBreaker ==
    IF Lone
    THEN [state    |-> IF At({"release", "clear", "restamp"}) THEN "half_open"
                       ELSE IF At({"stamp"}) THEN "closed" ELSE state,
          failures |-> IF At({"trip", "stamp"}) THEN failures - 1 ELSE failures,
          probes   |-> IF At({"clear", "reopen", "restamp"}) THEN halfInFlight + 1
                       ELSE halfInFlight,
          cooldown |-> cooldown]
    ELSE NewBreaker

AbsPhase ==
    IF ~Lone \/ At({"idle"}) THEN "idle"
    ELSE IF At(AllowSteps) THEN "asking" ELSE "calling"

Serial == INSTANCE SerialBreaker WITH br <- AbsBreaker, phase <- AbsPhase

\* A lone user sees the breaker's methods as atomic (BreakerOps).
ImplementsSerial == Serial!SBSpec
===============================================================================
