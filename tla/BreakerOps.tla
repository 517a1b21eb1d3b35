------------------------------ MODULE BreakerOps ------------------------------
(***************************************************************************)
(* The methods of circuitbreaker.Breaker as functions of the breaker's     *)
(* record, for a caller that runs one method at a time (the outbox relay   *)
(* and the webhook worker each own their breakers and call them from one   *)
(* goroutine).  The interleaved methods are in CircuitBreaker.             *)
(*                                                                         *)
(* cooldown is "elapsed" when  now - openedAt >= OpenTimeout.              *)
(***************************************************************************)
EXTENDS Integers

CONSTANTS FailureThreshold,  \* Options.FailureThreshold
          HalfOpenMax        \* Options.HalfOpenMax

ASSUME ThresholdAssumption == FailureThreshold \in Nat \ {0}
ASSUME HalfOpenAssumption == HalfOpenMax \in Nat \ {0}

BreakerStates == {"closed", "half_open", "open"}
Cooldowns == {"running", "elapsed"}

Breaker == [state: BreakerStates, failures: Nat, probes: Nat, cooldown: Cooldowns]

\* A new breaker is closed; openedAt is the zero time, long ago.
NewBreaker == [state |-> "closed", failures |-> 0, probes |-> 0, cooldown |-> "elapsed"]

\* expireOpen: an open breaker whose cool-down has elapsed becomes half open.
ExpireOpen(b) ==
    IF b.state = "open" /\ b.cooldown = "elapsed"
    THEN [b EXCEPT !.state = "half_open"]
    ELSE b

\* The half-open probe slots are not all taken.
SlotFree(b) == b.probes < HalfOpenMax

\* Allow's answer ...
Allowed(b) ==
    LET e == ExpireOpen(b)
    IN  \/ e.state = "closed"
        \/ e.state = "half_open" /\ SlotFree(e)

\* ... and the breaker it leaves behind: a half-open admission takes a slot.
AfterAllow(b) ==
    LET e == ExpireOpen(b)
    IN  IF e.state = "half_open" /\ SlotFree(e)
        THEN [e EXCEPT !.probes = @ + 1]
        ELSE e

\* OnSuccess resets the counter while closed, and closes a half-open breaker.
AfterSuccess(b) ==
    CASE b.state = "closed"    -> [b EXCEPT !.failures = 0]
      [] b.state = "half_open" -> [state |-> "closed", failures |-> 0,
                                   probes |-> b.probes - 1, cooldown |-> b.cooldown]
      [] b.state = "open"      -> b

\* OnFailure counts while closed, trips at the threshold, and reopens a
\* half-open breaker; both openings restart the cool-down.
AfterFailure(b) ==
    CASE b.state = "closed" /\ b.failures + 1 < FailureThreshold ->
              [b EXCEPT !.failures = @ + 1]
      [] b.state = "closed" /\ b.failures + 1 >= FailureThreshold ->
              [state |-> "open", failures |-> b.failures + 1,
               probes |-> b.probes, cooldown |-> "running"]
      [] b.state = "half_open" ->
              [state |-> "open", failures |-> b.failures,
               probes |-> b.probes - 1, cooldown |-> "running"]
      [] b.state = "open" -> b

\* The cool-down of the last open transition elapses.
CoolDown(b) == [b EXCEPT !.cooldown = "elapsed"]
===============================================================================
