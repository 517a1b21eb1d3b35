----------------------------- MODULE SerialBreaker -----------------------------
(***************************************************************************)
(* What a circuit breaker promises to a caller that runs its methods one   *)
(* at a time: one atomic step per method, of one caller.  CircuitBreaker   *)
(* with a single caller implements this specification.                     *)
(***************************************************************************)
EXTENDS BreakerOps

VARIABLES br,     \* the breaker
          phase   \* the caller: "idle", "asking" (in Allow) or "calling"

sbVars == <<br, phase>>

SBInit ==
    /\ br = NewBreaker
    /\ phase = "idle"

SBAsk ==
    /\ phase = "idle"
    /\ phase' = "asking"
    /\ UNCHANGED br

\* Allow's loop finds the cool-down elapsed and moves to half_open first.
SBExpire ==
    /\ phase = "asking"
    /\ br.state = "open"
    /\ br' = ExpireOpen(br)
    /\ UNCHANGED phase

SBAnswer ==
    /\ phase = "asking"
    /\ br' = AfterAllow(br)
    /\ phase' = IF Allowed(br) THEN "calling" ELSE "idle"

SBSuccess ==
    /\ phase = "calling"
    /\ br' = AfterSuccess(br)
    /\ phase' = "idle"

SBFailure ==
    /\ phase = "calling"
    /\ br' = AfterFailure(br)
    /\ phase' = "idle"

SBCool ==
    /\ br' = CoolDown(br)
    /\ UNCHANGED phase

SBNext == SBAsk \/ SBExpire \/ SBAnswer \/ SBSuccess \/ SBFailure \/ SBCool

SBSpec == SBInit /\ [][SBNext]_sbVars
===============================================================================
