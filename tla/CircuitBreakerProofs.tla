-------------------------- MODULE CircuitBreakerProofs --------------------------
(* Theorems about CircuitBreaker, for every number of callers and every    *)
(* threshold unless a theorem says otherwise.                              *)
EXTENDS CircuitBreaker, TLAPS

\* The compare-and-swap of tryAcquireHalfOpen starts from a value below the cap.
AcquireBelowMax ==
    \A c \in Callers : pc[c] = "acquire" => seen[c] < HalfOpenMax

CapInv == BreakerTypeOK /\ AcquireBelowMax /\ SlotCap

-------------------------------------------------------------------------------

\* Every atomic operation of Allow, OnSuccess and OnFailure leaves the counters
\* and program counters in their types.
THEOREM TypeCorrect == BreakerSpec => []BreakerTypeOK
<1>1. BreakerInit => BreakerTypeOK
  BY DEF BreakerInit, BreakerTypeOK, BreakerStates, Cooldowns, Steps
<1>2. BreakerTypeOK /\ [BreakerNext]_breakerVars => BreakerTypeOK'
  <2> SUFFICES ASSUME BreakerTypeOK, [BreakerNext]_breakerVars PROVE BreakerTypeOK'
    OBVIOUS
  <2> UsageOK'
    BY DEF BreakerTypeOK, UsageOK, BreakerNext, usage, breakerVars
  <2> USE DEF BreakerTypeOK, BreakerStates, Cooldowns, shared, Goto
  <2>1. CASE Cool
    BY <2>1 DEF Cool
  <2>2. ASSUME NEW c \in Callers, BeginCall(c) \/ Return(c) \/ BreakerPanic(c)
        PROVE  BreakerTypeOK'
    BY <2>2 DEF BeginCall, Return, Succeed, Fail, BreakerPanic, Steps, AllowSteps, SuccessSteps, FailureSteps
  <2>3. ASSUME NEW c \in Callers, AllowStep(c)
        PROVE  BreakerTypeOK'
    <3> USE DEF Steps, AllowSteps
    <3>1. CASE AllowLoad(c)
      BY <3>1 DEF AllowLoad
    <3>2. CASE ExpireCheck(c) \/ ExpireCAS(c)
      BY <3>2 DEF ExpireCheck, ExpireCAS
    <3>3. CASE AcquireLoad(c)
      BY <3>3, HalfOpenAssumption DEF AcquireLoad
    <3>4. CASE AcquireCAS(c)
      BY <3>4 DEF AcquireCAS
    <3>5. QED
      BY <2>3, <3>1, <3>2, <3>3, <3>4 DEF AllowStep
  <2>4. ASSUME NEW c \in Callers, SuccessStep(c)
        PROVE  BreakerTypeOK'
    BY <2>4
    DEF SuccessStep, SuccessLoad, SuccessClose, SuccessRelease, SuccessReset, Steps, SuccessSteps
  <2>5. ASSUME NEW c \in Callers, FailureStep(c)
        PROVE  BreakerTypeOK'
    <3> USE DEF Steps, FailureSteps
    <3>1. CASE FailureLoad(c)
      BY <3>1 DEF FailureLoad
    <3>2. CASE FailureCount(c)
      BY <3>2, ThresholdAssumption DEF FailureCount
    <3>3. CASE FailureTrip(c) \/ FailureReopen(c)
      BY <3>3 DEF FailureTrip, FailureReopen
    <3>4. CASE FailureRelease(c)
      BY <3>4 DEF FailureRelease
    <3>5. CASE FailureStamp(c)
      BY <3>5 DEF FailureStamp
    <3>6. QED
      BY <2>5, <3>1, <3>2, <3>3, <3>4, <3>5 DEF FailureStep
  <2>6. CASE UNCHANGED breakerVars
    BY <2>6 DEF breakerVars
  <2>7. users \subseteq Callers
    BY DEF BreakerTypeOK, CapInv, UsageOK
  <2>8. QED
    BY <2>1, <2>2, <2>3, <2>4, <2>5, <2>6, <2>7 DEF BreakerNext, Step
<1>3. QED
  BY <1>1, <1>2, PTL DEF BreakerSpec

\* However the loads, releases and compare-and-swaps of any number of callers
\* interleave, tryAcquireHalfOpen never takes a slot past HalfOpenMax.
THEOREM SlotCapHolds == BreakerSpec => []SlotCap
<1>1. BreakerInit => CapInv
  BY HalfOpenAssumption
  DEF BreakerInit, CapInv, BreakerTypeOK, AcquireBelowMax, SlotCap, BreakerStates, Cooldowns, Steps
<1>2. CapInv /\ BreakerTypeOK' /\ [BreakerNext]_breakerVars => CapInv'
  <2> SUFFICES ASSUME CapInv, BreakerTypeOK', [BreakerNext]_breakerVars PROVE AcquireBelowMax' /\ SlotCap'
    BY DEF CapInv
  <2> USE HalfOpenAssumption DEF CapInv, BreakerTypeOK, AcquireBelowMax, SlotCap, shared, Goto
  <2>1. CASE Cool
    BY <2>1 DEF Cool
  <2>2. ASSUME NEW c \in Callers, BeginCall(c) \/ Return(c) \/ BreakerPanic(c)
        PROVE  AcquireBelowMax' /\ SlotCap'
    BY <2>2 DEF BeginCall, Return, Succeed, Fail, BreakerPanic
  <2>3. ASSUME NEW c \in Callers, AllowStep(c)
        PROVE  AcquireBelowMax' /\ SlotCap'
    <3>1. CASE AllowLoad(c) \/ ExpireCheck(c) \/ ExpireCAS(c)
      BY <3>1 DEF AllowLoad, ExpireCheck, ExpireCAS, BreakerStates, Cooldowns
    <3>2. CASE AcquireLoad(c)
      BY <3>2 DEF AcquireLoad
    <3>3. CASE AcquireCAS(c)
      BY <3>3 DEF AcquireCAS
    <3>4. QED
      BY <2>3, <3>1, <3>2, <3>3 DEF AllowStep
  <2>4. ASSUME NEW c \in Callers, SuccessStep(c)
        PROVE  AcquireBelowMax' /\ SlotCap'
    BY <2>4 DEF SuccessStep, SuccessLoad, SuccessClose, SuccessRelease, SuccessReset, BreakerStates, Cooldowns
  <2>5. ASSUME NEW c \in Callers, FailureStep(c)
        PROVE  AcquireBelowMax' /\ SlotCap'
    BY <2>5
    DEF FailureStep, FailureLoad, FailureCount, FailureTrip, FailureRelease,
        FailureReopen, FailureStamp, BreakerStates, Cooldowns
  <2>6. CASE UNCHANGED breakerVars
    BY <2>6 DEF breakerVars
  <2>7. users \subseteq Callers
    BY DEF BreakerTypeOK, CapInv, UsageOK
  <2>8. QED
    BY <2>1, <2>2, <2>3, <2>4, <2>5, <2>6, <2>7 DEF BreakerNext, Step
<1>3. CapInv => SlotCap
  BY DEF CapInv
<1>4. QED
  BY <1>1, <1>2, <1>3, TypeCorrect, PTL DEF BreakerSpec

-------------------------------------------------------------------------------
(* A breaker with one caller: the way the relay and the webhook worker use it *)

OneCaller(c) == users = {c} /\ ~panics

\* What each atomic operation of a lone caller finds: which state the breaker
\* is in, and that the slot counter is 1 exactly while the caller is a probe.
SlotFree0 == halfInFlight = 0
SlotTaken == halfInFlight = 1

LoneInv(c) ==
    /\ pc[c] \in {"idle", "allow"} => SlotFree0
    /\ pc[c] \in {"expire", "halfopen"} => SlotFree0 /\ state = "open"
    /\ pc[c] = "halfopen" => cooldown = "elapsed"
    /\ pc[c] = "load" => SlotFree0 /\ state = "half_open"
    /\ pc[c] = "acquire" => SlotFree0 /\ state = "half_open" /\ seen[c] = 0
    /\ pc[c] \in {"calling", "success", "failure"} =>
          \/ state = "closed" /\ SlotFree0
          \/ state = "half_open" /\ SlotTaken
    /\ pc[c] \in {"close", "drop"} => state = "half_open" /\ SlotTaken
    /\ pc[c] = "release" => state = "closed" /\ SlotTaken
    /\ pc[c] \in {"clear", "reset", "count", "trip"} => state = "closed" /\ SlotFree0
    /\ pc[c] = "trip" => failures >= FailureThreshold
    /\ pc[c] = "stamp" => failures >= FailureThreshold
    /\ pc[c] \in {"stamp", "restamp"} => state = "open" /\ SlotFree0
    /\ pc[c] = "reopen" => state = "half_open" /\ SlotFree0

\* Every atomic operation of a lone caller preserves LoneInv.
LEMMA LoneStep ==
    ASSUME NEW c \in Callers, OneCaller(c), BreakerTypeOK, LoneInv(c), [BreakerNext]_breakerVars
    PROVE  LoneInv(c)'
<1> c \in users /\ \A d \in users : d = c
  BY DEF OneCaller
<1> USE HalfOpenAssumption, ThresholdAssumption
    DEF BreakerTypeOK, LoneInv, SlotFree0, SlotTaken, shared, Goto
<1>1. CASE Cool
  BY <1>1 DEF Cool
<1>2. CASE BeginCall(c) \/ Return(c)
  BY <1>2 DEF BeginCall, Return, Succeed, Fail
<1>3. CASE AllowStep(c)
  <2>1. CASE AllowLoad(c)
    BY <2>1 DEF AllowLoad, BreakerStates, Cooldowns
  <2>2. CASE ExpireCheck(c)
    BY <2>2 DEF ExpireCheck
  <2>3. CASE ExpireCAS(c)
    BY <2>3 DEF ExpireCAS
  <2>4. CASE AcquireLoad(c)
    BY <2>4 DEF AcquireLoad
  <2>5. CASE AcquireCAS(c)
    BY <2>5 DEF AcquireCAS
  <2>6. QED
    BY <1>3, <2>1, <2>2, <2>3, <2>4, <2>5 DEF AllowStep
<1>4. CASE SuccessStep(c)
  <2>1. CASE SuccessLoad(c)
    BY <2>1 DEF SuccessLoad, BreakerStates, Cooldowns
  <2>2. CASE SuccessClose(c)
    BY <2>2 DEF SuccessClose
  <2>3. CASE SuccessRelease(c)
    BY <2>3 DEF SuccessRelease
  <2>4. CASE SuccessReset(c)
    BY <2>4 DEF SuccessReset
  <2>5. QED
    BY <1>4, <2>1, <2>2, <2>3, <2>4 DEF SuccessStep
<1>5. CASE FailureStep(c)
  <2>1. CASE FailureLoad(c)
    BY <2>1 DEF FailureLoad, BreakerStates, Cooldowns
  <2>2. CASE FailureCount(c)
    BY <2>2 DEF FailureCount
  <2>3. CASE FailureTrip(c)
    BY <2>3 DEF FailureTrip
  <2>4. CASE FailureRelease(c)
    BY <2>4 DEF FailureRelease
  <2>5. CASE FailureReopen(c)
    BY <2>5 DEF FailureReopen
  <2>6. CASE FailureStamp(c)
    BY <2>6 DEF FailureStamp
  <2>7. QED
    BY <1>5, <2>1, <2>2, <2>3, <2>4, <2>5, <2>6 DEF FailureStep
<1>6. CASE UNCHANGED breakerVars
  BY <1>6 DEF breakerVars
<1>7. ~BreakerPanic(c)
  BY DEF OneCaller, BreakerPanic
<1>8. QED
  BY <1>1, <1>2, <1>3, <1>4, <1>5, <1>6, <1>7 DEF BreakerNext, Step

\* Whoever the lone user is, it finds what LoneInv says.
LoneUser == \A c \in Callers : OneCaller(c) => LoneInv(c)

\* Every step of the breaker preserves that, and who uses it.
LEMMA LoneUserStep == BreakerTypeOK /\ LoneUser /\ [BreakerNext]_breakerVars => LoneUser'
<1> SUFFICES ASSUME BreakerTypeOK, LoneUser, [BreakerNext]_breakerVars,
                    NEW c \in Callers, OneCaller(c)'
             PROVE  LoneInv(c)'
  BY DEF LoneUser
<1>1. OneCaller(c)
  BY DEF OneCaller, BreakerNext, usage, breakerVars
<1>2. LoneInv(c)
  BY <1>1 DEF LoneUser
<1>3. QED
  BY <1>1, <1>2, LoneStep

\* A new breaker has no probe under way.
LEMMA LoneUserInit == BreakerInit => LoneUser
  BY DEF BreakerInit, LoneUser, LoneInv, OneCaller, SlotFree0, SlotTaken

\* A lone user that does not panic gives back every probe slot it takes, so
\* the breaker cannot wedge in half_open.
THEOREM LoneCallerLeaksNoSlot == BreakerSpec => []NoLeakedSlot
<1>1. LoneUser => NoLeakedSlot
  BY DEF LoneUser, LoneInv, NoLeakedSlot, Lone, OneCaller, SlotFree0
<1>2. QED
  BY <1>1, LoneUserInit, LoneUserStep, TypeCorrect, PTL DEF BreakerSpec

\* Every atomic operation of a lone user is a step of the serial breaker, or none.
LEMMA SerialStep ==
    ASSUME NEW c \in Callers, OneCaller(c), BreakerTypeOK, LoneInv(c), LoneInv(c)',
           [BreakerNext]_breakerVars
    PROVE  Serial!SBNext \/ UNCHANGED <<AbsBreaker, AbsPhase>>
<1>u. users' = users /\ panics' = panics
  BY DEF BreakerNext, usage, breakerVars
<1> c \in users /\ \A d \in users : d = c
  BY DEF OneCaller
<1>lone. Lone /\ Lone'
  BY <1>u DEF OneCaller, Lone
<1>at. \A S : At(S) <=> pc[c] \in S
  BY DEF At
<1>at2. \A S : At(S)' <=> pc'[c] \in S
  BY <1>u DEF At
<1> USE HalfOpenAssumption, ThresholdAssumption, <1>at, <1>at2, <1>lone
    DEF BreakerTypeOK, BreakerStates, Cooldowns, LoneInv, SlotFree0, SlotTaken, shared, Goto,
        AbsBreaker, AbsPhase, AllowSteps
<1>1. CASE Cool
  <2>1. Serial!SBCool
    <3>1. AbsBreaker' = [AbsBreaker EXCEPT !.cooldown = "elapsed"]
      BY <1>1 DEF Cool
    <3>2. AbsPhase' = AbsPhase
      BY <1>1 DEF Cool
    <3>3. QED
      BY <3>1, <3>2 DEF Serial!SBCool, Serial!CoolDown
  <2>2. QED
    BY <2>1 DEF Serial!SBNext
<1>2. CASE BeginCall(c)
  <2>1. Serial!SBAsk
    BY <1>2 DEF BeginCall, Serial!SBAsk
  <2>2. QED
    BY <2>1 DEF Serial!SBNext
<1>3. CASE Return(c)
  BY <1>3 DEF Return, Succeed, Fail
<1>4. CASE AllowStep(c)
  <2> USE DEF Serial!ExpireOpen, Serial!SlotFree, Serial!Allowed, Serial!AfterAllow
  <2>1. CASE AllowLoad(c)
    <3>1. CASE state = "closed"
      <4>1. Serial!SBAnswer
        BY <2>1, <3>1 DEF AllowLoad, Serial!SBAnswer
      <4>2. QED
        BY <4>1 DEF Serial!SBNext
    <3>2. CASE state # "closed"
      BY <2>1, <3>2 DEF AllowLoad
    <3>3. QED
      BY <3>1, <3>2
  <2>2. CASE ExpireCheck(c)
    <3>1. CASE cooldown = "elapsed"
      BY <2>2, <3>1 DEF ExpireCheck
    <3>2. CASE cooldown # "elapsed"
      <4>1. Serial!SBAnswer
        BY <2>2, <3>2 DEF ExpireCheck, Serial!SBAnswer
      <4>2. QED
        BY <4>1 DEF Serial!SBNext
    <3>3. QED
      BY <3>1, <3>2
  <2>3. CASE ExpireCAS(c)
    <3>1. Serial!SBExpire
      BY <2>3 DEF ExpireCAS, Serial!SBExpire
    <3>2. QED
      BY <3>1 DEF Serial!SBNext
  <2>4. CASE AcquireLoad(c)
    BY <2>4 DEF AcquireLoad
  <2>5. CASE AcquireCAS(c)
    <3>1. Serial!SBAnswer
      BY <2>5 DEF AcquireCAS, Serial!SBAnswer
    <3>2. QED
      BY <3>1 DEF Serial!SBNext
  <2>6. QED
    BY <1>4, <2>1, <2>2, <2>3, <2>4, <2>5 DEF AllowStep
<1>5. CASE SuccessStep(c)
  <2>1. CASE SuccessLoad(c)
    BY <2>1 DEF SuccessLoad
  <2>2. CASE SuccessClose(c)
    BY <2>2 DEF SuccessClose
  <2>3. CASE SuccessRelease(c)
    BY <2>3 DEF SuccessRelease
  <2>4. CASE SuccessReset(c)
    <3>1. Serial!SBSuccess
      <4>1. CASE pc[c] = "clear"
        <5>1. AbsBreaker = [state |-> "half_open", failures |-> failures, probes |-> 1,
                            cooldown |-> cooldown]
          BY <4>1
        <5>2. AbsBreaker' = [state |-> "closed", failures |-> 0, probes |-> 0,
                            cooldown |-> cooldown]
          BY <2>4, <4>1 DEF SuccessReset
        <5>3. AbsPhase = "calling" /\ AbsPhase' = "idle"
          BY <2>4, <4>1 DEF SuccessReset
        <5> HIDE DEF AbsBreaker, AbsPhase
        <5>4. QED
          BY <5>1, <5>2, <5>3 DEF Serial!SBSuccess, Serial!AfterSuccess
      <4>2. CASE pc[c] = "reset"
        BY <2>4, <4>2 DEF SuccessReset, Serial!SBSuccess, Serial!AfterSuccess
      <4>3. QED
        BY <2>4, <4>1, <4>2 DEF SuccessReset
    <3>2. QED
      BY <3>1 DEF Serial!SBNext
  <2>5. QED
    BY <1>5, <2>1, <2>2, <2>3, <2>4 DEF SuccessStep
<1>6. CASE FailureStep(c)
  <2>1. CASE FailureLoad(c)
    BY <2>1 DEF FailureLoad
  <2>2. CASE FailureCount(c)
    <3>1. CASE failures + 1 < FailureThreshold
      <4>1. Serial!SBFailure
        BY <2>2, <3>1 DEF FailureCount, Serial!SBFailure, Serial!AfterFailure
      <4>2. QED
        BY <4>1 DEF Serial!SBNext
    <3>2. CASE ~(failures + 1 < FailureThreshold)
      BY <2>2, <3>2 DEF FailureCount
    <3>3. QED
      BY <3>1, <3>2
  <2>3. CASE FailureTrip(c)
    BY <2>3 DEF FailureTrip
  <2>4. CASE FailureRelease(c)
    BY <2>4 DEF FailureRelease
  <2>5. CASE FailureReopen(c)
    BY <2>5 DEF FailureReopen
  <2>6. CASE FailureStamp(c)
    <3>1. Serial!SBFailure
      <4>1. CASE pc[c] = "stamp"
        <5>1. AbsBreaker = [state |-> "closed", failures |-> failures - 1, probes |-> 0,
                            cooldown |-> cooldown]
          BY <4>1
        <5>2. AbsBreaker' = [state |-> "open", failures |-> failures, probes |-> 0,
                            cooldown |-> "running"]
          BY <2>6, <4>1 DEF FailureStamp
        <5>3. AbsPhase = "calling" /\ AbsPhase' = "idle"
          BY <2>6, <4>1 DEF FailureStamp
        <5> HIDE DEF AbsBreaker, AbsPhase
        <5>4. QED
          BY <4>1, <5>1, <5>2, <5>3 DEF Serial!SBFailure, Serial!AfterFailure
      <4>2. CASE pc[c] = "restamp"
        <5>1. AbsBreaker = [state |-> "half_open", failures |-> failures, probes |-> 1,
                            cooldown |-> cooldown]
          BY <4>2
        <5>2. AbsBreaker' = [state |-> "open", failures |-> failures, probes |-> 0,
                            cooldown |-> "running"]
          BY <2>6, <4>2 DEF FailureStamp
        <5>3. AbsPhase = "calling" /\ AbsPhase' = "idle"
          BY <2>6, <4>2 DEF FailureStamp
        <5> HIDE DEF AbsBreaker, AbsPhase
        <5>4. QED
          BY <5>1, <5>2, <5>3 DEF Serial!SBFailure, Serial!AfterFailure
      <4>3. QED
        BY <2>6, <4>1, <4>2 DEF FailureStamp
    <3>2. QED
      BY <3>1 DEF Serial!SBNext
  <2>7. QED
    BY <1>6, <2>1, <2>2, <2>3, <2>4, <2>5, <2>6 DEF FailureStep
<1>7. CASE UNCHANGED breakerVars
  BY <1>7 DEF breakerVars
<1>8. ~BreakerPanic(c)
  BY DEF OneCaller, BreakerPanic
<1>9. QED
  BY <1>1, <1>2, <1>3, <1>4, <1>5, <1>6, <1>7, <1>8 DEF BreakerNext, Step

\* A breaker with one user whose calls do not panic implements the methods as
\* single steps (BreakerOps), which is how OutboxRelay uses them.
THEOREM LoneCallerImplementsSerial == BreakerSpec => ImplementsSerial
<1>1. BreakerInit => Serial!SBInit
  <2> SUFFICES ASSUME BreakerInit PROVE AbsBreaker = NewBreaker /\ AbsPhase = "idle"
    BY DEF Serial!SBInit, NewBreaker, Serial!NewBreaker
  <2>1. \A S : At(S) <=> "idle" \in S
    BY DEF BreakerInit, At, UsageOK
  <2>2. QED
    BY <2>1 DEF BreakerInit, AbsBreaker, AbsPhase, AllowSteps, NewBreaker
<1>2. BreakerTypeOK /\ LoneUser /\ LoneUser' /\ [BreakerNext]_breakerVars
      => [Serial!SBNext]_(Serial!sbVars)
  <2> SUFFICES ASSUME BreakerTypeOK, LoneUser, LoneUser', [BreakerNext]_breakerVars
               PROVE  Serial!SBNext \/ UNCHANGED <<AbsBreaker, AbsPhase>>
    BY DEF Serial!sbVars
  <2>1. users' = users /\ panics' = panics
    BY DEF BreakerNext, usage, breakerVars
  <2>2. CASE Lone
    <3>1. PICK c \in Callers : OneCaller(c)
      BY <2>2 DEF Lone, OneCaller
    <3>2. OneCaller(c)'
      BY <2>1, <3>1 DEF OneCaller
    <3>3. LoneInv(c) /\ LoneInv(c)'
      BY <3>1, <3>2 DEF LoneUser
    <3>4. QED
      BY <3>1, <3>3, SerialStep
  <2>3. CASE ~Lone
    <3>1. ~Lone'
      BY <2>1, <2>3 DEF Lone
    <3>2. QED
      BY <2>3, <3>1 DEF AbsBreaker, AbsPhase
  <2>4. QED
    BY <2>2, <2>3
<1>3. QED
  BY <1>1, <1>2, LoneUserInit, LoneUserStep, TypeCorrect, PTL
  DEF BreakerSpec, ImplementsSerial, Serial!SBSpec
===============================================================================
