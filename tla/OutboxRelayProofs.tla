--------------------------- MODULE OutboxRelayProofs ---------------------------
(* Theorems about OutboxRelay, for any number of relays and events.        *)
EXTENDS OutboxRelay, TLAPS

-------------------------------------------------------------------------------
(* Breaker methods keep a breaker a breaker *)

\* Allow, then OnSuccess or OnFailure, and the passing of time.
LEMMA BreakerOpsTyped ==
    ASSUME NEW b \in Breaker
    PROVE  /\ AfterAllow(b) \in Breaker
           /\ Allowed(b) => AfterSuccess(AfterAllow(b)) \in Breaker
           /\ Allowed(b) => AfterFailure(AfterAllow(b)) \in Breaker
           /\ CoolDown(b) \in Breaker
           /\ NewBreaker \in Breaker
<1> USE HalfOpenAssumption, ThresholdAssumption DEF Breaker, BreakerStates, Cooldowns
<1>1. ExpireOpen(b) \in Breaker
  BY DEF ExpireOpen
<1>2. AfterAllow(b) \in Breaker
  BY <1>1 DEF AfterAllow, SlotFree
<1>3. Allowed(b) => \/ AfterAllow(b).state = "closed"
                    \/ AfterAllow(b).state = "half_open" /\ AfterAllow(b).probes \in Nat \ {0}
  BY <1>1 DEF Allowed, AfterAllow, SlotFree
<1>4. Allowed(b) => AfterSuccess(AfterAllow(b)) \in Breaker
  BY <1>2, <1>3 DEF AfterSuccess
<1>5. Allowed(b) => AfterFailure(AfterAllow(b)) \in Breaker
  BY <1>2, <1>3 DEF AfterFailure
<1>6. CoolDown(b) \in Breaker /\ NewBreaker \in Breaker
  BY DEF CoolDown, NewBreaker
<1>7. QED
  BY <1>2, <1>4, <1>5, <1>6

-------------------------------------------------------------------------------
(* The inductive invariant *)

\* A relay with an outcome to mark holds the row it is about.
BusyInv ==
    \A r \in Relays :
        /\ outcome[r] = "none" <=> current[r] = NoEvent
        /\ current[r] # NoEvent => current[r] \in claimed[r]

\* The outcome a relay is about to mark is true of its row.
OutcomeInv ==
    \A r \in Relays :
        /\ outcome[r] = "ok" /\ current[r] \in Usage => current[r] \in billed
        /\ outcome[r] = "garbled" => current[r] \in Garbled

\* The claim's copy of the attempts counter never runs ahead of the row.
SnapInv == \A r \in Relays : \A e \in claimed[r] : snap[r][e] <= attempts[e]

\* A row under its relay's lease is undelivered and hidden from other claims; a
\* row in a batch has been emitted.
HeldInv ==
    /\ \A r \in Relays : \A e \in leased[r] :
          e \in claimed[r] /\ status[e] \in {"pending", "failed"} /\ e \notin due
    /\ \A r \in Relays : \A e \in claimed[r] : status[e] # "absent"

LeaseInv == HeldInv /\ OneHolder

RelayInv == TypeOK /\ BusyInv

\* Relays start with no claims and an outbox of pending rows.
LEMMA RelayInvInit == Init => RelayInv
  BY NoEventAssumption, BreakerOpsTyped, KindAssumption
  DEF Init, RelayInv, TypeOK, BusyInv, RowStates, Outcomes, NewBreaker, Breaker,
      BreakerStates, Cooldowns

\* A Mark* statement leaves the marked row, and every other row, well typed.
LEMMA UpdateRowTyped ==
    ASSUME TypeOK, NEW e \in Events, NEW st \in RowStates, NEW n \in Nat,
           NEW delayed \in BOOLEAN, UpdateRow(e, st, n, delayed)
    PROVE  /\ status' \in [Events -> RowStates]
           /\ attempts' \in [Events -> Nat]
           /\ due' \in SUBSET Events
           /\ leased' \in [Relays -> SUBSET Events]
<1>1. CASE status[e] = "purged"
  BY <1>1 DEF UpdateRow, EndLease, TypeOK, rows
<1>2. CASE status[e] # "purged"
  BY <1>2 DEF UpdateRow, EndLease, TypeOK
<1>3. QED
  BY <1>1, <1>2

\* Ending a row moves the relay on within the batch it claimed.
LEMMA FinishTyped ==
    ASSUME RelayInv, NEW r \in Relays, Finish(r)
    PROVE  /\ claimed' \in [Relays -> SUBSET Events]
           /\ current' \in [Relays -> Events \cup {NoEvent}]
           /\ outcome' \in [Relays -> Outcomes]
           /\ BusyInv'
  BY NoEventAssumption DEF RelayInv, TypeOK, BusyInv, Outcomes, Finish

\* A relay that crashes or whose poll fails forgets its claims.
LEMMA LoseBatchTyped ==
    ASSUME RelayInv, NEW r \in Relays, LoseBatch(r)
    PROVE  /\ claimed' \in [Relays -> SUBSET Events]
           /\ leased' \in [Relays -> SUBSET Events]
           /\ current' \in [Relays -> Events \cup {NoEvent}]
           /\ outcome' \in [Relays -> Outcomes]
           /\ crashes' \in Nat
           /\ BusyInv'
  BY NoEventAssumption DEF RelayInv, TypeOK, BusyInv, Outcomes, LoseBatch

\* Taking the next row of the batch takes one the relay has claimed.
LEMMA TakeTyped ==
    ASSUME RelayInv, NEW r \in Relays, NEW e \in Events,
           NEW result \in Outcomes \ {"none"}, Take(r, e, result),
           claimed' = claimed
    PROVE  /\ current' \in [Relays -> Events \cup {NoEvent}]
           /\ outcome' \in [Relays -> Outcomes]
           /\ BusyInv'
  BY NoEventAssumption DEF RelayInv, TypeOK, BusyInv, Outcomes, Take

\* Every step of Next preserves the type invariant and the claims.
LEMMA RelayInvStep == RelayInv /\ [Next]_vars => RelayInv'
<1> SUFFICES ASSUME RelayInv, [Next]_vars PROVE RelayInv'
  OBVIOUS
<1> USE NoEventAssumption, KindAssumption
    DEF RelayInv, TypeOK, rows, relayVars
<1>1. ASSUME NEW e \in Events, Emit(e) \/ Elapse(e) \/ Purge(e)
      PROVE  RelayInv'
  <2>1. CASE Emit(e)
    BY <2>1 DEF Emit, RowStates, BusyInv
  <2>2. CASE Elapse(e)
    BY <2>2 DEF Elapse, EndLease, BusyInv
  <2>3. CASE Purge(e)
    BY <2>3 DEF Purge, RowStates, BusyInv
  <2>4. QED
    BY <1>1, <2>1, <2>2, <2>3
<1>2. ASSUME NEW r \in Relays, Claim(r)
      PROVE  RelayInv'
  BY <1>2 DEF Claim, Claimable, BusyInv
<1>3. ASSUME NEW r \in Relays, NEW e \in Events, Process(r, e)
      PROVE  RelayInv'
  <2>1. AfterAllow(breaker[r]) \in Breaker
    BY BreakerOpsTyped
  <2>2. Allowed(breaker[r]) => AfterSuccess(AfterAllow(breaker[r])) \in Breaker
    BY BreakerOpsTyped
  <2>3. Allowed(breaker[r]) => AfterFailure(AfterAllow(breaker[r])) \in Breaker
    BY BreakerOpsTyped
  <2>4. CASE ProcessInternal(r, e) \/ ProcessGarbled(r, e)
    BY <2>4, TakeTyped DEF ProcessInternal, ProcessGarbled, Outcomes
  <2>5. CASE Deny(r, e)
    BY <2>1, <2>5, TakeTyped DEF Deny, Outcomes
  <2>6. CASE Deliver(r, e)
    BY <2>2, <2>6, TakeTyped DEF Deliver, Outcomes
  <2>7. CASE DeliverError(r, e)
    BY <2>3, <2>7, TakeTyped DEF DeliverError, Outcomes
  <2>8. QED
    BY <1>3, <2>4, <2>5, <2>6, <2>7 DEF Process
<1>4. ASSUME NEW r \in Relays, Mark(r)
      PROVE  RelayInv'
  <2>1. current[r] \in Events /\ attempts[current[r]] \in Nat
    BY <1>4 DEF Mark, MarkPublished, MarkRetry, MarkDeadLetter, MarkFault, BusyInv
  <2>2. CASE MarkPublished(r)
    BY <2>1, <2>2, UpdateRowTyped, FinishTyped DEF MarkPublished, RowStates
  <2>3. CASE MarkRetry(r)
    <3> DEFINE n == attempts[current[r]] + 1
    <3>1. n \in Nat
      BY <2>1
    <3>2. UpdateRow(current[r], "failed", n, TRUE) /\ Finish(r)
      BY <2>3 DEF MarkRetry
    <3> HIDE DEF n
    <3>3. /\ status' \in [Events -> RowStates]
          /\ attempts' \in [Events -> Nat]
          /\ due' \in SUBSET Events
          /\ leased' \in [Relays -> SUBSET Events]
      BY <2>1, <3>1, <3>2, UpdateRowTyped DEF RowStates
    <3>4. QED
      BY <2>3, <3>2, <3>3, FinishTyped DEF MarkRetry
  <2>4. CASE MarkDeadLetter(r)
    <3> DEFINE n == attempts[current[r]] + 1
    <3>1. n \in Nat
      BY <2>1
    <3>2. UpdateRow(current[r], "dead_letter", n, FALSE) /\ Finish(r)
      BY <2>4 DEF MarkDeadLetter
    <3> HIDE DEF n
    <3>3. /\ status' \in [Events -> RowStates]
          /\ attempts' \in [Events -> Nat]
          /\ due' \in SUBSET Events
          /\ leased' \in [Relays -> SUBSET Events]
      BY <2>1, <3>1, <3>2, UpdateRowTyped DEF RowStates
    <3>4. QED
      BY <2>4, <3>2, <3>3, FinishTyped DEF MarkDeadLetter
  <2>5. CASE MarkFault(r)
    BY <2>5, FinishTyped, BoundAssumption DEF MarkFault
  <2>6. QED
    BY <1>4, <2>2, <2>3, <2>4, <2>5 DEF Mark
<1>5. ASSUME NEW r \in Relays, Crash(r)
      PROVE  RelayInv'
  <2>1. NewBreaker \in Breaker
    BY DEF NewBreaker, Breaker, BreakerStates, Cooldowns
  <2>2. QED
    BY <1>5, <2>1, LoseBatchTyped DEF Crash
<1>6. ASSUME NEW r \in Relays, BreakerCools(r)
      PROVE  RelayInv'
  BY <1>6, BreakerOpsTyped DEF BreakerCools, BusyInv
<1>7. ASSUME NEW r \in Relays, NEW e \in Events, Panic(r, e)
      PROVE  RelayInv'
  <2>1. AfterAllow(breaker[r]) \in Breaker
    BY BreakerOpsTyped
  <2>2. QED
    BY <1>7, <2>1, LoseBatchTyped DEF Panic
<1>8. CASE UNCHANGED vars
  BY <1>8 DEF vars, BusyInv
<1>9. QED
  BY <1>1, <1>2, <1>3, <1>4, <1>5, <1>6, <1>7, <1>8 DEF Next, Drain, PollEmpty

\* Every step of every relay keeps rows, claims and breakers in their types, and
\* a relay marks only a row it has claimed.
THEOREM RelayTypeCorrect == Spec => []RelayInv
  BY RelayInvInit, RelayInvStep, PTL DEF Spec

-------------------------------------------------------------------------------
(* Nothing is published that was not billed *)

\* What a mark does to its row, and that it touches no other.
RowMarked(r, e) ==
    \/ outcome[r] = "ok" /\ status'[e] = "published" /\ attempts'[e] = attempts[e]
    \/ outcome[r] = "error" /\ status'[e] = "failed" /\ attempts'[e] = attempts[e] + 1
    \/ /\ outcome[r] = "garbled" \/ (outcome[r] = "error" /\ LastAttempt(r))
       /\ status'[e] = "dead_letter" /\ attempts'[e] = attempts[e] + 1
    \/ status'[e] = status[e] /\ attempts'[e] = attempts[e]

OthersKept(e) ==
    \A f \in Events \ {e} :
        /\ status'[f] = status[f]
        /\ attempts'[f] = attempts[f]
        /\ f \in due' <=> f \in due

\* A mark ends every lease on its row; one that fails gives up its relay's own.
MarkedLeases(r) ==
    \/ leased' = [s \in Relays |-> leased[s] \ {current[r]}]
    \/ leased' = [leased EXCEPT ![r] = @ \ {current[r]}] /\ UNCHANGED rows

\* What a Mark* statement writes: the row it names and no other.
LEMMA MarkEffect ==
    ASSUME RelayInv, NEW r \in Relays, Mark(r)
    PROVE  /\ current[r] \in Events /\ current[r] \in claimed[r]
           /\ Finish(r)
           /\ UNCHANGED <<snap, breaker, billed, crashes>>
           /\ RowMarked(r, current[r])
           /\ OthersKept(current[r])
           /\ MarkedLeases(r)
<1>1. current[r] \in Events /\ current[r] \in claimed[r]
  BY NoEventAssumption
  DEF RelayInv, TypeOK, Mark, MarkPublished, MarkRetry, MarkDeadLetter, MarkFault, BusyInv
<1>2. MarkedLeases(r)
  BY DEF Mark, MarkPublished, MarkRetry, MarkDeadLetter, MarkFault, UpdateRow, EndLease,
         MarkedLeases
<1>3. Finish(r) /\ UNCHANGED <<snap, breaker, billed, crashes>>
  BY DEF Mark, MarkPublished, MarkRetry, MarkDeadLetter, MarkFault
<1>4. RowMarked(r, current[r]) /\ OthersKept(current[r])
  <2> USE DEF RelayInv, TypeOK, RowMarked, OthersKept, rows
  <2>1. CASE status[current[r]] = "purged"
    BY <1>1, <2>1 DEF Mark, MarkPublished, MarkRetry, MarkDeadLetter, MarkFault, UpdateRow
  <2>2. CASE status[current[r]] # "purged"
    <3>1. CASE MarkPublished(r)
      BY <1>1, <2>2, <3>1 DEF MarkPublished, UpdateRow
    <3>2. CASE MarkRetry(r)
      BY <1>1, <2>2, <3>2 DEF MarkRetry, UpdateRow
    <3>3. CASE MarkDeadLetter(r)
      BY <1>1, <2>2, <3>3 DEF MarkDeadLetter, UpdateRow
    <3>4. CASE MarkFault(r)
      BY <1>1, <3>4 DEF MarkFault
    <3>5. QED
      BY <3>1, <3>2, <3>3, <3>4 DEF Mark
  <2>3. QED
    BY <2>1, <2>2
<1>5. QED
  BY <1>1, <1>2, <1>3, <1>4

BilledInv == OutcomeInv /\ PublishedWasBilled

\* A relay that holds a successful outcome holds a delivery the engine took,
\* and only markPublished turns it into a published row.
LEMMA BilledStep == RelayInv /\ BilledInv /\ [Next]_vars => BilledInv'
<1> SUFFICES ASSUME RelayInv, BilledInv, [Next]_vars PROVE BilledInv'
  OBVIOUS
<1> USE NoEventAssumption, KindAssumption
    DEF RelayInv, TypeOK, BilledInv, OutcomeInv, PublishedWasBilled, rows, relayVars
<1>1. ASSUME NEW e \in Events, Emit(e) \/ Elapse(e) \/ Purge(e)
      PROVE  BilledInv'
  BY <1>1 DEF Emit, Elapse, EndLease, Purge
<1>2. ASSUME NEW r \in Relays, Claim(r)
      PROVE  BilledInv'
  BY <1>2 DEF Claim
<1>3. ASSUME NEW r \in Relays, NEW e \in Events, Process(r, e)
      PROVE  BilledInv'
  <2>1. CASE ProcessInternal(r, e) \/ ProcessGarbled(r, e) \/ Deny(r, e)
    BY <2>1 DEF ProcessInternal, ProcessGarbled, Deny, Take
  <2>2. CASE Deliver(r, e)
    BY <2>2 DEF Deliver, Take
  <2>3. CASE DeliverError(r, e)
    BY <2>3 DEF DeliverError, Take
  <2>4. QED
    BY <1>3, <2>1, <2>2, <2>3 DEF Process
<1>4. ASSUME NEW r \in Relays, Mark(r)
      PROVE  BilledInv'
  <2>1. /\ current[r] \in Events /\ Finish(r) /\ billed' = billed
        /\ RowMarked(r, current[r]) /\ OthersKept(current[r])
    BY <1>4, MarkEffect
  <2>2. OutcomeInv'
    BY <2>1 DEF Finish
  <2>3. ASSUME NEW f \in Usage, status'[f] = "published"
        PROVE  f \in billed'
    <3>1. CASE f = current[r]
      BY <2>1, <2>3, <3>1 DEF RowMarked
    <3>2. CASE f # current[r]
      BY <2>1, <2>3, <3>2 DEF OthersKept
    <3>3. QED
      BY <3>1, <3>2
  <2>4. QED
    BY <2>2, <2>3
<1>5. ASSUME NEW r \in Relays, Crash(r)
      PROVE  BilledInv'
  BY <1>5 DEF Crash, LoseBatch
<1>6. ASSUME NEW r \in Relays, BreakerCools(r)
      PROVE  BilledInv'
  BY <1>6 DEF BreakerCools
<1>7. ASSUME NEW r \in Relays, NEW e \in Events, Panic(r, e)
      PROVE  BilledInv'
  BY <1>7 DEF Panic, LoseBatch
<1>8. CASE UNCHANGED vars
  BY <1>8 DEF vars
<1>9. QED
  BY <1>1, <1>2, <1>3, <1>4, <1>5, <1>6, <1>7, <1>8 DEF Next, Drain, PollEmpty

\* Whatever crashes, faults, lost responses and overlapping claims do, markPublished
\* only ever follows a delivery the billing engine took.
THEOREM NothingPublishedUnbilled == Spec => []PublishedWasBilled
<1>1. Init => BilledInv
  BY NoEventAssumption, KindAssumption DEF Init, BilledInv, OutcomeInv, PublishedWasBilled
<1>2. BilledInv => PublishedWasBilled
  BY DEF BilledInv
<1>3. QED
  BY <1>1, <1>2, BilledStep, RelayTypeCorrect, PTL DEF Spec

-------------------------------------------------------------------------------
(* No event is given up before its attempts are spent *)

SpentInv == SnapInv /\ DeadLetterSpentAttempts

\* A claim's copy of the counter is never ahead of the row, so a stale copy can
\* delay a dead letter and never hasten one.
LEMMA SpentStep == RelayInv /\ OutcomeInv /\ SpentInv /\ [Next]_vars => SpentInv'
<1> SUFFICES ASSUME RelayInv, OutcomeInv, SpentInv, [Next]_vars PROVE SpentInv'
  OBVIOUS
<1> USE AttemptsAssumption
    DEF RelayInv, TypeOK, SpentInv, SnapInv, DeadLetterSpentAttempts, rows, relayVars
<1>1. ASSUME NEW e \in Events, Emit(e) \/ Elapse(e) \/ Purge(e)
      PROVE  SpentInv'
  BY <1>1 DEF Emit, Elapse, EndLease, Purge
<1>2. ASSUME NEW r \in Relays, Claim(r)
      PROVE  SpentInv'
  BY <1>2 DEF Claim, Claimable
<1>3. ASSUME NEW r \in Relays, NEW e \in Events, Process(r, e)
      PROVE  SpentInv'
  BY <1>3 DEF Process, ProcessInternal, ProcessGarbled, Deny, Deliver, DeliverError, Take
<1>4. ASSUME NEW r \in Relays, Mark(r)
      PROVE  SpentInv'
  <2>1. /\ current[r] \in Events /\ current[r] \in claimed[r]
        /\ Finish(r) /\ snap' = snap
        /\ RowMarked(r, current[r]) /\ OthersKept(current[r])
    BY <1>4, MarkEffect
  <2>2. \A e \in Events : attempts[e] <= attempts'[e]
    <3> SUFFICES ASSUME NEW e \in Events PROVE attempts[e] <= attempts'[e]
      OBVIOUS
    <3>1. CASE e = current[r]
      BY <2>1, <3>1 DEF RowMarked
    <3>2. CASE e # current[r]
      BY <2>1, <3>2 DEF OthersKept
    <3>3. QED
      BY <3>1, <3>2
  <2>3. attempts' \in [Events -> Nat]
    BY RelayInvStep
  <2>4. SnapInv'
    <3> SUFFICES ASSUME NEW s \in Relays, NEW e \in claimed'[s]
                 PROVE  snap[s][e] <= attempts'[e]
      BY <2>1
    <3>1. e \in claimed[s] /\ e \in Events
      BY <2>1 DEF Finish
    <3>2. snap[s][e] \in Nat /\ attempts[e] \in Nat /\ attempts'[e] \in Nat
      BY <2>3, <3>1
    <3>3. QED
      BY <2>2, <3>1, <3>2
  <2>5. ASSUME NEW e \in Events \ Garbled, status'[e] = "dead_letter"
        PROVE  attempts'[e] >= MaxAttempts
    <3>1. CASE e = current[r]
      <4>1. snap[r][e] <= attempts[e] /\ snap[r][e] \in Nat /\ attempts[e] \in Nat
        BY <2>1, <3>1
      <4>2. outcome[r] # "garbled"
        BY <2>5, <3>1 DEF OutcomeInv
      <4>3. QED
        BY <2>1, <2>5, <3>1, <4>1, <4>2 DEF RowMarked, LastAttempt
    <3>2. CASE e # current[r]
      BY <2>1, <2>5, <3>2 DEF OthersKept
    <3>3. QED
      BY <3>1, <3>2
  <2>6. QED
    BY <2>4, <2>5
<1>5. ASSUME NEW r \in Relays, Crash(r)
      PROVE  SpentInv'
  BY <1>5 DEF Crash, LoseBatch
<1>6. ASSUME NEW r \in Relays, BreakerCools(r)
      PROVE  SpentInv'
  BY <1>6 DEF BreakerCools
<1>7. ASSUME NEW r \in Relays, NEW e \in Events, Panic(r, e)
      PROVE  SpentInv'
  BY <1>7 DEF Panic, LoseBatch
<1>8. CASE UNCHANGED vars
  BY <1>8 DEF vars
<1>9. QED
  BY <1>1, <1>2, <1>3, <1>4, <1>5, <1>6, <1>7, <1>8 DEF Next, Drain, PollEmpty

\* retryOrDeadLetter decides from a copy of the counter that other relays may have
\* overtaken, yet a deliverable event is dead-lettered only at the ceiling.
THEOREM DeadLettersSpentAttempts == Spec => []DeadLetterSpentAttempts
<1>1. Init => BilledInv /\ SpentInv
  BY NoEventAssumption, KindAssumption
  DEF Init, BilledInv, OutcomeInv, PublishedWasBilled, SpentInv, SnapInv, DeadLetterSpentAttempts
<1>2. RelayInv /\ BilledInv /\ SpentInv /\ [Next]_vars => SpentInv'
  BY SpentStep DEF BilledInv
<1>3. SpentInv => DeadLetterSpentAttempts
  BY DEF SpentInv
<1>4. QED
  BY <1>1, <1>2, <1>3, BilledStep, RelayTypeCorrect, PTL DEF Spec

-------------------------------------------------------------------------------
(* Leases *)

\* Every step keeps leased rows out of the reach of other relays.
LEMMA LeaseStep == RelayInv /\ LeaseInv /\ [Next]_vars => LeaseInv'
<1> SUFFICES ASSUME RelayInv, LeaseInv, [Next]_vars PROVE LeaseInv'
  OBVIOUS
<1> USE DEF RelayInv, TypeOK, LeaseInv, HeldInv, OneHolder, rows, relayVars
<1>1. ASSUME NEW e \in Events, Emit(e) \/ Elapse(e) \/ Purge(e)
      PROVE  LeaseInv'
  <2>1. CASE Emit(e)
    BY <2>1 DEF Emit
  <2>2. CASE Elapse(e)
    BY <2>2 DEF Elapse, EndLease
  <2>3. CASE Purge(e)
    BY <2>3 DEF Purge
  <2>4. QED
    BY <1>1, <2>1, <2>2, <2>3
<1>2. ASSUME NEW r \in Relays, Claim(r)
      PROVE  LeaseInv'
  BY <1>2 DEF Claim, Claimable
<1>3. ASSUME NEW r \in Relays, NEW e \in Events, Process(r, e)
      PROVE  LeaseInv'
  BY <1>3 DEF Process, ProcessInternal, ProcessGarbled, Deny, Deliver, DeliverError, Take
<1>4. ASSUME NEW r \in Relays, Mark(r)
      PROVE  LeaseInv'
  <2>1. /\ current[r] \in Events /\ current[r] \in claimed[r]
        /\ Finish(r) /\ OthersKept(current[r]) /\ MarkedLeases(r)
        /\ RowMarked(r, current[r])
    BY <1>4, MarkEffect
  <2>2. ASSUME NEW s \in Relays, NEW e \in leased'[s]
        PROVE  /\ e \in leased[s] /\ e \in Events /\ e \in claimed'[s]
               /\ e # current[r] \/ UNCHANGED rows
    BY <2>1, <2>2 DEF Finish, MarkedLeases
  <2>3. HeldInv'
    <3>1. ASSUME NEW s \in Relays, NEW e \in leased'[s]
          PROVE  e \in claimed'[s] /\ status'[e] \in {"pending", "failed"} /\ e \notin due'
      BY <2>1, <2>2, <3>1 DEF OthersKept
    <3>2. ASSUME NEW s \in Relays, NEW e \in claimed'[s]
          PROVE  status'[e] # "absent"
      <4>1. e \in claimed[s] /\ e \in Events
        BY <2>1, <3>2 DEF Finish
      <4>2. CASE e = current[r]
        BY <2>1, <4>1, <4>2 DEF RowMarked
      <4>3. CASE e # current[r]
        BY <2>1, <4>1, <4>3 DEF OthersKept
      <4>4. QED
        BY <4>2, <4>3
    <3>3. QED
      BY <3>1, <3>2
  <2>4. OneHolder'
    BY <2>2
  <2>5. QED
    BY <2>3, <2>4
<1>5. ASSUME NEW r \in Relays, Crash(r)
      PROVE  LeaseInv'
  BY <1>5 DEF Crash, LoseBatch
<1>6. ASSUME NEW r \in Relays, BreakerCools(r)
      PROVE  LeaseInv'
  BY <1>6 DEF BreakerCools
<1>7. ASSUME NEW r \in Relays, NEW e \in Events, Panic(r, e)
      PROVE  LeaseInv'
  BY <1>7 DEF Panic, LoseBatch
<1>8. CASE UNCHANGED vars
  BY <1>8 DEF vars
<1>9. QED
  BY <1>1, <1>2, <1>3, <1>4, <1>5, <1>6, <1>7, <1>8 DEF Next, Drain, PollEmpty

\* The lease invariant holds in every reachable state.
LEMMA LeaseInvariant == Spec => []LeaseInv
<1>1. Init => LeaseInv
  BY DEF Init, LeaseInv, HeldInv, OneHolder
<1>2. QED
  BY <1>1, LeaseStep, RelayTypeCorrect, PTL DEF Spec

\* However late marks, crashes and expiries fall, ClaimDueOutboxEvents never leases
\* a row to a second relay while the first one's lease is on it.
THEOREM LeaseGivesOneHolder == Spec => []OneHolder
<1>1. LeaseInv => OneHolder
  BY DEF LeaseInv
<1>2. QED
  BY <1>1, LeaseInvariant, PTL

\* A dead-lettered row comes back to life only by the unguarded mark of a relay that
\* outlived its lease: no claim, and no relay within its lease, ever revives one.
THEOREM DeadLettersOutliveLeases == Spec => DeadLetterLeftOnlyLate
<1> DEFINE Kept == \A e \in Events : status[e] = "dead_letter" =>
                       status'[e] \in {"dead_letter", "purged"} \/ LateMark(e)
<1>1. RelayInv /\ LeaseInv /\ [Next]_vars => [Kept]_vars
  <2> SUFFICES ASSUME RelayInv, LeaseInv, Next, NEW e \in Events, status[e] = "dead_letter"
               PROVE  status'[e] \in {"dead_letter", "purged"} \/ LateMark(e)
    OBVIOUS
  <2> USE DEF RelayInv, TypeOK, rows, relayVars
  <2>1. ASSUME NEW f \in Events, Emit(f) \/ Elapse(f) \/ Purge(f)
        PROVE  status'[e] \in {"dead_letter", "purged"}
    BY <2>1 DEF Emit, Elapse, Purge
  <2>2. ASSUME NEW r \in Relays, Mark(r)
        PROVE  status'[e] \in {"dead_letter", "purged"} \/ LateMark(e)
    <3>1. current[r] \in Events /\ Finish(r) /\ OthersKept(current[r])
      BY <2>2, MarkEffect
    <3>2. CASE e = current[r]
      <4>1. e \notin leased[r]
        BY DEF LeaseInv, HeldInv
      <4>2. current'[r] # e
        BY <3>1, <3>2, NoEventAssumption DEF Finish
      <4>3. QED
        BY <3>2, <4>1, <4>2 DEF LateMark
    <3>3. CASE e # current[r]
      BY <3>1, <3>3 DEF OthersKept
    <3>4. QED
      BY <3>2, <3>3
  <2>3. CASE UNCHANGED status
    BY <2>3
  <2>4. QED
    BY <2>1, <2>2, <2>3
    DEF Next, Drain, Claim, PollEmpty, vars, Process, ProcessInternal, ProcessGarbled,
        Deny, Deliver, DeliverError, Crash, BreakerCools, Panic
<1>2. QED
  BY <1>1, RelayTypeCorrect, LeaseInvariant, PTL DEF Spec, DeadLetterLeftOnlyLate

-------------------------------------------------------------------------------
(* Refinement *)

\* Any number of relays implements the outbox's promise, leases that end early and
\* late marks included: an event is owed until billed and published or buried, and
\* a settled event changes only while an overdue relay still works on it.
THEOREM RelaysImplementDelivery == Spec => ImplementsDelivery
<1>1. Init => Delivery!EDInit
  BY DEF Init, Delivery!EDInit, Fate, Overdue
<1>2. Init => BilledInv
  BY NoEventAssumption, KindAssumption DEF Init, BilledInv, OutcomeInv, PublishedWasBilled
<1>3. RelayInv /\ RelayInv' /\ BilledInv /\ LeaseInv /\ [Next]_vars
      => [Delivery!EDNext]_(Delivery!edVars)
  <2> SUFFICES ASSUME RelayInv, RelayInv', BilledInv, LeaseInv, [Next]_vars
               PROVE  Delivery!EDNext \/ UNCHANGED <<Fate, billed, Overdue>>
    BY DEF Delivery!edVars
  <2> USE KindAssumption DEF rows, relayVars
  <2>1. ASSUME NEW e \in Events, Emit(e)
        PROVE  Delivery!EDNext
    <3>1. Delivery!EDEmit(e)
      BY <2>1 DEF Emit, Delivery!EDEmit, Delivery!Become, Fate, Overdue, RelayInv, TypeOK
    <3>2. QED
      BY <3>1 DEF Delivery!EDNext
  <2>2. ASSUME NEW e \in Events, Purge(e)
        PROVE  Delivery!EDNext
    <3>1. Delivery!EDPurge(e)
      BY <2>2 DEF Purge, Delivery!EDPurge, Delivery!Become, Fate, Overdue, RelayInv, TypeOK
    <3>2. QED
      BY <3>1 DEF Delivery!EDNext
  <2>3. ASSUME NEW e \in Events, Elapse(e)
        PROVE  Delivery!EDNext \/ UNCHANGED <<Fate, billed, Overdue>>
    <3>1. Fate' = Fate /\ billed' = billed
      BY <2>3 DEF Elapse, Fate
    <3>2. CASE \A r \in Relays : e \notin leased[r]
      <4>1. leased' = leased
        BY <2>3, <3>2 DEF Elapse, EndLease, RelayInv, TypeOK
      <4>2. QED
        BY <2>3, <3>1, <4>1 DEF Elapse, Overdue
    <3>3. CASE \E r \in Relays : e \in leased[r]
      <4>1. Fate[e] = "owed"
        BY <3>3 DEF LeaseInv, HeldInv, Fate
      <4>2. Overdue' = Overdue \cup {e}
        BY <2>3, <3>3 DEF Elapse, EndLease, Overdue, LeaseInv, HeldInv
      <4>3. Delivery!EDLapse(e)
        BY <3>1, <4>1, <4>2 DEF Delivery!EDLapse
      <4>4. QED
        BY <4>3 DEF Delivery!EDNext
    <3>4. QED
      BY <3>2, <3>3
  <2>4. ASSUME NEW r \in Relays, NEW e \in Events, e \in claimed[r], e \in Usage,
               UNCHANGED status, billed' \in {billed, billed \cup {e}},
               Overdue' \in SUBSET Overdue
        PROVE  Delivery!EDNext
    <3>1. Fate' = Fate /\ (Fate[e] = "owed" \/ e \in Overdue)
      BY <2>4 DEF Fate, Overdue, LeaseInv, HeldInv
    <3>2. CASE billed' = billed
      <4>1. Delivery!EDAbandon
        BY <2>4, <3>1, <3>2 DEF Delivery!EDAbandon
      <4>2. QED
        BY <4>1 DEF Delivery!EDNext
    <3>3. CASE billed' = billed \cup {e}
      <4>1. Delivery!EDBill(e)
        BY <2>4, <3>1, <3>3 DEF Delivery!EDBill
      <4>2. QED
        BY <4>1 DEF Delivery!EDNext
    <3>4. QED
      BY <2>4, <3>2, <3>3
  <2>5. ASSUME NEW r \in Relays, Mark(r)
        PROVE  Delivery!EDNext \/ UNCHANGED <<Fate, billed, Overdue>>
    <3> DEFINE e == current[r]
    <3>1. /\ e \in Events /\ e \in claimed[r] /\ billed' = billed /\ Finish(r)
          /\ RowMarked(r, e) /\ OthersKept(e) /\ MarkedLeases(r)
      BY <2>5, MarkEffect
    <3>2. Overdue' \in {Overdue, Overdue \ {e}}
      <4>1. ASSUME NEW f \in Events \ {e}
            PROVE  f \in Overdue' <=> f \in Overdue
        <5>1. ASSUME NEW s \in Relays
              PROVE  f \in claimed'[s] \ leased'[s] <=> f \in claimed[s] \ leased[s]
          BY <3>1, <4>1, <5>1 DEF Finish, MarkedLeases, RelayInv, TypeOK
        <5>2. QED
          BY <5>1 DEF Overdue
      <4>2. e \in Overdue' => e \in Overdue
        <5> SUFFICES ASSUME NEW s \in Relays, e \in claimed'[s] \ leased'[s], e \notin Overdue
                     PROVE  FALSE
          BY DEF Overdue
        <5>1. s # r /\ e \in claimed[s]
          BY <3>1 DEF Finish, RelayInv, TypeOK
        <5>2. e \in leased[s] /\ e \in leased[r]
          BY <3>1, <5>1 DEF Overdue
        <5>3. QED
          BY <5>1, <5>2 DEF LeaseInv, OneHolder
      <4>3. Overdue' \subseteq Events /\ Overdue \subseteq Events
        BY DEF Overdue
      <4>4. QED
        BY <4>1, <4>2, <4>3
    <3> HIDE DEF e
    <3>3. \A f \in Events \ {e} : Fate'[f] = Fate[f]
      BY <3>1 DEF OthersKept, Fate
    <3>4. CASE status'[e] = status[e]
      <4>1. Fate' = Fate
        BY <3>1, <3>3, <3>4 DEF Fate, OthersKept
      <4>2. Delivery!EDAbandon
        BY <3>1, <3>2, <4>1 DEF Delivery!EDAbandon
      <4>3. QED
        BY <4>2 DEF Delivery!EDNext
    <3>5. CASE status'[e] # status[e]
      <4>1. \/ Fate[e] = "owed"
            \/ Fate[e] \in {"published", "dead_letter"} /\ e \in Overdue
        <5>1. status[e] \in {"pending", "failed", "published", "dead_letter"}
          <6>1. status[e] # "purged"
            BY <2>5, <3>5 DEF e, Mark, MarkPublished, MarkRetry, MarkDeadLetter, MarkFault,
                              UpdateRow
          <6>2. status[e] # "absent" /\ status[e] \in RowStates
            BY <3>1 DEF LeaseInv, HeldInv, RelayInv, TypeOK
          <6>3. QED
            BY <6>1, <6>2 DEF RowStates
        <5>2. QED
          BY <3>1, <5>1 DEF Fate, Overdue, LeaseInv, HeldInv
      <4>2. \E to \in {"owed", "published", "dead_letter"} :
                /\ to = "published" /\ e \in Usage => e \in billed
                /\ Fate' = [Fate EXCEPT ![e] = to]
        <5>1. CASE outcome[r] = "ok" /\ status'[e] = "published"
          <6>1. e \in Usage => e \in billed
            BY <5>1 DEF BilledInv, OutcomeInv, e
          <6>2. Fate' = [Fate EXCEPT ![e] = "published"]
            BY <3>1, <3>3, <5>1 DEF Fate
          <6>3. QED
            BY <6>1, <6>2
        <5>2. CASE status'[e] = "dead_letter"
          <6>1. Fate' = [Fate EXCEPT ![e] = "dead_letter"]
            BY <3>1, <3>3, <5>2 DEF Fate
          <6>2. QED
            BY <6>1
        <5>3. CASE status'[e] = "failed"
          <6>1. Fate' = [Fate EXCEPT ![e] = "owed"]
            BY <3>1, <3>3, <5>3 DEF Fate
          <6>2. QED
            BY <6>1
        <5>4. QED
          BY <3>1, <3>5, <5>1, <5>2, <5>3 DEF RowMarked
      <4>3. Delivery!EDSettle(e)
        BY <3>1, <3>2, <4>1, <4>2 DEF Delivery!EDSettle
      <4>4. QED
        BY <3>1, <4>3 DEF Delivery!EDNext
    <3>6. QED
      BY <3>4, <3>5
  <2>6. ASSUME NEW r \in Relays, Claim(r)
        PROVE  UNCHANGED <<Fate, billed, Overdue>>
    <3>1. Fate' = Fate /\ billed' = billed
      BY <2>6 DEF Claim, Fate
    <3>2. Overdue' = Overdue
      BY <2>6 DEF Claim, Overdue, RelayInv, TypeOK, LeaseInv, HeldInv
    <3>3. QED
      BY <3>1, <3>2
  <2>7. ASSUME NEW r \in Relays, LoseBatch(r), UNCHANGED status
        PROVE  Fate' = Fate /\ Overdue' \in SUBSET Overdue
    BY <2>7 DEF LoseBatch, Fate, Overdue, RelayInv, TypeOK
  <2>8. CASE UNCHANGED <<status, billed, claimed, leased>>
    BY <2>8 DEF Fate, Overdue
  <2>9. QED
    <3>1. ASSUME NEW r \in Relays, NEW e \in Events, Process(r, e)
          PROVE  Delivery!EDNext \/ UNCHANGED <<Fate, billed, Overdue>>
      <4>1. UNCHANGED <<status, claimed, leased>> /\ e \in claimed[r]
        BY <3>1 DEF Process, ProcessInternal, ProcessGarbled, Deny, Deliver, DeliverError, Take
      <4>2. Overdue' \in SUBSET Overdue
        BY <4>1 DEF Overdue
      <4>3. \/ billed' = billed
            \/ e \in Usage /\ billed' = billed \cup {e}
        BY <3>1 DEF Process, ProcessInternal, ProcessGarbled, Deny, Deliver, DeliverError
      <4>4. QED
        BY <2>4, <2>8, <4>1, <4>2, <4>3
    <3>2. ASSUME NEW r \in Relays, NEW e \in Events, Panic(r, e)
          PROVE  Delivery!EDNext
      <4>1. Overdue' \in SUBSET Overdue /\ UNCHANGED status /\ e \in claimed[r] /\ e \in Usage
        BY <2>7, <3>2 DEF Panic
      <4>2. billed' \in {billed, billed \cup {e}}
        BY <3>2 DEF Panic
      <4>3. QED
        BY <2>4, <4>1, <4>2
    <3>3. ASSUME NEW r \in Relays, Crash(r)
          PROVE  Delivery!EDNext
      <4>1. Fate' = Fate /\ Overdue' \in SUBSET Overdue /\ billed' = billed
        BY <2>7, <3>3 DEF Crash
      <4>2. Delivery!EDAbandon
        BY <4>1 DEF Delivery!EDAbandon
      <4>3. QED
        BY <4>2 DEF Delivery!EDNext
    <3>4. QED
      BY <2>1, <2>2, <2>3, <2>5, <2>6, <2>8, <3>1, <3>2, <3>3
      DEF Next, Drain, PollEmpty, vars, BreakerCools
<1>4. QED
  BY <1>1, <1>2, <1>3, BilledStep, RelayTypeCorrect, LeaseInvariant, PTL
  DEF Spec, ImplementsDelivery, Delivery!EDSpec
===============================================================================
