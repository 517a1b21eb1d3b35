------------------------------ MODULE OutboxRelay ------------------------------
(***************************************************************************)
(* internal/outbox/relay.go with db/queries/outbox.sql: relay instances    *)
(* that claim batches of outbox rows under a 120 s lease, deliver usage    *)
(* events to the billing engine with no lock held, and mark each outcome   *)
(* in a transaction of its own.                                            *)
(*                                                                         *)
(* Time is abstracted to the set due of rows with  next_attempt_at IS NULL *)
(* OR next_attempt_at <= now():  a lease and a backoff both take a row out *)
(* and Elapse puts it back at any later moment, also while the relay that   *)
(* claimed it is still at work: up to 100 deliveries share one lease.      *)
(***************************************************************************)
EXTENDS BreakerOps, FiniteSets

CONSTANTS
    Relays,       \* relay instances (one goroutine in each API process)
    Events,       \* outbox rows, numbered in created_at order
    Usage,        \* rows of type usage.accepted or usage.reversed
    Garbled,      \* usage rows whose payload does not unmarshal
    Batch,        \* Relay.batch
    MaxAttempts,  \* Relay.maxAttempts
    MaxCrashes,   \* bound: process crashes and panics
    MaxFaults,    \* bound: mark transactions that fail
    NoEvent

ASSUME RelaysAssumption == IsFiniteSet(Relays) /\ Relays # {}
ASSUME EventsAssumption == IsFiniteSet(Events) /\ Events \subseteq Nat
ASSUME KindAssumption == Usage \subseteq Events /\ Garbled \subseteq Usage
ASSUME NoEventAssumption == NoEvent \notin Events
ASSUME BatchAssumption == Batch \in Nat \ {0}
ASSUME AttemptsAssumption == MaxAttempts \in Nat \ {0}
ASSUME BoundAssumption == MaxCrashes \in Nat /\ MaxFaults \in Nat

VARIABLES
    status,    \* outbox_events.status, or "absent" / "purged"
    attempts,  \* outbox_events.attempts
    due,       \* rows whose next_attempt_at has passed (or is NULL)
    claimed,   \* rows of a relay's batch not yet finished
    leased,    \* history: those whose next_attempt_at is still the relay's lease
    snap,      \* attempts as returned to the relay by the claim
    current,   \* the row a relay is about to mark
    outcome,   \* what it is about to mark: "none", "ok", "error", "garbled"
    breaker,   \* the relay's "billing" circuit breaker
    billed,    \* external: usage events the billing engine has taken
    crashes, faults

rows == <<status, attempts, due>>
relayVars == <<claimed, leased, snap, current, outcome>>
vars == <<status, attempts, due, claimed, leased, snap, current, outcome,
          breaker, billed, crashes, faults>>

RowStates == {"absent", "pending", "failed", "published", "dead_letter", "purged"}
Outcomes == {"none", "ok", "error", "garbled"}

TypeOK ==
    /\ status \in [Events -> RowStates]
    /\ attempts \in [Events -> Nat]
    /\ due \in SUBSET Events
    /\ claimed \in [Relays -> SUBSET Events]
    /\ leased \in [Relays -> SUBSET Events]
    /\ snap \in [Relays -> [Events -> Nat]]
    /\ current \in [Relays -> Events \cup {NoEvent}]
    /\ outcome \in [Relays -> Outcomes]
    /\ breaker \in [Relays -> Breaker]
    /\ billed \in SUBSET Usage
    /\ crashes \in Nat
    /\ faults \in Nat

Init ==
    /\ status = [e \in Events |-> "absent"]
    /\ attempts = [e \in Events |-> 0]
    /\ due = Events
    /\ claimed = [r \in Relays |-> {}]
    /\ leased = [r \in Relays |-> {}]
    /\ snap = [r \in Relays |-> [e \in Events |-> 0]]
    /\ current = [r \in Relays |-> NoEvent]
    /\ outcome = [r \in Relays |-> "none"]
    /\ breaker = [r \in Relays |-> NewBreaker]
    /\ billed = {}
    /\ crashes = 0
    /\ faults = 0

-------------------------------------------------------------------------------
(* The rows *)

\* emitOutboxTx: the business transaction commits with its event.
Emit(e) ==
    /\ status[e] = "absent"
    /\ status' = [status EXCEPT ![e] = "pending"]
    /\ UNCHANGED <<attempts, due, relayVars, breaker, billed, crashes, faults>>

\* Nobody's lease is on the row any more.
EndLease(e) == leased' = [r \in Relays |-> leased[r] \ {e}]

\* The lease or the backoff of a row ends, whatever its relay is doing.
Elapse(e) ==
    /\ e \notin due
    /\ due' = due \cup {e}
    /\ EndLease(e)
    /\ UNCHANGED <<status, attempts, claimed, snap, current, outcome, breaker, billed,
                   crashes, faults>>

\* DeleteExpiredOutboxEvents, once the row is older than the retention.
Purge(e) ==
    /\ status[e] \in {"published", "dead_letter"}
    /\ status' = [status EXCEPT ![e] = "purged"]
    /\ UNCHANGED <<attempts, due, relayVars, breaker, billed, crashes, faults>>

-------------------------------------------------------------------------------
(* One drain: claim, then deliver and mark every claimed row *)

\* Mutant: the claim does not exclude dead letters.
MutClaimDeadLetters ==
    {e \in Events : status[e] \in {"pending", "failed", "dead_letter"} /\ e \in due}

\* Mutant: the claim only looks at pending rows.
MutClaimPendingOnly == {e \in Events : status[e] = "pending" /\ e \in due}

Claimable == {e \in Events : status[e] \in {"pending", "failed"} /\ e \in due}

\* Rows another relay is marking are locked: SKIP LOCKED may pass them over.
LockedFor(r) == {e \in Events : \E s \in Relays \ {r} : current[s] = e}

\* ORDER BY created_at LIMIT batch, over the claimable rows not skipped.
IsBatch(B, rest) ==
    /\ B # {}
    /\ Cardinality(B) <= Batch
    /\ rest \ B # {} => Cardinality(B) = Batch
    /\ \A e \in B, f \in rest \ B : e < f

\* Mutant: the claim takes no lease.
MutClaimNoLease(r) ==
    /\ claimed[r] = {}
    /\ \E B \in SUBSET Claimable :
          /\ IsBatch(B, Claimable)
          /\ claimed' = [claimed EXCEPT ![r] = B]
          /\ leased' = [leased EXCEPT ![r] = B]
          /\ snap' = [snap EXCEPT ![r] =
                        [e \in Events |-> IF e \in B THEN attempts[e] ELSE 0]]
    /\ UNCHANGED <<rows, current, outcome, breaker, billed, crashes, faults>>

\* ClaimDueOutboxEvents: lease the batch; attempts is read, not incremented.
Claim(r) ==
    /\ claimed[r] = {}
    /\ \E skipped \in SUBSET (LockedFor(r) \cap Claimable) :
       \E B \in SUBSET (Claimable \ skipped) :
          /\ IsBatch(B, Claimable \ skipped)
          /\ claimed' = [claimed EXCEPT ![r] = B]
          /\ leased' = [leased EXCEPT ![r] = B]
          /\ due' = due \ B
          /\ snap' = [snap EXCEPT ![r] =
                        [e \in Events |-> IF e \in B THEN attempts[e] ELSE 0]]
    /\ UNCHANGED <<status, attempts, current, outcome, breaker, billed,
                   crashes, faults>>

\* A claim that finds nothing due: drain returns until the next tick.
PollEmpty(r) ==
    /\ claimed[r] = {}
    /\ Claimable = {}
    /\ UNCHANGED vars

\* The next row of the batch (the order of RETURNING rows is not specified).
Take(r, e, result) ==
    /\ current[r] = NoEvent
    /\ e \in claimed[r]
    /\ current' = [current EXCEPT ![r] = e]
    /\ outcome' = [outcome EXCEPT ![r] = result]

\* processEvent, default: nothing to deliver.
ProcessInternal(r, e) ==
    /\ e \notin Usage
    /\ Take(r, e, "ok")
    /\ UNCHANGED <<rows, claimed, leased, snap, breaker, billed, crashes, faults>>

\* deliverUsage: the payload does not unmarshal.
ProcessGarbled(r, e) ==
    /\ e \in Garbled
    /\ Take(r, e, "garbled")
    /\ UNCHANGED <<rows, claimed, leased, snap, breaker, billed, crashes, faults>>

\* deliverUsage: the breaker denies the call.
Deny(r, e) ==
    /\ e \in Usage \ Garbled
    /\ ~Allowed(breaker[r])
    /\ Take(r, e, "error")
    /\ breaker' = [breaker EXCEPT ![r] = AfterAllow(@)]
    /\ UNCHANGED <<rows, claimed, leased, snap, billed, crashes, faults>>

\* deliverUsage: the adapter call succeeds.
Deliver(r, e) ==
    /\ e \in Usage \ Garbled
    /\ Allowed(breaker[r])
    /\ Take(r, e, "ok")
    /\ breaker' = [breaker EXCEPT ![r] = AfterSuccess(AfterAllow(@))]
    /\ billed' = billed \cup {e}
    /\ UNCHANGED <<rows, claimed, leased, snap, crashes, faults>>

\* Mutant: the adapter's error is dropped.
MutErrorIgnored(r, e) ==
    /\ e \in Usage \ Garbled
    /\ Allowed(breaker[r])
    /\ Take(r, e, "ok")
    /\ breaker' = [breaker EXCEPT ![r] = AfterFailure(AfterAllow(@))]
    /\ UNCHANGED <<rows, claimed, leased, snap, billed, crashes, faults>>

\* deliverUsage: the adapter call fails; the engine may have taken the event
\* all the same (lost response, duplicate rejected).
DeliverError(r, e) ==
    /\ e \in Usage \ Garbled
    /\ Allowed(breaker[r])
    /\ Take(r, e, "error")
    /\ breaker' = [breaker EXCEPT ![r] = AfterFailure(AfterAllow(@))]
    /\ billed' \in {billed, billed \cup {e}}
    /\ UNCHANGED <<rows, claimed, leased, snap, crashes, faults>>

\* The relay is done with its current row and goes on with the batch.
Finish(r) ==
    /\ claimed' = [claimed EXCEPT ![r] = @ \ {current[r]}]
    /\ current' = [current EXCEPT ![r] = NoEvent]
    /\ outcome' = [outcome EXCEPT ![r] = "none"]

\* An UPDATE ... WHERE id = $1 on the row, if retention has not deleted it: no
\* guard on its status or on whose lease it is.
UpdateRow(e, st, tries, delayed) ==
    /\ IF status[e] = "purged" THEN UNCHANGED rows
       ELSE /\ status' = [status EXCEPT ![e] = st]
            /\ attempts' = [attempts EXCEPT ![e] = tries]
            /\ due' = IF delayed THEN due \ {e} ELSE due \cup {e}
    /\ EndLease(e)

\* MarkOutboxEventPublished
MarkPublished(r) ==
    /\ outcome[r] = "ok"
    /\ UpdateRow(current[r], "published", attempts[current[r]], FALSE)
    /\ Finish(r)
    /\ UNCHANGED <<snap, breaker, billed, crashes, faults>>

\* Mutant: the ceiling is off by one.
MutLastAttemptEarly(r) == snap[r][current[r]] + 2 >= MaxAttempts

\* retryOrDeadLetter counts from the attempts the claim returned.
LastAttempt(r) == snap[r][current[r]] + 1 >= MaxAttempts

\* MarkOutboxEventRetry: back off.
MarkRetry(r) ==
    /\ outcome[r] = "error"
    /\ ~LastAttempt(r)
    /\ UpdateRow(current[r], "failed", attempts[current[r]] + 1, TRUE)
    /\ Finish(r)
    /\ UNCHANGED <<snap, breaker, billed, crashes, faults>>

\* MarkOutboxEventDeadLetter
MarkDeadLetter(r) ==
    /\ outcome[r] = "garbled" \/ (outcome[r] = "error" /\ LastAttempt(r))
    /\ UpdateRow(current[r], "dead_letter", attempts[current[r]] + 1, FALSE)
    /\ Finish(r)
    /\ UNCHANGED <<snap, breaker, billed, crashes, faults>>

\* The mark transaction fails: logged, the row keeps its lease, next row.
MarkFault(r) ==
    /\ outcome[r] # "none"
    /\ faults < MaxFaults
    /\ faults' = faults + 1
    /\ leased' = [leased EXCEPT ![r] = @ \ {current[r]}]
    /\ Finish(r)
    /\ UNCHANGED <<rows, snap, breaker, billed, crashes>>

-------------------------------------------------------------------------------
(* Failures of the relay itself *)

LoseBatch(r) ==
    /\ crashes < MaxCrashes
    /\ crashes' = crashes + 1
    /\ claimed' = [claimed EXCEPT ![r] = {}]
    /\ leased' = [leased EXCEPT ![r] = {}]
    /\ current' = [current EXCEPT ![r] = NoEvent]
    /\ outcome' = [outcome EXCEPT ![r] = "none"]

\* The process dies with its claims, and restarts with a new breaker.
Crash(r) ==
    /\ LoseBatch(r)
    /\ breaker' = [breaker EXCEPT ![r] = NewBreaker]
    /\ UNCHANGED <<rows, snap, billed, faults>>

\* The adapter panics: the supervisor runs the relay again, on the breaker
\* that Allow left.
Panic(r, e) ==
    /\ current[r] = NoEvent
    /\ e \in claimed[r] \cap (Usage \ Garbled)
    /\ Allowed(breaker[r])
    /\ LoseBatch(r)
    /\ breaker' = [breaker EXCEPT ![r] = AfterAllow(@)]
    /\ billed' \in {billed, billed \cup {e}}
    /\ UNCHANGED <<rows, snap, faults>>

BreakerCools(r) ==
    /\ breaker[r].cooldown = "running"
    /\ breaker' = [breaker EXCEPT ![r] = CoolDown(@)]
    /\ UNCHANGED <<rows, relayVars, billed, crashes, faults>>

-------------------------------------------------------------------------------

Process(r, e) ==
    \/ ProcessInternal(r, e) \/ ProcessGarbled(r, e)
    \/ Deny(r, e) \/ Deliver(r, e) \/ DeliverError(r, e)

Mark(r) == MarkPublished(r) \/ MarkRetry(r) \/ MarkDeadLetter(r) \/ MarkFault(r)

Drain(r) == Claim(r) \/ PollEmpty(r) \/ Mark(r) \/ \E e \in Events : Process(r, e)

Next ==
    \/ \E e \in Events : Emit(e) \/ Elapse(e) \/ Purge(e)
    \/ \E r \in Relays :
          \/ Drain(r)
          \/ Crash(r)
          \/ BreakerCools(r)
          \/ \E e \in Events : Panic(r, e)

Spec == Init /\ [][Next]_vars

(* Run polls on a ticker and the adapter's HTTP client times out, so a     *)
(* relay that can go on does; leases and backoffs end.  Emission,          *)
(* retention, crashes and faults are never obliged to happen.              *)
Fairness ==
    /\ \A r \in Relays : WF_vars(Drain(r)) /\ WF_vars(BreakerCools(r))
    /\ \A e \in Events : WF_vars(Elapse(e))

FairSpec == Spec /\ Fairness

-------------------------------------------------------------------------------
(* Properties *)

Settled == {"published", "dead_letter", "purged"}

\* No usage event is marked published that the billing engine has not taken:
\* not after a lost response, a crash between delivery and mark, or a second
\* relay's overlapping claim.
PublishedWasBilled ==
    \A e \in Usage : status[e] = "published" => e \in billed

\* A deliverable event is given up only when its own attempts counter has
\* reached the ceiling, although retryOrDeadLetter decides from the claim's
\* copy of the counter.
DeadLetterSpentAttempts ==
    \A e \in Events \ Garbled :
        status[e] = "dead_letter" => attempts[e] >= MaxAttempts

\* The claim gives a row to one relay at a time: two relays hold it together only
\* after the lease of all but one of them has ended or been overwritten.
OneHolder ==
    \A r, s \in Relays : r # s => leased[r] \cap leased[s] = {}

\* "status='dead_letter' is a true terminal state" (MarkOutboxEventDeadLetter):
\* only retention touches a dead-lettered row.
DeadLetterIsTerminal ==
    [][\A e \in Events : status[e] = "dead_letter" =>
                             status'[e] \in {"dead_letter", "purged"}]_vars

\* The relay about to mark row e no longer has the lease it claimed it under.
LateMark(e) == \E r \in Relays : current[r] = e /\ e \notin leased[r] /\ current'[r] # e

\* What is left of that claim: the relay "never re-claims dead-lettered rows", so
\* one comes back to life only by the mark of a relay that outlived its lease.
DeadLetterLeftOnlyLate ==
    [][\A e \in Events : status[e] = "dead_letter" =>
          status'[e] \in {"dead_letter", "purged"} \/ LateMark(e)]_vars

\* Every committed event is eventually published or dead-lettered, and stays
\* settled, whatever fails on the way: a late mark may revive a row, but not for
\* ever.
EventuallySettled == <>[](\A e \in Events : status[e] \in Settled \cup {"absent"})

-------------------------------------------------------------------------------
(* Refinement *)

Fate == [e \in Events |-> IF status[e] \in {"pending", "failed"} THEN "owed" ELSE status[e]]

\* Rows that some relay still works on without a lease.
Overdue == {e \in Events : \E r \in Relays : e \in claimed[r] \ leased[r]}

Delivery == INSTANCE EventDelivery WITH fate <- Fate, overdue <- Overdue

\* Relays of any number keep the outbox's promise, leases that end early included.
ImplementsDelivery == Delivery!EDSpec
===============================================================================
