---------------------------- MODULE RequestGate ----------------------------
(***************************************************************************)
(* The middleware chain of the provider API and the idempotency record     *)
(* that makes a mutating request safe to retry.  The requests here are one *)
(* client's attempts at one operation, all with the same Idempotency-Key,  *)
(* method and path; keys do not affect each other.  Bookkeeping is fail-   *)
(* open, the server may stop at any point, and a handler may commit its    *)
(* effect and then fail to say so.                                         *)
(***************************************************************************)
EXTENDS Naturals, FiniteSets, Trail

CONSTANTS Connections,      \* the client's requests in flight, at most
          MaxSends,         \* bound: requests sent
          MaxSwitches       \* bound: changes of the provider's lifecycle state

ASSUME GateAssumption == IsFiniteSet(Connections)

VARIABLES requests,     \* connection -> [pc, writable: as read at authentication,
                        \*                claim, committed, status]
          lastAnswer,   \* the class of the last status a client saw
          sends,
          scimRoute,    \* /scim/v2, where the write guard is outside the record
          idem,         \* the row of the key: NoRecord or [id, status, reply, age in TTLs]
          claims,       \* ids given out
          writable,     \* the provider is in a writable lifecycle state
          switches,
          effects,      \* history: times the handler committed its transaction
          excuses       \* history: what may let the operation run again

gateState == <<requests, lastAnswer, sends, scimRoute, idem, claims, writable, switches, effects, excuses>>
gateVars == <<gateState, trail>>
recordState == <<idem, claims>>
historyState == <<effects, excuses>>
worldState == <<sends, writable, switches, scimRoute>>

NoRecord == [status |-> "none"]
NoReply == "none"

Disconnected == [pc |-> "idle", writable |-> FALSE, claim |-> 0, committed |-> FALSE, status |-> NoReply]
Answer(a, status) == requests' = [requests EXCEPT ![a] = Disconnected] /\ lastAnswer' = status
Continue(a, r) == requests' = [requests EXCEPT ![a] = r] /\ UNCHANGED lastAnswer
ProceedTo(a, pc) == Continue(a, [requests[a] EXCEPT !.pc = pc])

-----------------------------------------------------------------------------
(* Queries *)

GetIdempotencyKey == idem

\* Mutant: a lost insert is taken for a won one.
InsertTwice(a) ==
    /\ claims' = claims + 1
    /\ Continue(a, [requests[a] EXCEPT !.claim = claims + 1, !.pc = "serve"])
    /\ IF idem = NoRecord
       THEN idem' = [id |-> claims + 1, status |-> "in_progress", reply |-> NoReply, age |-> 0]
       ELSE UNCHANGED idem

\* INSERT ... ON CONFLICT DO NOTHING: the loser gets no row.
InsertIdempotencyKey(a) ==
    IF idem = NoRecord
    THEN /\ claims' = claims + 1
         /\ idem' = [id |-> claims + 1, status |-> "in_progress", reply |-> NoReply, age |-> 0]
         /\ Continue(a, [requests[a] EXCEPT !.claim = claims + 1, !.pc = "serve"])
    ELSE ProceedTo(a, "lost") /\ UNCHANGED recordState

CompleteIdempotencyKey(id, status) ==
    idem' = IF idem.status = "in_progress" /\ idem.id = id
            THEN [idem EXCEPT !.status = "completed", !.reply = status] ELSE idem

DeleteIdempotencyKey(id) ==
    idem' = IF idem # NoRecord /\ idem.id = id THEN NoRecord ELSE idem

\* Mutant: only completed records are swept.
sweepCompleted == idem.status = "completed" /\ idem.age = 2

\* expires_at is one TTL after the claim and the cutoff one TTL before now.
DeleteExpiredIdempotencyKeys == idem # NoRecord /\ idem.age = 2

-----------------------------------------------------------------------------
(* Before the record: authentication and the checks on the request *)

CanWrite(w) == w

\* The checks before the record look at the request, and at the credential as
\* apiKeyAuth resolved it: one step.  The lifecycle state is the one that came
\* with the credential, for this step and for the rest of the request.
Arrive(a) ==
    /\ requests[a].pc = "idle"
    /\ sends < MaxSends /\ sends' = sends + 1
    /\ UNCHANGED <<recordState, writable, switches, scimRoute, historyState>>

Turned(a) == Arrive(a) /\ Answer(a, "4xx")

Unauthenticated(a) == Turned(a) /\ UNCHANGED trail

\* A provider_id or environment_id of another tenant: refused and audited.
RecordTenantOverrideAttempt == AppendRows(insertAuditTx("tenant.context_override_attempt", "credential"))

tenantGuard(a) == ~scimRoute /\ Turned(a) /\ RecordTenantOverrideAttempt

environmentHeaderMiddleware(a) == ~scimRoute /\ Turned(a) /\ UNCHANGED trail

\* The limiter of RateLimiter; the SCIM routes are not behind it.
RateLimited(a) == ~scimRoute /\ Turned(a) /\ UNCHANGED trail

\* On the SCIM routes the write guard comes before the record.
ScimWriteGuard(a) == scimRoute /\ ~CanWrite(writable) /\ Turned(a) /\ UNCHANGED trail

Authenticate(a) ==
    /\ scimRoute => CanWrite(writable)
    /\ Arrive(a)
    /\ Continue(a, [requests[a] EXCEPT !.pc = "lookup", !.writable = writable])
    /\ UNCHANGED trail

-----------------------------------------------------------------------------
(* idempotencyMiddleware *)

\* A failed lookup or claim runs the handler without protection.
FailOpen(a) ==
    /\ requests[a].pc \in {"lookup", "claim"}
    /\ Continue(a, [requests[a] EXCEPT !.pc = "serve", !.claim = 0])
    /\ excuses' = excuses + 1
    /\ UNCHANGED <<recordState, worldState, effects, trail>>

getIdempotencyKey(a) ==
    /\ requests[a].pc = "lookup"
    /\ CASE GetIdempotencyKey = NoRecord -> ProceedTo(a, "claim")
         [] GetIdempotencyKey.status = "completed" -> Answer(a, GetIdempotencyKey.reply)
         [] OTHER -> Answer(a, "4xx")
    /\ UNCHANGED <<recordState, worldState, historyState, trail>>

claimIdempotencyKey(a) ==
    /\ requests[a].pc = "claim"
    /\ InsertIdempotencyKey(a)
    /\ UNCHANGED <<worldState, historyState, trail>>

\* The loser of the claim looks once more.
replayIdempotency(a) ==
    /\ requests[a].pc = "lost"
    /\ Answer(a, IF GetIdempotencyKey.status = "completed" THEN GetIdempotencyKey.reply ELSE "4xx")
    /\ UNCHANGED <<recordState, worldState, historyState, trail>>

\* A protected run goes on to settle its record; an unprotected one is done.
Reply(a, status, committed) ==
    IF requests[a].claim = 0
    THEN Answer(a, status)
    ELSE Continue(a, [requests[a] EXCEPT !.pc = "settle", !.status = status,
                                         !.committed = committed])

\* lifecycleWriteGuard, inside the record on the tenant routes.
lifecycleWriteGuard(a) ==
    /\ requests[a].pc = "serve" /\ ~scimRoute /\ ~CanWrite(requests[a].writable)
    /\ Reply(a, "4xx", FALSE)
    /\ UNCHANGED <<recordState, worldState, historyState, trail>>

Served(a) == requests[a].pc = "serve" /\ (scimRoute \/ CanWrite(requests[a].writable))

\* requireScope and the handler's own validation.
Refuse(a) ==
    /\ Served(a) /\ Reply(a, "4xx", FALSE)
    /\ UNCHANGED <<recordState, worldState, historyState, trail>>

\* The handler commits, and answers 2xx, or 5xx when what follows its commit fails.
ServeHTTP(a) ==
    /\ Served(a)
    /\ \E status \in {"2xx", "5xx"} : Reply(a, status, TRUE)
    /\ effects' = effects + 1
    /\ UNCHANGED <<recordState, worldState, excuses, trail>>

FailHandler(a) ==
    /\ Served(a) /\ Reply(a, "5xx", FALSE)
    /\ UNCHANGED <<recordState, worldState, historyState, trail>>

\* A panic unwinds through idempotencyMiddleware, which has no defer, to
\* recoverMiddleware: 500, and the record is not settled.
recoverMiddleware(a) ==
    /\ Served(a) /\ Answer(a, "5xx")
    /\ \E committed \in {0, 1} : effects' = effects + committed
    /\ UNCHANGED <<recordState, worldState, excuses, trail>>

\* 5xx drops the claim; anything else completes it.
SettleRecord(a) ==
    IF requests[a].status = "5xx"
    THEN /\ DeleteIdempotencyKey(requests[a].claim)
         /\ excuses' = excuses + (IF requests[a].committed THEN 1 ELSE 0)
    ELSE CompleteIdempotencyKey(requests[a].claim, requests[a].status) /\ UNCHANGED excuses

\* The settling query runs under the request's context and fails when the
\* timeout has cancelled it or the client is gone: the error is only logged.
idempotencyMiddleware(a) ==
    /\ requests[a].pc = "settle"
    /\ SettleRecord(a) \/ UNCHANGED <<idem, excuses>>
    /\ Answer(a, requests[a].status)
    /\ UNCHANGED <<claims, worldState, effects, trail>>

-----------------------------------------------------------------------------
(* The rest of the world *)

\* The server stops; the client sees a broken connection.
Stop(a) ==
    /\ requests[a].pc # "idle"
    /\ Answer(a, NoReply)
    /\ UNCHANGED <<recordState, worldState, historyState, trail>>

\* An operator suspends or reactivates the provider.
SwitchLifecycle ==
    /\ switches < MaxSwitches /\ switches' = switches + 1
    /\ writable' = ~writable
    /\ UNCHANGED <<requests, lastAnswer, sends, scimRoute, recordState, historyState, trail>>

Age ==
    /\ idem # NoRecord /\ idem.age < 2
    /\ idem' = [idem EXCEPT !.age = @ + 1]
    /\ UNCHANGED <<requests, lastAnswer, claims, worldState, historyState, trail>>

PurgeExpiredIdempotencyKeys ==
    /\ DeleteExpiredIdempotencyKeys
    /\ idem' = NoRecord /\ excuses' = excuses + 1
    /\ UNCHANGED <<requests, lastAnswer, claims, worldState, effects, trail>>

GateInit ==
    /\ requests = [a \in Connections |-> Disconnected] /\ lastAnswer = NoReply /\ sends = 0
    /\ idem = NoRecord /\ claims = 0
    /\ writable \in BOOLEAN /\ switches = 0 /\ scimRoute \in BOOLEAN
    /\ effects = 0 /\ excuses = 0

GateNext ==
    \/ SwitchLifecycle \/ Age \/ PurgeExpiredIdempotencyKeys
    \/ \E a \in Connections :
          \/ Unauthenticated(a) \/ tenantGuard(a) \/ environmentHeaderMiddleware(a)
          \/ RateLimited(a) \/ ScimWriteGuard(a) \/ Authenticate(a) \/ FailOpen(a)
          \/ getIdempotencyKey(a) \/ claimIdempotencyKey(a)
          \/ replayIdempotency(a) \/ lifecycleWriteGuard(a) \/ Refuse(a) \/ ServeHTTP(a)
          \/ FailHandler(a) \/ recoverMiddleware(a) \/ idempotencyMiddleware(a) \/ Stop(a)

GateSpec == GateInit /\ trail = {} /\ [][GateNext]_gateVars

-----------------------------------------------------------------------------
(* Properties *)

\* The operation takes effect once, plus at most once for each event that
\* gives up the protection: a record swept, a claim dropped after a 5xx that
\* had already committed, or a run after a failed lookup or claim.  No
\* interleaving of concurrent or retried requests adds another
\* (idempotency.go: "protecting against duplicate billing"), and a success is
\* only ever reported, or replayed, for an operation that took effect.
DuplicatesHaveACause == effects <= 1 + excuses /\ (lastAnswer = "2xx" => effects > 0)

\* A record left in progress, by a panic, a stopped server or a failed settle,
\* answers 409 to every retry; it is swept at the latest two TTLs later.
ClaimsEnd == idem.status = "in_progress" ~> idem.status # "in_progress"
=============================================================================
