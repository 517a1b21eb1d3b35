----------------------------- MODULE WebhookWorker -----------------------------
(***************************************************************************)
(* internal/webhook/worker.go with db/queries/webhooks.sql: the webhook    *)
(* deliveries of one provider.  A worker of each API process turns         *)
(* published outbox events into one delivery per matching endpoint, claims *)
(* due deliveries under a 60 s lease, posts them with no lock held and     *)
(* marks each outcome in a transaction of its own, with no guard on the    *)
(* row's status or on the lease.                                           *)
(*                                                                         *)
(* A lease may end while its worker is still at work (50 posts of up to    *)
(* 10 s each are made under one lease).  The per-endpoint breaker may deny *)
(* any post; which ones is the subject of CircuitBreaker.                  *)
(***************************************************************************)
EXTENDS Integers, FiniteSets

CONSTANTS
    Workers,              \* worker goroutines, one in each API process
    Endpoints,            \* webhook endpoints the provider may register
    HookEvents,           \* outbox events of the provider
    Matches,              \* <<endpoint, event>>: the endpoint's filter takes the event
    MaxDeliveryAttempts,  \* Worker.maxAttempts
    MaxDeliveryFaults,    \* bound: transactions that fail
    MaxWorkerCrashes,     \* bound: process crashes
    MaxReplays,           \* bound: operator replays
    MaxSuspensions,       \* bound: suspensions of the provider
    NoDelivery

ASSUME SetsAssumption ==
    IsFiniteSet(Workers) /\ IsFiniteSet(Endpoints) /\ IsFiniteSet(HookEvents)
ASSUME MatchesAssumption ==
    Matches \subseteq Endpoints \X HookEvents /\ NoDelivery \notin Matches
ASSUME DeliveryAttemptsAssumption == MaxDeliveryAttempts \in Nat \ {0}
ASSUME DeliveryBoundsAssumption ==
    {MaxDeliveryFaults, MaxWorkerCrashes, MaxReplays, MaxSuspensions} \subseteq Nat

VARIABLES
    event,           \* outbox_events: "absent", "published", "purged"
    endpoints,       \* webhook_endpoints: the registered ones
    provider,        \* "operational", or "suspended" (SUSPENDED, OFFBOARDING)
    deliveryStatus,  \* webhook_deliveries.status, or "none"
    tries,           \* webhook_deliveries.attempts, counted up to MaxDeliveryAttempts
    dueDeliveries,   \* deliveries with next_attempt_at NULL or in the past
    scanned,         \* events of a worker's scan it has not handled yet
    planned,         \* deliveries a worker is about to create
    batch,           \* deliveries of a worker's batch not finished yet
    triesRead,       \* attempts as the claim returned them
    inHand,          \* the delivery a worker is about to mark
    verdict,         \* what it is about to mark: "none", "ok", "failed"
    lost,            \* workers whose current delivery was purged: its id is gone
    received,        \* history: deliveries an endpoint answered with 2xx
    replayed,        \* history: deliveries replayed by an operator
    deliveryFaults, workerCrashes, replays, suspensions

tenant == <<event, endpoints, provider>>
deliveryRows == <<deliveryStatus, tries, dueDeliveries>>
creating == <<scanned, planned>>
sending == <<batch, triesRead, inHand, verdict, lost>>
history == <<received, replayed>>
bounds == <<deliveryFaults, workerCrashes, replays, suspensions>>
webhookVars == <<event, endpoints, provider, deliveryStatus, tries, dueDeliveries, scanned, planned,
                 batch, triesRead, inHand, verdict, lost, received, replayed,
                 deliveryFaults, workerCrashes, replays, suspensions>>

Terminal == {"delivered", "dead_letter"}

WebhookTypeOK ==
    /\ event \in [HookEvents -> {"absent", "published", "purged"}]
    /\ endpoints \in SUBSET Endpoints
    /\ provider \in {"operational", "suspended"}
    /\ deliveryStatus \in [Matches -> Terminal \cup {"none", "pending", "failed"}]
    /\ tries \in [Matches -> 0 .. MaxDeliveryAttempts]
    /\ dueDeliveries \in SUBSET Matches
    /\ scanned \in [Workers -> SUBSET HookEvents]
    /\ planned \in [Workers -> SUBSET Matches]
    /\ batch \in [Workers -> SUBSET Matches]
    /\ triesRead \in [Workers -> [Matches -> 0 .. MaxDeliveryAttempts]]
    /\ inHand \in [Workers -> Matches \cup {NoDelivery}]
    /\ verdict \in [Workers -> {"none", "ok", "failed"}]
    /\ lost \in SUBSET Workers
    /\ received \in SUBSET Matches
    /\ replayed \in SUBSET Matches
    /\ deliveryFaults \in Nat /\ workerCrashes \in Nat /\ replays \in Nat /\ suspensions \in Nat

WebhookInit ==
    /\ event = [e \in HookEvents |-> "absent"]
    /\ endpoints = {}
    /\ provider = "operational"
    /\ deliveryStatus = [d \in Matches |-> "none"]
    /\ tries = [d \in Matches |-> 0]
    /\ dueDeliveries = Matches
    /\ scanned = [w \in Workers |-> {}]
    /\ planned = [w \in Workers |-> {}]
    /\ batch = [w \in Workers |-> {}]
    /\ triesRead = [w \in Workers |-> [d \in Matches |-> 0]]
    /\ inHand = [w \in Workers |-> NoDelivery]
    /\ verdict = [w \in Workers |-> "none"]
    /\ lost = {}
    /\ received = {}
    /\ replayed = {}
    /\ deliveryFaults = 0 /\ workerCrashes = 0 /\ replays = 0 /\ suspensions = 0

-------------------------------------------------------------------------------
(* The provider, its endpoints and events *)

\* The outbox relay publishes an event.
Publish(e) ==
    /\ event[e] = "absent"
    /\ event' = [event EXCEPT ![e] = "published"]
    /\ UNCHANGED <<endpoints, provider, deliveryRows, creating, sending, history, bounds>>

\* The endpoint gets an id of its own: no worker plans a delivery to it yet.
CreateWebhookEndpoint(p) ==
    /\ p \notin endpoints
    /\ \A w \in Workers : \A d \in planned[w] : d[1] # p
    /\ endpoints' = endpoints \cup {p}
    /\ UNCHANGED <<event, provider, deliveryRows, creating, sending, history, bounds>>

\* DeleteWebhookEndpoint: a delivery that refers to the endpoint (foreign key,
\* no cascade) makes it fail.
DeleteWebhookEndpoint(p) ==
    /\ p \in endpoints
    /\ \A d \in Matches : d[1] = p => deliveryStatus[d] = "none"
    /\ endpoints' = endpoints \ {p}
    /\ UNCHANGED <<event, provider, deliveryRows, creating, sending, history, bounds>>

Suspend ==
    /\ provider = "operational"
    /\ suspensions < MaxSuspensions
    /\ suspensions' = suspensions + 1
    /\ provider' = "suspended"
    /\ UNCHANGED <<event, endpoints, deliveryRows, creating, sending, history, deliveryFaults,
                   workerCrashes, replays>>

Reactivate ==
    /\ provider = "suspended"
    /\ provider' = "operational"
    /\ UNCHANGED <<event, endpoints, deliveryRows, creating, sending, history, bounds>>

\* A lease or a backoff ends.
DeliveryElapse(d) ==
    /\ d \notin dueDeliveries
    /\ dueDeliveries' = dueDeliveries \cup {d}
    /\ UNCHANGED <<tenant, deliveryStatus, tries, creating, sending, history, bounds>>

\* PurgeExpiredWebhookDeliveries, for an event past the retention age: the
\* terminal ones among its deliveries that are old enough too, and the event.
\* A delivery created again later has a new id, which a late mark does not name.
PurgeWebhookDeliveries(e) ==
    /\ event[e] = "published"
    /\ \E old \in SUBSET {d \in Matches : d[2] = e /\ deliveryStatus[d] \in Terminal} :
          /\ deliveryStatus' = [d \in Matches |-> IF d \in old THEN "none" ELSE deliveryStatus[d]]
          /\ tries' = [d \in Matches |-> IF d \in old THEN 0 ELSE tries[d]]
          /\ dueDeliveries' = dueDeliveries \cup old
          /\ lost' = lost \cup {w \in Workers : inHand[w] \in old}
    /\ event' = [event EXCEPT ![e] = "purged"]
    /\ UNCHANGED <<endpoints, provider, creating, batch, triesRead, inHand, verdict,
                   history, bounds>>

\* ReplayWebhookDeliveryByProvider: a failed or dead-lettered delivery, also one
\* a worker has claimed again, starts over.
Replay(d) ==
    /\ replays < MaxReplays
    /\ deliveryStatus[d] \in {"dead_letter", "failed"}
    /\ replays' = replays + 1
    /\ replayed' = replayed \cup {d}
    /\ deliveryStatus' = [deliveryStatus EXCEPT ![d] = "pending"]
    /\ tries' = [tries EXCEPT ![d] = 0]
    /\ dueDeliveries' = dueDeliveries \cup {d}
    /\ UNCHANGED <<tenant, creating, sending, received, deliveryFaults, workerCrashes, suspensions>>

-------------------------------------------------------------------------------
(* DrainOnce, first half: createDeliveries *)

AtWork(w) == scanned[w] # {} \/ planned[w] # {} \/ batch[w] # {}

\* FindUndeliveredOutboxEvents: published events without any delivery.
Undelivered ==
    {e \in HookEvents : event[e] = "published" /\ \A d \in Matches : d[2] = e => deliveryStatus[d] = "none"}

\* Mutant: the claim never takes a failed delivery again.
MutClaimableDeliveries ==
    {d \in dueDeliveries : deliveryStatus[d] = "pending" /\ provider = "operational"}

ClaimableDeliveries ==
    {d \in dueDeliveries : deliveryStatus[d] \in {"pending", "failed"} /\ provider = "operational"}

Scan(w) ==
    /\ ~ AtWork(w)
    /\ Undelivered # {}
    /\ scanned' = [scanned EXCEPT ![w] = Undelivered]
    /\ UNCHANGED <<tenant, deliveryRows, planned, sending, history, bounds>>

\* A cycle that finds nothing to do: the worker waits for the next tick.
WorkerPollEmpty(w) ==
    /\ ~ AtWork(w)
    /\ Undelivered = {} /\ ClaimableDeliveries = {}
    /\ UNCHANGED webhookVars

\* ListEnabledWebhooksByTenant for the next event, and the filter.
ListEndpoints(w, e) ==
    /\ planned[w] = {}
    /\ e \in scanned[w]
    /\ scanned' = [scanned EXCEPT ![w] = @ \ {e}]
    /\ planned' = [planned EXCEPT ![w] = {d \in Matches : d[2] = e /\ d[1] \in endpoints}]
    /\ UNCHANGED <<tenant, deliveryRows, sending, history, bounds>>

\* The query fails: logged, the next event.
ListFault(w, e) ==
    /\ deliveryFaults < MaxDeliveryFaults
    /\ deliveryFaults' = deliveryFaults + 1
    /\ planned[w] = {}
    /\ e \in scanned[w]
    /\ scanned' = [scanned EXCEPT ![w] = @ \ {e}]
    /\ UNCHANGED <<tenant, deliveryRows, planned, sending, history, workerCrashes, replays, suspensions>>

\* createDelivery: ON CONFLICT DO NOTHING; fails for a deleted endpoint.
CreateDelivery(w, d) ==
    /\ d \in planned[w]
    /\ planned' = [planned EXCEPT ![w] = @ \ {d}]
    /\ deliveryStatus' = [deliveryStatus EXCEPT ![d] =
                    IF @ = "none" /\ d[1] \in endpoints THEN "pending" ELSE @]
    /\ UNCHANGED <<tenant, tries, dueDeliveries, scanned, sending, history, bounds>>

\* The insert fails: logged, the next endpoint.
CreateFault(w, d) ==
    /\ deliveryFaults < MaxDeliveryFaults
    /\ deliveryFaults' = deliveryFaults + 1
    /\ d \in planned[w]
    /\ planned' = [planned EXCEPT ![w] = @ \ {d}]
    /\ UNCHANGED <<tenant, deliveryRows, scanned, sending, history, workerCrashes, replays, suspensions>>

-------------------------------------------------------------------------------
(* DrainOnce, second half: deliverPending *)

OneMore(n) == IF n < MaxDeliveryAttempts THEN n + 1 ELSE n

\* ClaimPendingWebhookDeliveries: lease the due deliveries and count the attempt;
\* rows that another worker is marking may be skipped.
ClaimDeliveries(w) ==
    /\ ~ AtWork(w)
    /\ \E D \in (SUBSET ClaimableDeliveries) \ {{}} :
          /\ \A d \in ClaimableDeliveries \ D : \E v \in Workers \ {w} : inHand[v] = d
          /\ batch' = [batch EXCEPT ![w] = D]
          /\ dueDeliveries' = dueDeliveries \ D
          /\ tries' = [d \in Matches |->
                            IF d \in D THEN OneMore(tries[d]) ELSE tries[d]]
          /\ triesRead' = [triesRead EXCEPT ![w] =
                        [d \in Matches |-> IF d \in D THEN OneMore(tries[d]) ELSE 0]]
    /\ UNCHANGED <<tenant, deliveryStatus, creating, inHand, verdict, lost, history, bounds>>

\* The worker goes on with a delivery of its batch.
DeliveryTurn(w, d) ==
    /\ d \in batch[w]
    /\ inHand[w] = NoDelivery

FinishDelivery(w, d) ==
    /\ batch' = [batch EXCEPT ![w] = @ \ {d}]
    /\ triesRead' = [triesRead EXCEPT ![w][d] = 0]
    /\ inHand' = [inHand EXCEPT ![w] = NoDelivery]
    /\ verdict' = [verdict EXCEPT ![w] = "none"]
    /\ lost' = lost \ {w}

\* loadDeliveryContext fails, because the event is purged or the query fails:
\* logged, the delivery keeps its lease and will be claimed again.
LoadError(w, d) ==
    /\ DeliveryTurn(w, d)
    /\ \/ d[1] \in endpoints /\ event[d[2]] = "purged" /\ UNCHANGED deliveryFaults
       \/ deliveryFaults < MaxDeliveryFaults /\ deliveryFaults' = deliveryFaults + 1
    /\ FinishDelivery(w, d)
    /\ UNCHANGED <<tenant, deliveryRows, creating, history, workerCrashes, replays, suspensions>>

\* The endpoint is gone, which takes a lease that ended: by the foreign key the
\* delivery is gone too, and the UPDATE that dead-letters it finds no row.
EndpointGone(w, d) ==
    /\ DeliveryTurn(w, d)
    /\ d[1] \notin endpoints
    /\ FinishDelivery(w, d)
    /\ UNCHANGED <<tenant, deliveryRows, creating, history, bounds>>

TakeDelivery(w, d, result) ==
    /\ DeliveryTurn(w, d)
    /\ d[1] \in endpoints /\ event[d[2]] = "published"
    /\ inHand' = [inHand EXCEPT ![w] = d]
    /\ verdict' = [verdict EXCEPT ![w] = result]

\* deliver: the endpoint answers 2xx.
Post(w, d) ==
    /\ TakeDelivery(w, d, "ok")
    /\ received' = received \cup {d}
    /\ UNCHANGED <<tenant, deliveryRows, creating, batch, triesRead, lost, replayed, bounds>>

\* Mutant: an answer other than 5xx counts as delivered.
MutPostFails(w, d) ==
    /\ \E result \in {"ok", "failed"} : TakeDelivery(w, d, result)
    /\ UNCHANGED <<tenant, deliveryRows, creating, batch, triesRead, lost, history, bounds>>

\* The breaker denies, the URL is refused, the request fails, or the answer is
\* not 2xx; a 2xx answer may get lost on the way.
PostFails(w, d) ==
    /\ TakeDelivery(w, d, "failed")
    /\ received' \in {received, received \cup {d}}
    /\ UNCHANGED <<tenant, deliveryRows, creating, batch, triesRead, lost, replayed, bounds>>

\* An UPDATE ... WHERE id = $1 on the current delivery, if it is still there.
UpdateDelivery(w, st, dueAfter) ==
    IF w \in lost THEN UNCHANGED deliveryRows
    ELSE /\ deliveryStatus' = [deliveryStatus EXCEPT ![inHand[w]] = st]
         /\ dueDeliveries' = dueAfter
         /\ UNCHANGED tries

\* MarkWebhookDelivered
MarkDelivered(w) ==
    /\ verdict[w] = "ok"
    /\ UpdateDelivery(w, "delivered", dueDeliveries)
    /\ FinishDelivery(w, inHand[w])
    /\ UNCHANGED <<tenant, creating, history, bounds>>

\* handleFailure decides on the attempts the claim returned.
Spent(w) == triesRead[w][inHand[w]] >= MaxDeliveryAttempts

\* MarkWebhookRetry: back off.
MarkWebhookRetry(w) ==
    /\ verdict[w] = "failed" /\ ~ Spent(w)
    /\ UpdateDelivery(w, "failed", dueDeliveries \ {inHand[w]})
    /\ FinishDelivery(w, inHand[w])
    /\ UNCHANGED <<tenant, creating, history, bounds>>

\* MarkWebhookDeadLetter
MarkWebhookDeadLetter(w) ==
    /\ verdict[w] = "failed" /\ Spent(w)
    /\ UpdateDelivery(w, "dead_letter", dueDeliveries \cup {inHand[w]})
    /\ FinishDelivery(w, inHand[w])
    /\ UNCHANGED <<tenant, creating, history, bounds>>

\* The mark fails: logged, the delivery keeps its lease.
MarkWebhookFault(w) ==
    /\ verdict[w] # "none"
    /\ deliveryFaults < MaxDeliveryFaults
    /\ deliveryFaults' = deliveryFaults + 1
    /\ FinishDelivery(w, inHand[w])
    /\ UNCHANGED <<tenant, deliveryRows, creating, history, workerCrashes, replays, suspensions>>

\* The process dies with its plans and claims, and restarts.
WorkerCrash(w) ==
    /\ AtWork(w)
    /\ workerCrashes < MaxWorkerCrashes
    /\ workerCrashes' = workerCrashes + 1
    /\ scanned' = [scanned EXCEPT ![w] = {}]
    /\ planned' = [planned EXCEPT ![w] = {}]
    /\ batch' = [batch EXCEPT ![w] = {}]
    /\ triesRead' = [triesRead EXCEPT ![w] = [d \in Matches |-> 0]]
    /\ inHand' = [inHand EXCEPT ![w] = NoDelivery]
    /\ verdict' = [verdict EXCEPT ![w] = "none"]
    /\ lost' = lost \ {w}
    /\ UNCHANGED <<tenant, deliveryRows, history, deliveryFaults, replays, suspensions>>

-------------------------------------------------------------------------------
Create(w) ==
    \/ \E e \in HookEvents : ListEndpoints(w, e) \/ ListFault(w, e)
    \/ \E d \in Matches : CreateDelivery(w, d) \/ CreateFault(w, d)

Send(w) ==
    \/ \E d \in Matches :
          LoadError(w, d) \/ EndpointGone(w, d) \/ Post(w, d) \/ PostFails(w, d)
    \/ MarkDelivered(w) \/ MarkWebhookRetry(w) \/ MarkWebhookDeadLetter(w) \/ MarkWebhookFault(w)

WebhookNext ==
    \/ \E e \in HookEvents : Publish(e) \/ PurgeWebhookDeliveries(e)
    \/ \E p \in Endpoints : CreateWebhookEndpoint(p) \/ DeleteWebhookEndpoint(p)
    \/ Suspend \/ Reactivate
    \/ \E d \in Matches : DeliveryElapse(d) \/ Replay(d)
    \/ \E w \in Workers :
          \/ Scan(w) \/ ClaimDeliveries(w) \/ WorkerPollEmpty(w)
          \/ Create(w) \/ Send(w)
          \/ WorkerCrash(w)

WebhookSpec == WebhookInit /\ [][WebhookNext]_webhookVars

(* Run polls on a ticker, scanning and then claiming in every cycle; posts *)
(* time out; leases and backoffs end; a suspension is lifted.              *)
WebhookFairness ==
    /\ \A w \in Workers :
          /\ SF_webhookVars(Scan(w)) /\ SF_webhookVars(ClaimDeliveries(w))
          /\ WF_webhookVars(Create(w)) /\ WF_webhookVars(Send(w))
    /\ \A d \in Matches : WF_webhookVars(DeliveryElapse(d))
    /\ WF_webhookVars(Reactivate)

WebhookFairSpec == WebhookSpec /\ WebhookFairness

-------------------------------------------------------------------------------
(* Properties *)

\* A delivery is marked delivered only if its endpoint has answered 2xx to that
\* event: not by a late worker, a replay, or a row made anew after a purge.
DeliveredWasReceived == \A d \in Matches : deliveryStatus[d] = "delivered" => d \in received

\* A delivery nobody replayed is given up only when its own counter has reached
\* the ceiling, although handleFailure decides on the claim's copy.
WebhookSpentAttempts ==
    \A d \in Matches \ replayed : deliveryStatus[d] = "dead_letter" => tries[d] >= MaxDeliveryAttempts

\* A delivery whose event is kept is eventually delivered or dead-lettered (or
\* swept), through leases that end early, failed marks, crashes and suspensions.
DeliveriesSettle ==
    \A d \in Matches :
        []<>(deliveryStatus[d] \in Terminal \cup {"none"} \/ event[d[2]] = "purged")
===============================================================================
