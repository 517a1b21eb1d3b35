-------------------------- MODULE WebhookWorkerProofs --------------------------
(* Theorems about WebhookWorker, for any number of workers, endpoints and  *)
(* events, any filter, any ceiling on attempts and any bounds.             *)
EXTENDS WebhookWorker, TLAPS

USE MatchesAssumption

\* A worker that is about to mark a delivery still has it in its batch; the
\* delivery's row is there unless a purge took it, and a mark as delivered
\* follows a 2xx answer.
MarkInv ==
    \A w \in Workers :
        /\ verdict[w] = "none" <=> inHand[w] = NoDelivery
        /\ inHand[w] # NoDelivery => inHand[w] \in batch[w]
        /\ verdict[w] = "ok" => inHand[w] \in received

\* The claim's copy of the attempts never runs ahead of the row it was made from:
\* for a delivery that may still be posted, and for one that is being marked.
CopyInv ==
    \A w \in Workers : \A d \in Matches \ replayed :
        /\ inHand[w] = d /\ w \notin lost => triesRead[w][d] <= tries[d]
        /\ d \in batch[w] /\ event[d[2]] # "purged" => triesRead[w][d] <= tries[d]

-------------------------------------------------------------------------------
(* Types *)

\* The helpers that end a worker's turn keep the types of what they write.
LEMMA FinishTypes ==
    ASSUME WebhookTypeOK, NEW w \in Workers, NEW d \in Matches, FinishDelivery(w, d)
    PROVE  /\ batch' \in [Workers -> SUBSET Matches]
           /\ triesRead' \in [Workers -> [Matches -> 0 .. MaxDeliveryAttempts]]
           /\ inHand' \in [Workers -> Matches \cup {NoDelivery}]
           /\ verdict' \in [Workers -> {"none", "ok", "failed"}]
           /\ lost' \in SUBSET Workers
<1> DEFINE mine == [triesRead[w] EXCEPT ![d] = 0]
<1>1. mine \in [Matches -> 0 .. MaxDeliveryAttempts]
  BY DeliveryAttemptsAssumption DEF WebhookTypeOK
<1>2. triesRead' = [triesRead EXCEPT ![w] = mine]
  BY DEF FinishDelivery
<1> HIDE DEF mine
<1>3. triesRead' \in [Workers -> [Matches -> 0 .. MaxDeliveryAttempts]]
  BY <1>1, <1>2 DEF WebhookTypeOK
<1>4. QED
  BY <1>3 DEF FinishDelivery, WebhookTypeOK

\* One attempt more stays within the ceiling.
LEMMA OneMoreType ==
    ASSUME NEW n \in 0 .. MaxDeliveryAttempts
    PROVE  OneMore(n) \in 0 .. MaxDeliveryAttempts /\ n <= OneMore(n)
  BY DeliveryAttemptsAssumption DEF OneMore

\* A mark names a delivery.
LEMMA CurrentType ==
    ASSUME WebhookTypeOK, MarkInv, NEW w \in Workers, verdict[w] # "none"
    PROVE  inHand[w] \in Matches
  BY DEF WebhookTypeOK, MarkInv

\* Every step keeps the types.
LEMMA TypeStep == WebhookTypeOK /\ MarkInv /\ [WebhookNext]_webhookVars => WebhookTypeOK'
<1> SUFFICES ASSUME WebhookTypeOK, MarkInv, [WebhookNext]_webhookVars PROVE WebhookTypeOK'
  OBVIOUS
<1> USE DEF tenant, deliveryRows, creating, sending, history, bounds, Terminal
<1>1. ASSUME NEW e \in HookEvents, Publish(e) \/ PurgeWebhookDeliveries(e)
      PROVE  WebhookTypeOK'
  <2>1. CASE Publish(e)
    BY <2>1 DEF Publish, WebhookTypeOK
  <2>2. CASE PurgeWebhookDeliveries(e)
    <3>1. PICK old \in SUBSET Matches :
            /\ deliveryStatus' = [d \in Matches |-> IF d \in old THEN "none" ELSE deliveryStatus[d]]
            /\ tries' = [d \in Matches |-> IF d \in old THEN 0 ELSE tries[d]]
            /\ dueDeliveries' = dueDeliveries \cup old
            /\ lost' = lost \cup {w \in Workers : inHand[w] \in old}
      BY <2>2 DEF PurgeWebhookDeliveries
    <3>2. tries' \in [Matches -> 0 .. MaxDeliveryAttempts]
      BY <3>1, DeliveryAttemptsAssumption DEF WebhookTypeOK
    <3>3. /\ deliveryStatus' \in [Matches -> Terminal \cup {"none", "pending", "failed"}]
          /\ dueDeliveries' \in SUBSET Matches /\ lost' \in SUBSET Workers
      BY <3>1 DEF WebhookTypeOK
    <3>4. QED
      BY <2>2, <3>2, <3>3 DEF PurgeWebhookDeliveries, WebhookTypeOK
  <2>3. QED
    BY <1>1, <2>1, <2>2
<1>2. ASSUME NEW p \in Endpoints, CreateWebhookEndpoint(p) \/ DeleteWebhookEndpoint(p)
      PROVE  WebhookTypeOK'
  BY <1>2 DEF CreateWebhookEndpoint, DeleteWebhookEndpoint, WebhookTypeOK
<1>3. CASE Suspend \/ Reactivate
  BY <1>3 DEF Suspend, Reactivate, WebhookTypeOK
<1>4. ASSUME NEW d \in Matches, DeliveryElapse(d) \/ Replay(d)
      PROVE  WebhookTypeOK'
  BY <1>4, DeliveryAttemptsAssumption DEF DeliveryElapse, Replay, WebhookTypeOK
<1>5. ASSUME NEW w \in Workers, Scan(w)
      PROVE  WebhookTypeOK'
  <2>1. Undelivered \in SUBSET HookEvents
    BY DEF Undelivered
  <2>2. QED
    BY <1>5, <2>1 DEF Scan, WebhookTypeOK
<1>6. ASSUME NEW w \in Workers, ClaimDeliveries(w)
      PROVE  WebhookTypeOK'
  <2>1. PICK D \in SUBSET Matches :
          /\ batch' = [batch EXCEPT ![w] = D]
          /\ dueDeliveries' = dueDeliveries \ D
          /\ tries' = [d \in Matches |->
                            IF d \in D THEN OneMore(tries[d]) ELSE tries[d]]
          /\ triesRead' = [triesRead EXCEPT ![w] =
                        [d \in Matches |-> IF d \in D THEN OneMore(tries[d]) ELSE 0]]
    BY <1>6 DEF ClaimDeliveries, ClaimableDeliveries, WebhookTypeOK
  <2>2. \A d \in Matches : OneMore(tries[d]) \in 0 .. MaxDeliveryAttempts
    BY OneMoreType DEF WebhookTypeOK
  <2>3. tries' \in [Matches -> 0 .. MaxDeliveryAttempts]
    BY <2>1, <2>2 DEF WebhookTypeOK
  <2> DEFINE copy == [d \in Matches |-> IF d \in D THEN OneMore(tries[d]) ELSE 0]
  <2>4. copy \in [Matches -> 0 .. MaxDeliveryAttempts]
    BY <2>2, DeliveryAttemptsAssumption
  <2>5. triesRead' = [triesRead EXCEPT ![w] = copy]
    BY <2>1
  <2> HIDE DEF copy
  <2>6. triesRead' \in [Workers -> [Matches -> 0 .. MaxDeliveryAttempts]]
    BY <2>4, <2>5 DEF WebhookTypeOK
  <2>7. QED
    BY <1>6, <2>1, <2>3, <2>6 DEF ClaimDeliveries, WebhookTypeOK
<1>7. ASSUME NEW w \in Workers, Create(w)
      PROVE  WebhookTypeOK'
  <2>1. ASSUME NEW e \in HookEvents, ListEndpoints(w, e) \/ ListFault(w, e)
        PROVE  WebhookTypeOK'
    <3>1. CASE ListEndpoints(w, e)
      <4>1. {d \in Matches : d[2] = e /\ d[1] \in endpoints} \in SUBSET Matches
        OBVIOUS
      <4>2. scanned' \in [Workers -> SUBSET HookEvents] /\ planned' \in [Workers -> SUBSET Matches]
        BY <3>1, <4>1 DEF ListEndpoints, WebhookTypeOK
      <4>3. QED
        BY <3>1, <4>2 DEF ListEndpoints, WebhookTypeOK
    <3>2. CASE ListFault(w, e)
      <4>1. scanned' \in [Workers -> SUBSET HookEvents] /\ deliveryFaults' \in Nat
        BY <3>2 DEF ListFault, WebhookTypeOK
      <4>2. QED
        BY <3>2, <4>1 DEF ListFault, WebhookTypeOK
    <3>3. QED
      BY <2>1, <3>1, <3>2
  <2>2. ASSUME NEW d \in Matches, CreateDelivery(w, d) \/ CreateFault(w, d)
        PROVE  WebhookTypeOK'
    <3>1. planned' \in [Workers -> SUBSET Matches]
      BY <2>2 DEF CreateDelivery, CreateFault, WebhookTypeOK
    <3>2. CASE CreateDelivery(w, d)
      BY <3>1, <3>2 DEF CreateDelivery, WebhookTypeOK
    <3>3. CASE CreateFault(w, d)
      BY <3>1, <3>3 DEF CreateFault, WebhookTypeOK
    <3>4. QED
      BY <2>2, <3>2, <3>3
  <2>3. QED
    BY <1>7, <2>1, <2>2 DEF Create
<1>8. ASSUME NEW w \in Workers, Send(w)
      PROVE  WebhookTypeOK'
  <2>1. ASSUME NEW d \in Matches, LoadError(w, d) \/ EndpointGone(w, d)
        PROVE  WebhookTypeOK'
    <3>1. /\ FinishDelivery(w, d) /\ deliveryFaults' \in Nat
          /\ UNCHANGED <<tenant, deliveryRows, creating, history, workerCrashes, replays, suspensions>>
      BY <2>1 DEF LoadError, EndpointGone, WebhookTypeOK
    <3>2. QED
      BY <3>1, FinishTypes DEF WebhookTypeOK
  <2>2. ASSUME NEW d \in Matches, Post(w, d) \/ PostFails(w, d)
        PROVE  WebhookTypeOK'
    <3>1. /\ received' \in SUBSET Matches
          /\ \E result \in {"ok", "failed"} : TakeDelivery(w, d, result)
      BY <2>2 DEF Post, PostFails, WebhookTypeOK
    <3>2. UNCHANGED <<tenant, deliveryRows, creating, batch, triesRead, lost, replayed, bounds>>
      BY <2>2 DEF Post, PostFails
    <3>3. /\ inHand' \in [Workers -> Matches \cup {NoDelivery}]
          /\ verdict' \in [Workers -> {"none", "ok", "failed"}]
      BY <3>1 DEF TakeDelivery, WebhookTypeOK
    <3>4. QED
      BY <3>1, <3>2, <3>3 DEF WebhookTypeOK
  <2>3. CASE MarkDelivered(w) \/ MarkWebhookRetry(w) \/ MarkWebhookDeadLetter(w)
    <3>1. inHand[w] \in Matches
      BY <2>3, CurrentType DEF MarkDelivered, MarkWebhookRetry, MarkWebhookDeadLetter
    <3>2. FinishDelivery(w, inHand[w])
      BY <2>3 DEF MarkDelivered, MarkWebhookRetry, MarkWebhookDeadLetter
    <3>3. QED
      <4>1. PICK st \in {"delivered", "failed", "dead_letter"}, dueAfter \in SUBSET Matches :
              UpdateDelivery(w, st, dueAfter)
        BY <2>3, <3>1 DEF MarkDelivered, MarkWebhookRetry, MarkWebhookDeadLetter, WebhookTypeOK
      <4>2. /\ deliveryStatus' \in [Matches -> Terminal \cup {"none", "pending", "failed"}]
            /\ dueDeliveries' \in SUBSET Matches /\ tries' = tries
        BY <3>1, <4>1 DEF UpdateDelivery, WebhookTypeOK
      <4>3. UNCHANGED <<tenant, creating, history, bounds>>
        BY <2>3 DEF MarkDelivered, MarkWebhookRetry, MarkWebhookDeadLetter
      <4>4. QED
        BY <3>1, <3>2, <4>2, <4>3, FinishTypes DEF WebhookTypeOK
  <2>4. CASE MarkWebhookFault(w)
    BY <2>4, CurrentType, FinishTypes DEF MarkWebhookFault, WebhookTypeOK
  <2>5. QED
    BY <1>8, <2>1, <2>2, <2>3, <2>4 DEF Send
<1>9. ASSUME NEW w \in Workers, WorkerCrash(w)
      PROVE  WebhookTypeOK'
  <2> DEFINE zero == [d \in Matches |-> 0]
  <2>1. zero \in [Matches -> 0 .. MaxDeliveryAttempts] /\ triesRead' = [triesRead EXCEPT ![w] = zero]
    BY <1>9, DeliveryAttemptsAssumption DEF WorkerCrash
  <2> HIDE DEF zero
  <2>2. triesRead' \in [Workers -> [Matches -> 0 .. MaxDeliveryAttempts]]
    BY <2>1 DEF WebhookTypeOK
  <2>3. QED
    BY <1>9, <2>2 DEF WorkerCrash, WebhookTypeOK
<1>10. CASE UNCHANGED webhookVars
  BY <1>10 DEF webhookVars, WebhookTypeOK
<1>11. QED
  BY <1>1, <1>2, <1>3, <1>4, <1>5, <1>6, <1>7, <1>8, <1>9, <1>10 DEF WebhookNext, WorkerPollEmpty

-------------------------------------------------------------------------------
(* What a worker is about to mark *)

\* A step that leaves the batches alone and forgets no answer.
LEMMA MarkKept ==
    ASSUME MarkInv, UNCHANGED <<batch, inHand, verdict>>, received \subseteq received'
    PROVE  MarkInv'
  BY DEF MarkInv

\* A finished turn leaves the other workers' turns alone.
LEMMA MarkFinished ==
    ASSUME WebhookTypeOK, MarkInv, NEW w \in Workers, NEW d \in Matches, FinishDelivery(w, d),
           received' = received
    PROVE  MarkInv'
  BY DEF WebhookTypeOK, MarkInv, FinishDelivery

\* Every step keeps it.
LEMMA MarkStep == WebhookTypeOK /\ MarkInv /\ [WebhookNext]_webhookVars => MarkInv'
<1> SUFFICES ASSUME WebhookTypeOK, MarkInv, [WebhookNext]_webhookVars PROVE MarkInv'
  OBVIOUS
<1> USE DEF tenant, deliveryRows, creating, sending, history, bounds
<1>1. ASSUME NEW e \in HookEvents, Publish(e) \/ PurgeWebhookDeliveries(e)
      PROVE  MarkInv'
  BY <1>1, MarkKept DEF Publish, PurgeWebhookDeliveries
<1>2. ASSUME NEW p \in Endpoints, CreateWebhookEndpoint(p) \/ DeleteWebhookEndpoint(p)
      PROVE  MarkInv'
  BY <1>2, MarkKept DEF CreateWebhookEndpoint, DeleteWebhookEndpoint
<1>3. CASE Suspend \/ Reactivate
  BY <1>3, MarkKept DEF Suspend, Reactivate
<1>4. ASSUME NEW d \in Matches, DeliveryElapse(d) \/ Replay(d)
      PROVE  MarkInv'
  BY <1>4, MarkKept DEF DeliveryElapse, Replay
<1>5. ASSUME NEW w \in Workers, Scan(w) \/ Create(w)
      PROVE  MarkInv'
  BY <1>5, MarkKept
  DEF Scan, Create, ListEndpoints, ListFault, CreateDelivery, CreateFault
<1>6. ASSUME NEW w \in Workers, ClaimDeliveries(w)
      PROVE  MarkInv'
  <2>1. inHand[w] = NoDelivery
    BY <1>6 DEF ClaimDeliveries, AtWork, MarkInv
  <2>2. /\ UNCHANGED <<inHand, verdict, received>>
        /\ \A v \in Workers : v # w => batch'[v] = batch[v]
    BY <1>6 DEF ClaimDeliveries, WebhookTypeOK
  <2>3. QED
    BY <2>1, <2>2 DEF MarkInv
<1>7. ASSUME NEW w \in Workers, Send(w)
      PROVE  MarkInv'
  <2>1. ASSUME NEW d \in Matches, LoadError(w, d) \/ EndpointGone(w, d)
        PROVE  MarkInv'
    BY <2>1, MarkFinished DEF LoadError, EndpointGone
  <2>2. ASSUME NEW d \in Matches, Post(w, d) \/ PostFails(w, d)
        PROVE  MarkInv'
    <3>1. PICK result \in {"ok", "failed"} :
            TakeDelivery(w, d, result) /\ (result = "ok" => d \in received')
      BY <2>2 DEF Post, PostFails
    <3>2. received \subseteq received' /\ batch' = batch
      BY <2>2 DEF Post, PostFails
    <3>3. d # NoDelivery /\ d \in batch[w]
      BY <3>1 DEF TakeDelivery, DeliveryTurn
    <3>4. /\ inHand'[w] = d /\ verdict'[w] = result
          /\ \A v \in Workers : v # w => inHand'[v] = inHand[v] /\ verdict'[v] = verdict[v]
      BY <3>1 DEF TakeDelivery, WebhookTypeOK
    <3>5. QED
      BY <3>1, <3>2, <3>3, <3>4 DEF MarkInv
  <2>3. CASE MarkDelivered(w) \/ MarkWebhookRetry(w) \/ MarkWebhookDeadLetter(w) \/ MarkWebhookFault(w)
    <3>1. inHand[w] \in Matches
      BY <2>3, CurrentType DEF MarkDelivered, MarkWebhookRetry, MarkWebhookDeadLetter, MarkWebhookFault
    <3>2. FinishDelivery(w, inHand[w]) /\ received' = received
      BY <2>3 DEF MarkDelivered, MarkWebhookRetry, MarkWebhookDeadLetter, MarkWebhookFault
    <3>3. QED
      BY <3>1, <3>2, MarkFinished
  <2>4. QED
    BY <1>7, <2>1, <2>2, <2>3 DEF Send
<1>8. ASSUME NEW w \in Workers, WorkerCrash(w)
      PROVE  MarkInv'
  BY <1>8 DEF WorkerCrash, WebhookTypeOK, MarkInv
<1>9. CASE UNCHANGED webhookVars
  BY <1>9, MarkKept DEF webhookVars
<1>10. QED
  BY <1>1, <1>2, <1>3, <1>4, <1>5, <1>6, <1>7, <1>8, <1>9 DEF WebhookNext, WorkerPollEmpty

-------------------------------------------------------------------------------
(* Deliveries marked delivered *)

\* Rows change status to delivered only by a mark, and no answer is forgotten.
LEMMA DeliveredStep ==
    WebhookTypeOK /\ MarkInv /\ DeliveredWasReceived /\ [WebhookNext]_webhookVars => DeliveredWasReceived'
<1> SUFFICES ASSUME WebhookTypeOK, MarkInv, DeliveredWasReceived, [WebhookNext]_webhookVars
             PROVE  DeliveredWasReceived'
  OBVIOUS
<1> USE DEF tenant, deliveryRows, creating, sending, history, bounds
<1>1. received \subseteq received'
  BY DEF WebhookNext, Publish, PurgeWebhookDeliveries, CreateWebhookEndpoint, DeleteWebhookEndpoint, Suspend,
      Reactivate, DeliveryElapse, Replay, Scan, ClaimDeliveries, WorkerPollEmpty, Create, ListEndpoints,
      ListFault, CreateDelivery, CreateFault, Send, LoadError, EndpointGone, Post,
      PostFails, MarkDelivered, MarkWebhookRetry, MarkWebhookDeadLetter, MarkWebhookFault, WorkerCrash, webhookVars
<1>2. ASSUME deliveryStatus' = deliveryStatus
      PROVE  DeliveredWasReceived'
  BY <1>1, <1>2 DEF DeliveredWasReceived
<1>3. ASSUME NEW e \in HookEvents, PurgeWebhookDeliveries(e)
      PROVE  DeliveredWasReceived'
  BY <1>1, <1>3 DEF PurgeWebhookDeliveries, DeliveredWasReceived
<1>4. ASSUME NEW d \in Matches, NEW st, st # "delivered",
             deliveryStatus' = [deliveryStatus EXCEPT ![d] = st]
      PROVE  DeliveredWasReceived'
  BY <1>1, <1>4 DEF DeliveredWasReceived, WebhookTypeOK
<1>5. ASSUME NEW w \in Workers, NEW d \in Matches, CreateDelivery(w, d)
      PROVE  DeliveredWasReceived'
  BY <1>1, <1>5 DEF CreateDelivery, DeliveredWasReceived, WebhookTypeOK
<1>6. ASSUME NEW w \in Workers, MarkDelivered(w)
      PROVE  DeliveredWasReceived'
  <2>1. inHand[w] \in Matches /\ inHand[w] \in received
    BY <1>6, CurrentType DEF MarkDelivered, MarkInv
  <2>2. \A d \in Matches : d # inHand[w] => deliveryStatus'[d] = deliveryStatus[d]
    BY <1>6, <2>1 DEF MarkDelivered, UpdateDelivery, WebhookTypeOK
  <2>3. QED
    BY <1>1, <2>1, <2>2 DEF DeliveredWasReceived
<1>7. ASSUME NEW w \in Workers, MarkWebhookRetry(w) \/ MarkWebhookDeadLetter(w)
      PROVE  DeliveredWasReceived'
  <2>1. inHand[w] \in Matches
    BY <1>7, CurrentType DEF MarkWebhookRetry, MarkWebhookDeadLetter
  <2>2. QED
    BY <1>2, <1>4, <1>7, <2>1 DEF MarkWebhookRetry, MarkWebhookDeadLetter, UpdateDelivery
<1>8. QED
  BY <1>2, <1>3, <1>4, <1>5, <1>6, <1>7
  DEF WebhookNext, Publish, CreateWebhookEndpoint, DeleteWebhookEndpoint, Suspend, Reactivate,
      DeliveryElapse, Replay, Scan, ClaimDeliveries, WorkerPollEmpty, Create, ListEndpoints, ListFault,
      CreateFault, Send, LoadError, EndpointGone, Post, PostFails, MarkWebhookFault, WorkerCrash, webhookVars

-------------------------------------------------------------------------------
(* The claim's copy of the attempts, and deliveries given up *)

\* A step that touches no batch and takes no attempt back keeps the copies valid.
LEMMA CopyKept ==
    ASSUME WebhookTypeOK, WebhookTypeOK', CopyInv, UNCHANGED <<batch, inHand, triesRead>>,
           lost \subseteq lost', replayed \subseteq replayed',
           \A d \in Matches : event[d[2]] = "purged" => event'[d[2]] = "purged",
           \A d \in Matches \ replayed' : tries[d] <= tries'[d]
    PROVE  CopyInv'
<1> SUFFICES ASSUME NEW w \in Workers, NEW d \in Matches \ replayed'
             PROVE  /\ inHand[w] = d /\ w \notin lost' => triesRead[w][d] <= tries'[d]
                    /\ d \in batch[w] /\ event'[d[2]] # "purged" => triesRead[w][d] <= tries'[d]
  BY DEF CopyInv
<1>1. triesRead[w][d] \in Int /\ tries[d] \in Int /\ tries'[d] \in Int
  BY DEF WebhookTypeOK
<1>2. tries[d] <= tries'[d]
  OBVIOUS
<1>3. QED
  BY <1>1, <1>2 DEF CopyInv

\* A finished turn leaves the copies of the other deliveries and workers alone.
LEMMA CopyFinished ==
    ASSUME WebhookTypeOK, MarkInv, CopyInv, NEW w \in Workers, NEW d \in Matches, FinishDelivery(w, d),
           UNCHANGED <<event, tries, replayed>>
    PROVE  CopyInv'
<1>1. /\ \A v \in Workers : v # w =>
            /\ batch'[v] = batch[v] /\ inHand'[v] = inHand[v] /\ triesRead'[v] = triesRead[v]
            /\ v \in lost' <=> v \in lost
      /\ batch'[w] = batch[w] \ {d} /\ inHand'[w] = NoDelivery
      /\ \A x \in Matches : x # d => triesRead'[w][x] = triesRead[w][x]
  BY DEF FinishDelivery, WebhookTypeOK
<1>2. QED
  BY <1>1 DEF CopyInv

\* The claim and the row it was made from move together.
LEMMA CopyStep ==
    WebhookTypeOK /\ WebhookTypeOK' /\ MarkInv /\ CopyInv /\ [WebhookNext]_webhookVars => CopyInv'
<1> SUFFICES ASSUME WebhookTypeOK, WebhookTypeOK', MarkInv, CopyInv, [WebhookNext]_webhookVars PROVE CopyInv'
  OBVIOUS
<1> USE DEF tenant, deliveryRows, creating, sending, history, bounds
<1>0. \A d \in Matches : tries[d] <= tries[d]
  BY DEF WebhookTypeOK
<1>1. ASSUME UNCHANGED <<batch, inHand, triesRead, lost, tries, event>>,
             replayed \subseteq replayed'
      PROVE  CopyInv'
  BY <1>0, <1>1, CopyKept
<1>2. ASSUME NEW e \in HookEvents, Publish(e)
      PROVE  CopyInv'
  BY <1>0, <1>2, CopyKept DEF Publish, WebhookTypeOK
<1>3. ASSUME NEW e \in HookEvents, PurgeWebhookDeliveries(e)
      PROVE  CopyInv'
  <2>1. PICK old \in SUBSET {d \in Matches : d[2] = e} :
          /\ \A d \in Matches \ old : tries'[d] = tries[d]
          /\ lost' = lost \cup {w \in Workers : inHand[w] \in old}
    BY <1>3 DEF PurgeWebhookDeliveries
  <2>2. \A d \in Matches : /\ d \in old => event'[d[2]] = "purged"
                           /\ event[d[2]] = "purged" => event'[d[2]] = "purged"
    BY <1>3, <2>1 DEF PurgeWebhookDeliveries, WebhookTypeOK
  <2>3. UNCHANGED <<batch, inHand, triesRead, replayed>>
    BY <1>3 DEF PurgeWebhookDeliveries
  <2>4. QED
    BY <2>1, <2>2, <2>3 DEF CopyInv
<1>4. ASSUME NEW d \in Matches, Replay(d)
      PROVE  CopyInv'
  <2>1. /\ UNCHANGED <<batch, inHand, triesRead, lost, event>>
        /\ replayed \subseteq replayed' /\ d \in replayed'
        /\ \A x \in Matches : x # d => tries'[x] = tries[x]
    BY <1>4 DEF Replay, WebhookTypeOK
  <2>2. QED
    BY <1>0, <2>1, CopyKept
<1>5. ASSUME NEW w \in Workers, ClaimDeliveries(w)
      PROVE  CopyInv'
  <2>1. inHand[w] = NoDelivery
    BY <1>5 DEF ClaimDeliveries, AtWork, MarkInv
  <2>2. /\ UNCHANGED <<inHand, lost, replayed, event>>
        /\ \A v \in Workers : v # w => batch'[v] = batch[v] /\ triesRead'[v] = triesRead[v]
    BY <1>5 DEF ClaimDeliveries, WebhookTypeOK
  <2>3. \A d \in Matches : /\ tries[d] <= tries'[d]
                           /\ d \in batch'[w] => triesRead'[w][d] = tries'[d]
    BY <1>5, OneMoreType DEF ClaimDeliveries, WebhookTypeOK
  <2>4. \A v \in Workers, d \in Matches :
          triesRead[v][d] \in Int /\ triesRead'[v][d] \in Int /\ tries[d] \in Int /\ tries'[d] \in Int
    BY DEF WebhookTypeOK
  <2>5. ASSUME NEW v \in Workers, NEW d \in Matches \ replayed
        PROVE  /\ inHand[v] = d /\ v \notin lost => triesRead'[v][d] <= tries'[d]
               /\ d \in batch'[v] /\ event[d[2]] # "purged" => triesRead'[v][d] <= tries'[d]
    <3>1. CASE v = w
      BY <2>1, <2>3, <2>4, <3>1
    <3>2. CASE v # w
      BY <2>2, <2>3, <2>4, <3>2 DEF CopyInv
    <3>3. QED
      BY <3>1, <3>2
  <2>6. QED
    BY <2>2, <2>5 DEF CopyInv
<1>6. ASSUME NEW w \in Workers, NEW d \in Matches, Post(w, d) \/ PostFails(w, d)
      PROVE  CopyInv'
  <2>1. \E result \in {"ok", "failed"} : TakeDelivery(w, d, result)
    BY <1>6 DEF Post, PostFails
  <2>2. /\ d \in batch[w] /\ event[d[2]] # "purged"
        /\ inHand'[w] = d /\ \A v \in Workers : v # w => inHand'[v] = inHand[v]
    BY <2>1 DEF TakeDelivery, DeliveryTurn, WebhookTypeOK
  <2>3. UNCHANGED <<event, tries, batch, triesRead, lost, replayed>>
    BY <1>6 DEF Post, PostFails
  <2>4. QED
    BY <2>2, <2>3 DEF CopyInv
<1>7. ASSUME NEW w \in Workers, NEW d \in Matches, LoadError(w, d) \/ EndpointGone(w, d)
      PROVE  CopyInv'
  BY <1>7, CopyFinished DEF LoadError, EndpointGone
<1>8. ASSUME NEW w \in Workers,
             MarkDelivered(w) \/ MarkWebhookRetry(w) \/ MarkWebhookDeadLetter(w) \/ MarkWebhookFault(w)
      PROVE  CopyInv'
  <2>1. inHand[w] \in Matches
    BY <1>8, CurrentType DEF MarkDelivered, MarkWebhookRetry, MarkWebhookDeadLetter, MarkWebhookFault
  <2>2. FinishDelivery(w, inHand[w]) /\ UNCHANGED <<event, tries, replayed>>
    BY <1>8 DEF MarkDelivered, MarkWebhookRetry, MarkWebhookDeadLetter, MarkWebhookFault, UpdateDelivery
  <2>3. QED
    BY <2>1, <2>2, CopyFinished
<1>9. ASSUME NEW w \in Workers, WorkerCrash(w)
      PROVE  CopyInv'
  <2>1. /\ UNCHANGED <<event, tries, replayed>>
        /\ batch'[w] = {} /\ inHand'[w] = NoDelivery
        /\ \A v \in Workers : v # w =>
              /\ batch'[v] = batch[v] /\ inHand'[v] = inHand[v] /\ triesRead'[v] = triesRead[v]
              /\ v \in lost' <=> v \in lost
    BY <1>9 DEF WorkerCrash, WebhookTypeOK
  <2>2. QED
    BY <2>1 DEF CopyInv
<1>10. QED
  BY <1>1, <1>2, <1>3, <1>4, <1>5, <1>6, <1>7, <1>8, <1>9
  DEF WebhookNext, CreateWebhookEndpoint, DeleteWebhookEndpoint, Suspend, Reactivate, DeliveryElapse,
      Scan, WorkerPollEmpty, Create, ListEndpoints, ListFault, CreateDelivery, CreateFault,
      Send, webhookVars

\* A row becomes dead_letter only by a mark that the row's own counter justifies.
LEMMA DeadLetterStep ==
    WebhookTypeOK /\ WebhookTypeOK' /\ MarkInv /\ CopyInv /\ WebhookSpentAttempts /\ [WebhookNext]_webhookVars =>
        WebhookSpentAttempts'
<1> SUFFICES ASSUME WebhookTypeOK, WebhookTypeOK', MarkInv, CopyInv, WebhookSpentAttempts, [WebhookNext]_webhookVars
             PROVE  WebhookSpentAttempts'
  OBVIOUS
<1> USE DEF tenant, deliveryRows, creating, sending, history, bounds
<1>1. ASSUME replayed' = replayed, tries' = tries,
             \A d \in Matches : deliveryStatus'[d] # deliveryStatus[d] => deliveryStatus'[d] # "dead_letter"
      PROVE  WebhookSpentAttempts'
  BY <1>1 DEF WebhookSpentAttempts
<1>2. ASSUME NEW e \in HookEvents, PurgeWebhookDeliveries(e)
      PROVE  WebhookSpentAttempts'
  BY <1>2 DEF PurgeWebhookDeliveries, WebhookSpentAttempts
<1>3. ASSUME NEW d \in Matches, Replay(d)
      PROVE  WebhookSpentAttempts'
  BY <1>3 DEF Replay, WebhookSpentAttempts, WebhookTypeOK
<1>4. ASSUME NEW w \in Workers, ClaimDeliveries(w)
      PROVE  WebhookSpentAttempts'
  <2>1. deliveryStatus' = deliveryStatus /\ replayed' = replayed
    BY <1>4 DEF ClaimDeliveries
  <2>2. \A d \in Matches : tries[d] <= tries'[d]
    BY <1>4, OneMoreType DEF ClaimDeliveries, WebhookTypeOK
  <2>3. \A d \in Matches : tries[d] \in Int /\ tries'[d] \in Int
    BY DEF WebhookTypeOK
  <2>4. QED
    BY <2>1, <2>2, <2>3, DeliveryAttemptsAssumption DEF WebhookSpentAttempts
<1>5. ASSUME NEW w \in Workers, NEW d \in Matches, CreateDelivery(w, d)
      PROVE  WebhookSpentAttempts'
  BY <1>1, <1>5 DEF CreateDelivery, WebhookTypeOK
<1>6. ASSUME NEW w \in Workers, MarkDelivered(w) \/ MarkWebhookRetry(w)
      PROVE  WebhookSpentAttempts'
  <2>1. inHand[w] \in Matches
    BY <1>6, CurrentType DEF MarkDelivered, MarkWebhookRetry
  <2>2. QED
    BY <1>1, <1>6, <2>1 DEF MarkDelivered, MarkWebhookRetry, UpdateDelivery, WebhookTypeOK
<1>7. ASSUME NEW w \in Workers, MarkWebhookDeadLetter(w)
      PROVE  WebhookSpentAttempts'
  <2>1. inHand[w] \in Matches
    BY <1>7, CurrentType DEF MarkWebhookDeadLetter
  <2>2. replayed' = replayed /\ tries' = tries
    BY <1>7 DEF MarkWebhookDeadLetter, UpdateDelivery
  <2>3. CASE w \in lost
    BY <1>1, <1>7, <2>2, <2>3 DEF MarkWebhookDeadLetter, UpdateDelivery
  <2>4. CASE w \notin lost
    <3>1. triesRead[w][inHand[w]] \in Int /\ tries[inHand[w]] \in Int
      BY <2>1 DEF WebhookTypeOK
    <3>2. inHand[w] \notin replayed => tries[inHand[w]] >= MaxDeliveryAttempts
      BY <1>7, <2>1, <2>4, <3>1, DeliveryAttemptsAssumption DEF MarkWebhookDeadLetter, Spent, CopyInv
    <3>3. \A d \in Matches : d # inHand[w] => deliveryStatus'[d] = deliveryStatus[d]
      BY <1>7, <2>1 DEF MarkWebhookDeadLetter, UpdateDelivery, WebhookTypeOK
    <3>4. QED
      BY <2>2, <3>2, <3>3 DEF WebhookSpentAttempts
  <2>5. QED
    BY <2>3, <2>4
<1>8. QED
  BY <1>1, <1>2, <1>3, <1>4, <1>5, <1>6, <1>7
  DEF WebhookNext, Publish, CreateWebhookEndpoint, DeleteWebhookEndpoint, Suspend, Reactivate,
      DeliveryElapse, Scan, WorkerPollEmpty, Create, ListEndpoints, ListFault, CreateFault, Send,
      LoadError, EndpointGone, Post, PostFails, MarkWebhookFault, WorkerCrash, webhookVars

-------------------------------------------------------------------------------
(* Theorems *)

\* No worker is at work and no row exists.
LEMMA WebhookInvInit ==
    WebhookInit => WebhookTypeOK /\ MarkInv /\ CopyInv /\ DeliveredWasReceived /\ WebhookSpentAttempts
  BY DeliveryAttemptsAssumption
  DEF WebhookInit, WebhookTypeOK, MarkInv, CopyInv, DeliveredWasReceived, WebhookSpentAttempts, Terminal

\* The types of the rows and of the workers' batches, and what a mark rests on.
THEOREM WebhookTypes == WebhookSpec => [](WebhookTypeOK /\ MarkInv)
  BY WebhookInvInit, TypeStep, MarkStep, PTL DEF WebhookSpec

\* worker.go deliver and MarkWebhookDelivered: whatever leases end, whatever marks
\* come late and whatever is replayed or purged, a delivery is marked delivered
\* only after its endpoint has answered 2xx.
THEOREM WebhookDelivered == WebhookSpec => []DeliveredWasReceived
  BY WebhookInvInit, WebhookTypes, DeliveredStep, PTL DEF WebhookSpec

\* worker.go handleFailure: although the decision is made on the claim's copy of
\* the attempts, a delivery that nobody replayed is given up only when the row's
\* own counter has reached the ceiling.
THEOREM WebhookDeadLetter == WebhookSpec => []WebhookSpentAttempts
<1>1. WebhookSpec => []CopyInv
  BY WebhookInvInit, WebhookTypes, CopyStep, PTL DEF WebhookSpec
<1>2. QED
  BY <1>1, WebhookInvInit, WebhookTypes, DeadLetterStep, PTL DEF WebhookSpec
===============================================================================
