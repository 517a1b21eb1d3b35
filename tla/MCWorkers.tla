------------------------------ MODULE MCWorkers ------------------------------
(***************************************************************************)
(* The background workers on a small instance.  A behaviour picks one      *)
(* focus and keeps it, so the state spaces add up instead of multiplying:  *)
(*   breaker    a breaker with one user, or shared by two that may panic;  *)
(*   relay      two relays on one usage event;                             *)
(*   batch      one relay on batches of a usage event, a garbled one and   *)
(*              an internal one;                                           *)
(*   webhooks   two workers, one endpoint and one event, a fault or crash; *)
(*   chain      two writers and two retention sweepers on the audit log;   *)
(*   archive    one writer and two archivers.                              *)
(***************************************************************************)
EXTENDS OutboxRelay, WebhookWorker, AuditChain, CircuitBreaker

CONSTANTS c1, c2, r1, r2, k1, k2, p1, e1, w1, w2, u1, u2, a1, a2

VARIABLE focus

MCMatches == Endpoints \X HookEvents

Foci == {"breaker", "relay", "batch", "webhooks", "chain", "archive"}

MCInit ==
    /\ Init /\ WebhookInit /\ AuditInit /\ BreakerInit
    /\ focus \in Foci
    /\ \/ users = {c1} /\ ~panics /\ focus = "breaker"
       \/ users = Callers /\ panics

Focused(f, states) == focus = f /\ UNCHANGED states

\* Two relays on one usage event, or one relay on batches; one crash or one
\* failed mark.
OneEvent == (\A e \in Events \ {1} : status[e] = "absent") /\ crashes + faults <= 1
OneRelay == claimed[r2] = {} /\ breaker[r2] = NewBreaker /\ crashes + faults <= 1

MCNext ==
    /\ \/ Focused("breaker", <<vars, webhookVars, auditVars>>) /\ BreakerNext
       \/ Focused("relay", <<breakerVars, webhookVars, auditVars>>) /\ Next /\ OneEvent'
       \/ Focused("batch", <<breakerVars, webhookVars, auditVars>>) /\ Next /\ OneRelay'
       \/ /\ Focused("webhooks", <<breakerVars, vars, auditVars>>)
          /\ WebhookNext /\ deliveryFaults' + workerCrashes' <= 1
       \/ /\ Focused("chain", <<breakerVars, vars, webhookVars, archiving>>)
          /\ AuditNext
       \/ /\ Focused("archive", <<breakerVars, vars, webhookVars, purging>>)
          /\ AuditNext /\ start'[w2] = 0
    /\ UNCHANGED focus

MCvars == <<breakerVars, vars, webhookVars, auditVars, focus>>

\* The fairness of each component, asked of it when it is in focus.
Polls(r) == focus = "relay" \/ (focus = "batch" /\ r = r1)

MCSpec ==
    /\ MCInit /\ [][MCNext]_MCvars
    /\ WF_breakerVars(focus = "breaker" /\ Cool /\ UNCHANGED usage)
    /\ \A c \in Callers :
          WF_breakerVars(/\ focus = "breaker" /\ c \in users /\ UNCHANGED usage
                         /\ BeginCall(c) \/ Step(c) \/ Return(c))
    /\ \A r \in Relays :
          /\ WF_vars(Polls(r) /\ Drain(r))
          /\ WF_vars(Polls(r) /\ BreakerCools(r))
    /\ \A e \in Events : WF_vars(focus \in {"relay", "batch"} /\ Elapse(e))
    /\ \A w \in Workers :
          /\ SF_webhookVars(focus = "webhooks" /\ Scan(w))
          /\ SF_webhookVars(focus = "webhooks" /\ ClaimDeliveries(w))
          /\ WF_webhookVars(focus = "webhooks" /\ Create(w))
          /\ WF_webhookVars(focus = "webhooks" /\ Send(w))
    /\ \A d \in Matches : WF_webhookVars(focus = "webhooks" /\ DeliveryElapse(d))
    /\ WF_webhookVars(focus = "webhooks" /\ Reactivate)
    /\ \A a \in Archivers : WF_auditVars(focus = "archive" /\ Sweep(a))
=============================================================================
