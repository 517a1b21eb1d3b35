------------------------------ MODULE Commerce ------------------------------
(***************************************************************************)
(* Usage, invoices, entitlements and reconciliation of one environment.    *)
(*                                                                         *)
(* A usage request reads the fences in transactions of their own, then     *)
(* reads and inserts in one transaction that locks nothing, so it has a    *)
(* step for each; a request slot serves one request and keeps its reply.   *)
(* An invoice synchronisation works on the list it fetched, one            *)
(* transaction per invoice.  The billing engine is the external function   *)
(* `lago': a draft collects fees, is finalized, paid or voided.            *)
(***************************************************************************)
EXTENDS Catalog

CONSTANTS TxIds, Payloads,      \* transaction ids; payload hashes
          UsageRequests, SyncRequests,
          Invoices,             \* lago ids
          InvoiceCustomer,      \* external_customer_id of each invoice
          InvoiceSubscription,  \* external_subscription_id, or "none"
          MaxFenceMoves         \* bound: times a fence is raised or lowered

VARIABLES usage,        \* usage_events, by transaction id
          urq,          \* usage requests and their replies
          lago,         \* external: the invoices of the billing engine
          invoices,     \* invoices with their lines
          srq,          \* invoice synchronisations
          overrides,    \* entitlement_overrides: live, expired or absent
          snapshots,    \* the latest entitlement snapshot of each subscription
          cutoverLock, cellDraining, fenceMoves,
          recon         \* reconciliation_results of the latest run

ledgerState == <<usage, urq, lago, invoices, srq, overrides, snapshots,
                 cutoverLock, cellDraining, fenceMoves, recon>>

NoEvent == [kind |-> "none"]
NoInvoice == [status |-> "none"]
Stale == [at |-> "none"]
Replies == {"accepted", "duplicate", "conflict", "error", "reversed", "refused"}
Final(inv) == inv.status \in {"finalized", "voided"}

-----------------------------------------------------------------------------
(* Fences *)

\* HasActiveCutoverLock and the status of the provider's cell, each read in
\* its own transaction before the one that writes.
CheckCutoverLock == ~cutoverLock
CheckCellDraining == ~cellDraining

\* A migration job takes or releases the lock; a cell starts or stops draining.
MoveFence ==
    /\ fenceMoves < MaxFenceMoves /\ fenceMoves' = fenceMoves + 1
    /\ \/ cutoverLock' = ~cutoverLock /\ UNCHANGED cellDraining
       \/ cellDraining' = ~cellDraining /\ UNCHANGED cutoverLock
    /\ UNCHANGED <<usage, urq, lago, invoices, srq, overrides, snapshots, recon, trail>>

-----------------------------------------------------------------------------
(* Usage *)

GetUsageEventByTransactionID(t) == usage[t]
GetReversalForUsageEvent(t) == {r \in TxIds : usage[r].kind = "reversal" /\ usage[r].reverses = t}
GetMetricByVersionAndCode(v, m) == m \in content[v].metrics
\* EXISTS over the stored invoice lines.
CheckUsageInvoiced(t) == \E i \in Invoices : invoices[i] # NoInvoice /\ t \in invoices[i].lines

\* Both unique indexes: one row per transaction id, one reversal per original.
InsertUsageEvent(t, event) ==
    /\ usage[t] = NoEvent
    /\ event.kind = "reversal" => GetReversalForUsageEvent(event.reverses) = {}
    /\ usage' = [usage EXCEPT ![t] = event]

\* Timestamps are accepted from the late window up to the future skew.
InWindow(when) == when = "inWindow"

UsageStep(q, next) ==
    /\ urq' = [urq EXCEPT ![q] = next]
    /\ UNCHANGED <<lago, invoices, srq, overrides, snapshots, cutoverLock, cellDraining, fenceMoves, recon>>

Reply(q, r) == UsageStep(q, [urq[q] EXCEPT !.at = "done", !.reply = r])

\* IngestUsage up to its first fence ...
IngestFenced(q, t, h, x, m) ==
    /\ urq[q].at = "none"
    /\ CheckCutoverLock
    /\ UsageStep(q, [at |-> "fenced", tx |-> t, hash |-> h, customer |-> x, metric |-> m,
                     reply |-> "none"])
    /\ UNCHANGED <<usage, trail>>

\* ... and the second, in the next transaction: a draining cell refuses.
IngestDraining(q) ==
    /\ urq[q].at = "fenced"
    /\ IF CheckCellDraining THEN UsageStep(q, [urq[q] EXCEPT !.at = "ingest"])
                            ELSE Reply(q, "refused")
    /\ UNCHANGED <<usage, trail>>

\* Mutant: the hash of the stored payload is not compared.
IngestReadsAnyHash(q) ==
    LET r == urq[q] IN
    IF r.at = "ingest" /\ usage[r.tx] # NoEvent
    THEN Reply(q, "duplicate") /\ UNCHANGED <<usage, trail>>
    ELSE r.at = "ingest" /\ \E s \in GetActiveSubscriptionByCustomer(r.customer) :
           /\ UsageStep(q, [at |-> "insert", tx |-> r.tx, hash |-> r.hash, sub |-> s, reply |-> "none"])
           /\ UNCHANGED <<usage, trail>>

\* The transaction's reads: a known id is a duplicate or a conflict, an unknown
\* one needs an active subscription whose pinned version has the metric.
IngestReads(q) ==
    LET r == urq[q]
        existing == GetUsageEventByTransactionID(r.tx)
        active == GetActiveSubscriptionByCustomer(r.customer) IN
    /\ r.at = "ingest"
    /\ UNCHANGED <<usage, trail>>
    /\ \/ existing # NoEvent /\ existing.hash = r.hash /\ Reply(q, "duplicate")
       \/ existing # NoEvent /\ existing.hash # r.hash /\ UsageStep(q, [r EXCEPT !.at = "conflict"])
       \/ /\ existing = NoEvent
          /\ \/ /\ ~GetCustomerByExternalID(r.customer) \/ active = {}
                /\ Reply(q, "refused")
             \/ \E s \in active :
                   IF GetMetricByVersionAndCode(subs[s].version, r.metric)
                   THEN UsageStep(q, [at |-> "insert", tx |-> r.tx, hash |-> r.hash,
                                      sub |-> s, reply |-> "none"])
                   ELSE Reply(q, "refused")

\* A conflict is audited in a transaction of its own, whose failure is only
\* logged, and then reported.
ConflictAudit(q) ==
    /\ urq[q].at = "conflict"
    /\ Reply(q, "conflict")
    /\ AppendRows(insertAuditTx("usage.conflict", urq[q].tx)) \/ UNCHANGED trail
    /\ UNCHANGED usage

\* The insert commits, or loses to a row that committed since: the statement
\* aborts the transaction, whose commit then fails.
IngestUsage(q) ==
    LET r == urq[q]
        event == [kind |-> "ingestion", hash |-> r.hash, sub |-> r.sub] IN
    /\ r.at = "insert"
    /\ \/ /\ InsertUsageEvent(r.tx, event)
          /\ AppendRows(emitOutboxWithTxIDTx("usage.accepted", r.tx)
                    \cup insertAuditTx("usage.accepted", r.tx))
          /\ Reply(q, "accepted")
       \/ usage[r.tx] # NoEvent /\ Reply(q, "error") /\ UNCHANGED <<usage, trail>>

\* ReverseUsage up to its checks: an ingestion, not reversed, not invoiced.
ReverseReads(q, t, r) ==
    /\ urq[q].at = "none"
    /\ UNCHANGED <<usage, trail>>
    /\ LET ok == /\ usage[t].kind = "ingestion"
                 /\ GetReversalForUsageEvent(t) = {}
                 /\ ~CheckUsageInvoiced(t)
       IN UsageStep(q, IF ok THEN [at |-> "reverse", tx |-> r, of |-> t, reply |-> "none"]
                       ELSE [at |-> "done", tx |-> r, of |-> t, reply |-> "refused"])

\* The reversal row, under the unique index on what it reverses.
ReverseUsage(q) ==
    LET r == urq[q]
        event == [kind |-> "reversal", reverses |-> r.of, hash |-> r.tx, sub |-> usage[r.of].sub] IN
    /\ r.at = "reverse"
    /\ \/ /\ InsertUsageEvent(r.tx, event)
          /\ AppendRows(emitOutboxWithTxIDTx("usage.reversed", r.tx)
                    \cup insertAuditTx("usage.reversed", r.tx))
          /\ Reply(q, "reversed")
       \/ /\ usage[r.tx] # NoEvent \/ GetReversalForUsageEvent(r.of) # {}
          /\ Reply(q, "error") /\ UNCHANGED <<usage, trail>>

-----------------------------------------------------------------------------
(* Invoices *)

\* External: the billing engine.  A fee is billed for usage it was told of.
EngineStep ==
    /\ \E i \in Invoices :
        \/ /\ lago[i].status = "draft"
           /\ \E t \in TxIds : /\ Happened("usage.accepted", t)
                               /\ \A j \in Invoices : t \notin lago[j].fees
                               /\ lago' = [lago EXCEPT ![i].fees = @ \cup {t}]
        \/ lago[i].status = "draft" /\ lago' = [lago EXCEPT ![i].status = "finalized"]
        \/ lago[i].status = "finalized" /\ lago' = [lago EXCEPT ![i].status = "voided"]
        \/ ~lago[i].paid /\ lago' = [lago EXCEPT ![i].paid = TRUE]
    /\ UNCHANGED <<usage, urq, invoices, srq, overrides, snapshots,
                   cutoverLock, cellDraining, fenceMoves, recon, trail>>

SyncStep(q, next) ==
    /\ srq' = [srq EXCEPT ![q] = next]
    /\ UNCHANGED <<usage, urq, lago, overrides, snapshots, cutoverLock, cellDraining, fenceMoves, recon>>

\* SyncInvoices: the fence, then the list of the billing engine.
SyncInvoices(q) ==
    /\ srq[q] = Stale
    /\ CheckCellDraining
    /\ SyncStep(q, [at |-> "listed", list |-> lago, todo |-> Invoices])
    /\ UNCHANGED <<invoices, trail>>

GetInvoiceStatusByLagoID(i) == invoices[i].status
GetSubscriptionByExternalID(s) == s # "none" /\ subs[s] # NoSub

\* syncOneInvoice's reads: another tenant's customer and a final invoice are skipped.
syncOneInvoice(q, i) ==
    LET r == srq[q] IN
    /\ r.at = "listed" /\ i \in r.todo
    /\ SyncStep(q, IF ~GetCustomerByExternalID(InvoiceCustomer[i]) \/ Final(invoices[i])
                   THEN [r EXCEPT !.todo = @ \ {i}]
                   ELSE [at |-> "upsert", id |-> i, list |-> r.list, todo |-> r.todo \ {i}])
    /\ UNCHANGED <<invoices, trail>>

\* Mutant: the trigger does not guard a final invoice.
NoGuard(i, row) == TRUE

\* invoices_finalized_guard: a final invoice keeps its status and amounts, or
\* the upsert fails; voided_at is the time of the write, so a voided invoice
\* cannot be written again at all.
InvoicesFinalizedGuard(i, row) ==
    Final(invoices[i]) => /\ row.status = invoices[i].status /\ row.status # "voided"
                          /\ row.total = invoices[i].total
                          /\ row.sub = invoices[i].sub

UpsertInvoice(i, row) ==
    /\ InvoicesFinalizedGuard(i, row)
    /\ invoices' = [invoices EXCEPT ![i] = row]

\* DeleteInvoiceLinesByInvoice and InsertInvoiceLine, for an invoice that is
\* not final after the upsert; otherwise the lines stay as they are.
RebuildLines(i, status, fees) ==
    IF status \notin {"finalized", "voided"} THEN fees
    ELSE IF invoices[i] = NoInvoice THEN {} ELSE invoices[i].lines

\* An invoice that is already stored keeps its subscription and version: they
\* are not in the DO UPDATE SET.
SyncUpsert(q) ==
    LET r == srq[q]
        i == r.id
        inv == r.list[i]
        s == InvoiceSubscription[i]
        known == invoices[i] # NoInvoice
        pinned == GetSubscriptionByExternalID(s)
        row == [status |-> inv.status, total |-> Cardinality(inv.fees), paid |-> inv.paid,
                sub |-> IF known THEN invoices[i].sub ELSE IF pinned THEN s ELSE "none",
                version |-> IF known THEN invoices[i].version
                            ELSE IF pinned THEN subs[s].version ELSE 0,
                lines |-> RebuildLines(i, inv.status, inv.fees)] IN
    /\ r.at = "upsert"
    /\ \/ /\ UpsertInvoice(i, row)
          /\ AppendRows(emitOutboxTx("invoice.synced", i) \cup insertAuditTx("invoice.sync", i))
          /\ SyncStep(q, IF r.todo = {} THEN Stale
                         ELSE [at |-> "listed", list |-> r.list, todo |-> r.todo])
       \/ /\ ~InvoicesFinalizedGuard(i, row)
          /\ SyncStep(q, Stale) /\ UNCHANGED <<invoices, trail>>

\* Every invoice of the page is done.
SyncDone(q) ==
    srq[q].at = "listed" /\ srq[q].todo = {} /\ SyncStep(q, Stale) /\ UNCHANGED <<invoices, trail>>

-----------------------------------------------------------------------------
(* Entitlements *)

ValidValueType(t) == t \in {"boolean", "numeric", "period"}

EntitlementStep == UNCHANGED <<usage, urq, lago, invoices, srq, cutoverLock, cellDraining, fenceMoves, recon>>

UpsertEntitlementOverride(s, k, type) ==
    /\ subs[s] # NoSub /\ ValidValueType(type)
    /\ overrides[s][k] # "live"
    /\ overrides' = [overrides EXCEPT ![s][k] = "live"]
    /\ AppendRows(emitOutboxTx("subscription.override_set", s)
              \cup insertAuditTx("subscription.override_set", s))
    /\ EntitlementStep /\ UNCHANGED snapshots

DeleteEntitlementOverride(s, k) ==
    /\ overrides[s][k] # "absent"
    /\ overrides' = [overrides EXCEPT ![s][k] = "absent"]
    /\ AppendRows(emitOutboxTx("subscription.override_deleted", s)
              \cup insertAuditTx("subscription.override_deleted", s))
    /\ EntitlementStep /\ UNCHANGED snapshots

\* expires_at passes; a snapshot grows older than a day.
TimePasses ==
    /\ \/ \E s \in SubscriptionIds, k \in GrantKeys :
             /\ overrides[s][k] = "live"
             /\ overrides' = [overrides EXCEPT ![s][k] = "expired"] /\ UNCHANGED snapshots
       \/ \E s \in SubscriptionIds :
             /\ snapshots[s].fresh
             /\ snapshots' = [snapshots EXCEPT ![s].fresh = FALSE] /\ UNCHANGED overrides
    /\ EntitlementStep /\ UNCHANGED trail

ListGrantsByPlan(v, p) == content[v].plans[p].grants
ListOverridesBySubscription(s) == {k \in GrantKeys : overrides[s][k] # "absent"}

\* EvaluateEntitlements: per key, a live override wins over the plan's grant.
EvaluateEntitlements(grants, ovr) ==
    LET live == {k \in DOMAIN ovr : ovr[k] = "live"} IN
    [k \in grants \cup live |-> IF k \in live THEN "override" ELSE "plan"]

\* GetEntitlementSnapshot persists what it computes.  The grants of a pinned
\* plan do not change, so the read of the overrides decides: one step.
GetEntitlementSnapshot(x) ==
    \E s \in GetActiveSubscriptionByCustomer(x) :
        /\ GetCustomerByExternalID(x)
        /\ snapshots' = [snapshots EXCEPT ![s] =
               [fresh |-> TRUE,
                keys |-> EvaluateEntitlements(ListGrantsByPlan(subs[s].version, subs[s].plan),
                             [k \in ListOverridesBySubscription(s) |-> overrides[s][k]])]]
        /\ AppendRows(emitOutboxTx("entitlement.snapshot_computed", s))
        /\ EntitlementStep /\ UNCHANGED overrides

-----------------------------------------------------------------------------
(* Reconciliation *)

CountActiveSubsWithoutSnapshot ==
    Cardinality({s \in SubscriptionIds : subs[s].status = "active" /\ ~snapshots[s].fresh})
CountInvoicesWithoutCatalogVersion ==
    Cardinality({i \in Invoices : invoices[i] # NoInvoice /\ invoices[i].sub # "none"
                                  /\ invoices[i].version = 0})
CountOrphanedUsageEvents ==
    Cardinality({t \in TxIds : usage[t] # NoEvent /\ subs[usage[t].sub].customer \notin customers})
\* The inner JOIN has no row for an invoice without lines.
CountInvoiceLinesTotalMismatch ==
    Cardinality({i \in Invoices : /\ Final(invoices[i]) /\ invoices[i].lines # {}
                                  /\ Cardinality(invoices[i].lines) # invoices[i].total})
CountUnpaidFinalizedOverdue ==
    Cardinality({i \in Invoices : invoices[i].status = "finalized" /\ ~invoices[i].paid})

\* RunReconciliation: the checks over this state that the outbox does not
\* decide.  storeReconciliationResult writes one row per check.
RunReconciliation ==
    /\ recon' = [subscription_snapshot_freshness |-> CountActiveSubsWithoutSnapshot,
                 invoice_catalog_traceability |-> CountInvoicesWithoutCatalogVersion,
                 usage_event_orphans |-> CountOrphanedUsageEvents,
                 invoice_lines_total_match |-> CountInvoiceLinesTotalMismatch,
                 unpaid_finalized_overdue |-> CountUnpaidFinalizedOverdue]
    /\ UNCHANGED <<usage, urq, lago, invoices, srq, overrides, snapshots,
                   cutoverLock, cellDraining, fenceMoves, trail>>

-----------------------------------------------------------------------------
(* Handlers *)

ingestUsage(q) ==
    \E t \in TxIds, h \in Payloads, x \in ExternalIds, m \in Metrics, when \in {"inWindow", "late"} :
        InWindow(when) /\ IngestFenced(q, t, h, x, m)
reverseUsage(q) == \E t, r \in TxIds : ReverseReads(q, t, r)
syncInvoices(q) == SyncInvoices(q)
upsertEntitlementOverride ==
    \E s \in SubscriptionIds, k \in GrantKeys : UpsertEntitlementOverride(s, k, "boolean")
deleteEntitlementOverride == \E s \in SubscriptionIds, k \in GrantKeys : DeleteEntitlementOverride(s, k)
getEntitlementSnapshot == \E x \in ExternalIds : GetEntitlementSnapshot(x)

LedgerInit ==
    /\ usage = [t \in TxIds |-> NoEvent]
    /\ urq = [q \in UsageRequests |-> [at |-> "none", reply |-> "none"]]
    /\ lago = [i \in Invoices |-> [status |-> "draft", fees |-> {}, paid |-> FALSE]]
    /\ invoices = [i \in Invoices |-> NoInvoice]
    /\ srq = [q \in SyncRequests |-> Stale]
    /\ overrides = [s \in SubscriptionIds |-> [k \in GrantKeys |-> "absent"]]
    /\ snapshots = [s \in SubscriptionIds |-> [fresh |-> FALSE]]
    /\ cutoverLock = FALSE /\ cellDraining = FALSE /\ fenceMoves = 0
    /\ recon = [run |-> "none"]

UsageNext ==
    \E q \in UsageRequests :
        \/ ingestUsage(q) \/ IngestDraining(q) \/ IngestReads(q) \/ ConflictAudit(q) \/ IngestUsage(q)
        \/ reverseUsage(q) \/ ReverseUsage(q)

InvoiceNext ==
    \/ \E q \in SyncRequests :
          syncInvoices(q) \/ (\E i \in Invoices : syncOneInvoice(q, i)) \/ SyncUpsert(q) \/ SyncDone(q)
    \/ EngineStep

EntitlementNext ==
    upsertEntitlementOverride \/ deleteEntitlementOverride \/ getEntitlementSnapshot
        \/ TimePasses \/ RunReconciliation

\* The environment as a whole: catalog, subscriptions and customers with the
\* ledger, invoices and entitlements that refer to them.
CommerceInit == CatalogInit /\ LedgerInit

CommerceNext ==
    \/ CatalogNext /\ UNCHANGED ledgerState
    \/ createCustomer /\ UNCHANGED <<catalogState, subs, ledgerState>>
    \/ /\ MoveFence \/ UsageNext \/ InvoiceNext \/ EntitlementNext
       /\ UNCHANGED <<catalogState, subs, customers>>

commerceVars == <<catalogState, subs, customers, trail, ledgerState>>

CommerceSpec == CommerceInit /\ [][CommerceNext]_commerceVars

-----------------------------------------------------------------------------
(* Properties *)

\* What the reply of a request says of the ledger.
ReplyHolds(r) ==
    /\ r.reply = "accepted" => usage[r.tx].kind = "ingestion" /\ usage[r.tx].hash = r.hash
    /\ r.reply = "reversed" => usage[r.tx].kind = "reversal" /\ usage[r.tx].reverses = r.of
    /\ r.reply = "duplicate" => usage[r.tx] # NoEvent /\ usage[r.tx].hash = r.hash
    /\ r.reply = "conflict" => usage[r.tx] # NoEvent /\ usage[r.tx].hash # r.hash
    /\ r.reply = "error" =>
          usage[r.tx] # NoEvent \/ ("of" \in DOMAIN r /\ GetReversalForUsageEvent(r.of) # {})

\* The requests that were told that they wrote the row t.
ToldWritten(t) == {q \in UsageRequests : urq[q].reply \in {"accepted", "reversed"} /\ urq[q].tx = t}

\* Every reply is true of the ledger from then on, although a retry may race with
\* the first attempt between its read and its insert, and a reversal with both:
\* exactly one request is told that it wrote a row, and the row is what it asked
\* for; a duplicate has the stored payload and a conflict another; a loser that
\* is told of an error (not of the duplicate that IngestUsage means to report)
\* has lost to a row of another request.
RepliesMatchLedger ==
    /\ \A q \in UsageRequests : ReplyHolds(urq[q])
    /\ \A t \in TxIds : usage[t] # NoEvent => \E q \in UsageRequests : ToldWritten(t) = {q}

\* Once stored as finalized or voided, an invoice keeps its status, amounts,
\* subscription and lines, whatever older list another synchronisation holds.
FinalizedFrozen ==
    [][\A i \in Invoices : Final(invoices[i]) =>
          /\ invoices'[i].status = invoices[i].status
          /\ invoices'[i].total = invoices[i].total
          /\ invoices'[i].sub = invoices[i].sub
          /\ invoices'[i].lines = invoices[i].lines]_invoices

=============================================================================
