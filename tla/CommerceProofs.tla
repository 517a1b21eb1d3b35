---------------------------- MODULE CommerceProofs ----------------------------
(***************************************************************************)
(* Theorems about what an environment sells and counts: its catalog,       *)
(* usage and invoices, for any number of requests, versions, plans,        *)
(* subscriptions, transaction ids and invoices; the cost of a metered      *)
(* quantity, for any tiers and prices; its hard quota, for any number      *)
(* of callers and reservations; and its SCIM directory, for patches of any *)
(* length.                                                                 *)
(***************************************************************************)
EXTENDS Commerce, Rating, QuotaLedger, Directory, TLAPS, FiniteSetTheorems,
        SequenceTheorems, WellFoundedInduction

-----------------------------------------------------------------------------
(* Invoices *)

\* The invoices are a table with one row per invoice of the billing engine.
InvoicesTable == DOMAIN invoices = Invoices /\ invoices = [i \in Invoices |-> invoices[i]]

\* Only the upsert of a synchronisation writes an invoice.
LEMMA WhatWritesInvoices ==
    ASSUME [CommerceNext]_commerceVars
    PROVE  invoices' = invoices \/ \E q \in SyncRequests : SyncUpsert(q)
<1>1. CASE UNCHANGED ledgerState
  BY <1>1 DEF ledgerState
<1>2. CASE MoveFence \/ EntitlementNext
  BY <1>2 DEF MoveFence, EntitlementNext, upsertEntitlementOverride, deleteEntitlementOverride,
     getEntitlementSnapshot, UpsertEntitlementOverride, DeleteEntitlementOverride,
     GetEntitlementSnapshot, TimePasses, RunReconciliation, EntitlementStep
<1>3. CASE UsageNext
  BY <1>3 DEF UsageNext, ingestUsage, IngestFenced, IngestDraining, IngestReads, ConflictAudit,
     IngestUsage, reverseUsage, ReverseReads, ReverseUsage, Reply, UsageStep
<1>4. CASE InvoiceNext
  BY <1>4 DEF InvoiceNext, syncInvoices, SyncInvoices, syncOneInvoice, SyncDone, EngineStep
<1>5. CASE UNCHANGED commerceVars
  BY <1>5 DEF commerceVars, ledgerState
<1>6. QED
  BY <1>1, <1>2, <1>3, <1>4, <1>5 DEF CommerceNext

\* An upsert that gets past the trigger keeps a final invoice as it is.
LEMMA UpsertKeepsFinal ==
    ASSUME InvoicesTable, NEW q \in SyncRequests, SyncUpsert(q)
    PROVE  /\ InvoicesTable'
           /\ \A i \in Invoices : Final(invoices[i]) =>
                 /\ invoices'[i].status = invoices[i].status
                 /\ invoices'[i].total = invoices[i].total
                 /\ invoices'[i].sub = invoices[i].sub
                 /\ invoices'[i].lines = invoices[i].lines
<1> DEFINE k == srq[q].id
           inv == srq[q].list[k]
           s == InvoiceSubscription[k]
           known == invoices[k] # NoInvoice
           pinned == GetSubscriptionByExternalID(s)
           row == [status |-> inv.status, total |-> Cardinality(inv.fees), paid |-> inv.paid,
                   sub |-> IF known THEN invoices[k].sub ELSE IF pinned THEN s ELSE "none",
                   version |-> IF known THEN invoices[k].version
                               ELSE IF pinned THEN subs[s].version ELSE 0,
                   lines |-> RebuildLines(k, inv.status, inv.fees)]
<1>1. CASE invoices' = invoices
  BY <1>1 DEF InvoicesTable
<1>2. CASE UpsertInvoice(k, row)
  <2>1. invoices' = [i \in Invoices |-> IF i = k THEN row ELSE invoices[i]]
    BY <1>2 DEF UpsertInvoice, InvoicesTable
  <2>2. Final(invoices[k]) => /\ row.status = invoices[k].status
                              /\ row.total = invoices[k].total /\ row.sub = invoices[k].sub
    BY <1>2 DEF UpsertInvoice, InvoicesFinalizedGuard
  <2>3. Final(invoices[k]) => row.lines = invoices[k].lines
    BY <2>2 DEF RebuildLines, Final, NoInvoice
  <2> HIDE DEF row
  <2>4. QED
    BY <2>1, <2>2, <2>3 DEF InvoicesTable
<1>3. QED
  BY <1>1, <1>2 DEF SyncUpsert

\* invoices.go syncOneInvoice and the trigger invoices_finalized_guard: whatever
\* list a synchronisation holds, a final invoice is never rewritten.
THEOREM InvoicesFrozen == CommerceSpec => FinalizedFrozen
<1>1. CommerceInit => InvoicesTable
  BY DEF CommerceInit, LedgerInit, InvoicesTable
<1>2. ASSUME InvoicesTable, [CommerceNext]_commerceVars
      PROVE  /\ InvoicesTable'
             /\ [\A i \in Invoices : Final(invoices[i]) =>
                    /\ invoices'[i].status = invoices[i].status
                    /\ invoices'[i].total = invoices[i].total
                    /\ invoices'[i].sub = invoices[i].sub
                    /\ invoices'[i].lines = invoices[i].lines]_invoices
  <2>1. CASE invoices' = invoices
    BY <1>2, <2>1 DEF InvoicesTable
  <2>2. ASSUME NEW q \in SyncRequests, SyncUpsert(q)
        PROVE  /\ InvoicesTable'
               /\ \A i \in Invoices : Final(invoices[i]) =>
                    /\ invoices'[i].status = invoices[i].status
                    /\ invoices'[i].total = invoices[i].total
                    /\ invoices'[i].sub = invoices[i].sub
                    /\ invoices'[i].lines = invoices[i].lines
    BY <1>2, <2>2, UpsertKeepsFinal
  <2>3. QED
    BY <1>2, <2>1, <2>2, WhatWritesInvoices
<1>3. QED
  BY <1>1, <1>2, PTL DEF CommerceSpec, FinalizedFrozen

-----------------------------------------------------------------------------
(* Usage *)

\* What a usage request holds, from its first read to its answer.
Idle == [at : {"none"}, reply : {"none"}]
Ingest(ats, replies) ==
    [at : ats, tx : TxIds, hash : Payloads, customer : ExternalIds, metric : Metrics, reply : replies]
Insert(ats, replies) ==
    [at : ats, tx : TxIds, hash : Payloads, sub : SubscriptionIds, reply : replies]
Reversal(ats, replies) == [at : ats, tx : TxIds, of : TxIds, reply : replies]

Open == Ingest({"fenced", "ingest", "conflict"}, {"none"})
            \cup Insert({"insert"}, {"none"}) \cup Reversal({"reverse"}, {"none"})
Answered == Ingest({"done"}, {"duplicate", "conflict", "refused"})
                \cup Insert({"done"}, {"accepted", "error"})
                \cup Reversal({"done"}, {"reversed", "error", "refused"})

UsageTyped ==
    /\ DOMAIN usage = TxIds /\ usage = [t \in TxIds |-> usage[t]]
    /\ urq \in [UsageRequests -> Idle \cup Open \cup Answered]

\* The ledger only gains rows.
LedgerGrows == \A t \in TxIds : usage[t] # NoEvent => usage'[t] = usage[t]

\* A request on its way to report a conflict has seen one.
ConflictsSeen ==
    \A q \in UsageRequests : urq[q].at = "conflict" =>
        usage[urq[q].tx] # NoEvent /\ usage[urq[q].tx].hash # urq[q].hash

UsageInv == UsageTyped /\ RepliesMatchLedger /\ ConflictsSeen

\* ReplyHolds and ConflictsSeen of a given ledger, and ToldWritten of given requests.
TrueOf(r, u) ==
    /\ r.at = "conflict" => u[r.tx] # NoEvent /\ u[r.tx].hash # r.hash
    /\ r.reply = "accepted" => u[r.tx].kind = "ingestion" /\ u[r.tx].hash = r.hash
    /\ r.reply = "reversed" => u[r.tx].kind = "reversal" /\ u[r.tx].reverses = r.of
    /\ r.reply = "duplicate" => u[r.tx] # NoEvent /\ u[r.tx].hash = r.hash
    /\ r.reply = "conflict" => u[r.tx] # NoEvent /\ u[r.tx].hash # r.hash
    /\ r.reply = "error" =>
          \/ u[r.tx] # NoEvent
          \/ "of" \in DOMAIN r /\ \E t \in TxIds : u[t].kind = "reversal" /\ u[t].reverses = r.of
Told(requests, t) ==
    {q \in UsageRequests : requests[q].reply \in {"accepted", "reversed"} /\ requests[q].tx = t}
OneTold(u, requests) == \A t \in TxIds : u[t] # NoEvent => \E q \in UsageRequests : Told(requests, t) = {q}

\* The invariant in these terms, before and after a step.
LEMMA RepliesInParts ==
    /\ UsageInv <=> /\ UsageTyped
                    /\ \A q \in UsageRequests : TrueOf(urq[q], usage)
                    /\ OneTold(usage, urq)
    /\ UsageInv' <=> /\ UsageTyped'
                     /\ \A q \in UsageRequests : TrueOf(urq'[q], usage')
                     /\ OneTold(usage', urq')
<1>1. UsageInv <=> /\ UsageTyped
                   /\ \A q \in UsageRequests : TrueOf(urq[q], usage)
                   /\ OneTold(usage, urq)
  BY DEF UsageInv, ConflictsSeen, RepliesMatchLedger, ReplyHolds, GetReversalForUsageEvent,
     ToldWritten, TrueOf, OneTold, Told
<1>2. UsageInv' <=> /\ UsageTyped'
                    /\ \A q \in UsageRequests : TrueOf(urq'[q], usage')
                    /\ OneTold(usage', urq')
  BY DEF UsageInv, ConflictsSeen, RepliesMatchLedger, ReplyHolds, GetReversalForUsageEvent,
     ToldWritten, TrueOf, OneTold, Told
<1>3. QED
  BY <1>1, <1>2

\* Nobody but a usage request writes the ledger or a reply.
LEMMA WhatWritesLedger ==
    ASSUME [CommerceNext]_commerceVars
    PROVE  UsageNext \/ UNCHANGED <<usage, urq>>
<1>1. CASE CatalogNext /\ UNCHANGED ledgerState
  BY <1>1 DEF ledgerState
<1>2. CASE createCustomer /\ UNCHANGED <<catalogState, subs, ledgerState>>
  BY <1>2 DEF ledgerState
<1>3. CASE MoveFence \/ EntitlementNext
  BY <1>3 DEF MoveFence, EntitlementNext, upsertEntitlementOverride, deleteEntitlementOverride,
     getEntitlementSnapshot, UpsertEntitlementOverride, DeleteEntitlementOverride,
     GetEntitlementSnapshot, TimePasses, RunReconciliation, EntitlementStep
<1>4. CASE InvoiceNext
  BY <1>4 DEF InvoiceNext, syncInvoices, SyncInvoices, syncOneInvoice, SyncUpsert, SyncDone,
     SyncStep, EngineStep
<1>5. CASE UNCHANGED commerceVars
  BY <1>5 DEF commerceVars, ledgerState
<1>6. QED
  BY <1>1, <1>2, <1>3, <1>4, <1>5 DEF CommerceNext

\* A reply names a transaction id, and so does a conflict on its way.
LEMMA RepliesNameIds ==
    ASSUME UsageTyped, NEW q \in UsageRequests, urq[q].reply # "none" \/ urq[q].at = "conflict"
    PROVE  urq[q].tx \in TxIds
  BY DEF UsageTyped, Idle, Open, Answered, Ingest, Insert, Reversal

\* What is true of the ledger stays true when rows are added.
LEMMA TruthLasts ==
    ASSUME LedgerGrows, NEW r, r.reply # "none" \/ r.at = "conflict" => r.tx \in TxIds,
           TrueOf(r, usage)
    PROVE  TrueOf(r, usage')
<1>1. r.reply # "none" \/ r.at = "conflict" =>
          (usage[r.tx] # NoEvent => usage'[r.tx] = usage[r.tx])
  BY DEF LedgerGrows
<1>2. \A t \in TxIds : usage[t].kind = "reversal" => usage'[t] = usage[t]
  BY DEF LedgerGrows, NoEvent
<1>3. r.reply \in {"accepted", "reversed"} => usage[r.tx] # NoEvent
  BY DEF TrueOf, NoEvent
<1>4. r.reply = "accepted" => usage'[r.tx].kind = "ingestion" /\ usage'[r.tx].hash = r.hash
  BY <1>1, <1>3 DEF TrueOf
<1>5. r.reply = "reversed" => usage'[r.tx].kind = "reversal" /\ usage'[r.tx].reverses = r.of
  BY <1>1, <1>3 DEF TrueOf
<1>6. r.reply = "duplicate" => usage'[r.tx] # NoEvent /\ usage'[r.tx].hash = r.hash
  BY <1>1 DEF TrueOf
<1>7. r.reply = "conflict" => usage'[r.tx] # NoEvent /\ usage'[r.tx].hash # r.hash
  BY <1>1 DEF TrueOf
<1>8. r.reply = "error" =>
          \/ usage'[r.tx] # NoEvent
          \/ "of" \in DOMAIN r /\ \E t \in TxIds : usage'[t].kind = "reversal" /\ usage'[t].reverses = r.of
  BY <1>1, <1>2 DEF TrueOf
<1>9. r.at = "conflict" => usage'[r.tx] # NoEvent /\ usage'[r.tx].hash # r.hash
  BY <1>1 DEF TrueOf
<1>10. QED
  BY <1>4, <1>5, <1>6, <1>7, <1>8, <1>9 DEF TrueOf

\* A request moves on: replies given before stay true, since no row they speak of
\* is written again; its own reply is true of the row it has just seen or written,
\* and it alone is told of a row that it writes.
LEMMA RequestMoves ==
    ASSUME UsageInv, LedgerGrows,
           DOMAIN usage' = TxIds, usage' = [t \in TxIds |-> usage'[t]],
           NEW q \in UsageRequests, urq[q].reply = "none",
           NEW next \in Idle \cup Open \cup Answered, urq' = [urq EXCEPT ![q] = next],
           TrueOf(next, usage'),
           \/ next.reply \notin {"accepted", "reversed"} /\ usage' = usage
           \/ /\ next.reply \in {"accepted", "reversed"} /\ usage[next.tx] = NoEvent
              /\ \A t \in TxIds : t # next.tx => usage'[t] = usage[t]
    PROVE  UsageInv'
<1>0. UsageTyped
  BY DEF UsageInv
<1>1. UsageTyped'
  BY <1>0 DEF UsageTyped
<1>2. urq'[q] = next /\ \A p \in UsageRequests : p # q => urq'[p] = urq[p]
  BY <1>0 DEF UsageTyped
<1>3. (\A p \in UsageRequests : TrueOf(urq[p], usage)) /\ OneTold(usage, urq)
  BY RepliesInParts
<1>4. ASSUME NEW p \in UsageRequests PROVE TrueOf(urq'[p], usage')
  <2>1. CASE p = q
    BY <1>2, <2>1
  <2>2. CASE p # q
    <3>1. TrueOf(urq[p], usage) /\ (urq[p].reply # "none" \/ urq[p].at = "conflict" => urq[p].tx \in TxIds)
      BY <1>0, <1>3, RepliesNameIds
    <3>2. TrueOf(urq[p], usage')
      BY <3>1, TruthLasts
    <3>3. QED
      BY <1>2, <2>2, <3>2
  <2>3. QED
    BY <2>1, <2>2
<1>5. ASSUME NEW t \in TxIds, usage'[t] # NoEvent
      PROVE  \E p \in UsageRequests : Told(urq', t) = {p}
  <2>1. CASE next.reply \in {"accepted", "reversed"} /\ t = next.tx
    <3>1. usage[t] = NoEvent
      BY <2>1
    <3>2. \A p \in UsageRequests : p \notin Told(urq, t)
      BY <1>3, <3>1 DEF Told, TrueOf, NoEvent
    <3>3. Told(urq', t) = {q}
      BY <1>2, <2>1, <3>2 DEF Told
    <3>4. QED
      BY <3>3
  <2>2. CASE ~(next.reply \in {"accepted", "reversed"} /\ t = next.tx)
    <3>1. usage'[t] = usage[t]
      BY <2>2
    <3>2. Told(urq', t) = Told(urq, t)
      BY <1>2, <2>2 DEF Told
    <3>3. QED
      BY <1>3, <1>5, <3>1, <3>2 DEF OneTold
  <2>3. QED
    BY <2>1, <2>2
<1>6. OneTold(usage', urq')
  BY <1>5 DEF OneTold
<1>7. QED
  BY <1>1, <1>4, <1>6, RepliesInParts

\* A step that leaves the ledger and the requests alone.
LEMMA RepliesStay ==
    ASSUME UsageInv, UNCHANGED <<usage, urq>>
    PROVE  UsageInv'
<1>1. UsageTyped'
  BY DEF UsageInv, UsageTyped
<1>2. QED
  BY <1>1, RepliesInParts

\* A step of a request that leaves the ledger alone: it goes on, or is given a
\* reply that says nothing of rows it wrote.
LEMMA RequestReads ==
    ASSUME UsageInv, usage' = usage,
           NEW q \in UsageRequests, urq[q].reply = "none",
           NEW next \in Open \cup Answered, urq' = [urq EXCEPT ![q] = next],
           next.reply \notin {"accepted", "reversed"}, TrueOf(next, usage)
    PROVE  UsageInv'
<1>1. LedgerGrows
  BY DEF LedgerGrows
<1>2. DOMAIN usage' = TxIds /\ usage' = [t \in TxIds |-> usage'[t]]
  BY DEF UsageInv, UsageTyped
<1>3. next \in Idle \cup Open \cup Answered /\ TrueOf(next, usage')
  OBVIOUS
<1>4. QED
  BY <1>1, <1>2, <1>3, RequestMoves

\* A request inserts its row and is told so.
LEMMA RequestWrites ==
    ASSUME UsageInv,
           NEW q \in UsageRequests, urq[q].reply = "none",
           NEW next \in Answered, urq' = [urq EXCEPT ![q] = next],
           next.tx \in TxIds, next.at = "done", NEW event, InsertUsageEvent(next.tx, event),
           \/ next.reply = "accepted" /\ event.kind = "ingestion" /\ event.hash = next.hash
           \/ next.reply = "reversed" /\ event.kind = "reversal" /\ event.reverses = next.of
    PROVE  UsageInv'
<1>1. /\ usage[next.tx] = NoEvent
      /\ usage' = [t \in TxIds |-> IF t = next.tx THEN event ELSE usage[t]]
  BY DEF InsertUsageEvent, UsageInv, UsageTyped
<1>2. /\ DOMAIN usage' = TxIds /\ usage' = [t \in TxIds |-> usage'[t]]
      /\ usage'[next.tx] = event /\ \A t \in TxIds : t # next.tx => usage'[t] = usage[t]
  BY <1>1
<1>3. LedgerGrows
  BY <1>1, <1>2 DEF LedgerGrows
<1>4. next \in Idle \cup Open \cup Answered /\ TrueOf(next, usage')
  BY <1>2 DEF TrueOf
<1>5. QED
  BY <1>1, <1>2, <1>3, <1>4, RequestMoves

\* A request that goes on or is refused claims nothing of the ledger.
LEMMA OpenSaysNothing ==
    ASSUME NEW next, next.reply \in {"none", "refused"}, next.at # "conflict", NEW u
    PROVE  TrueOf(next, u)
  BY DEF TrueOf

\* Each step of an ingestion.
LEMMA IngestSteps ==
    ASSUME UsageInv, NEW q \in UsageRequests,
           ingestUsage(q) \/ IngestDraining(q) \/ IngestReads(q) \/ ConflictAudit(q) \/ IngestUsage(q)
    PROVE  UsageInv'
<1>0. urq[q] \in Idle \cup Open \cup Answered
  BY DEF UsageInv, UsageTyped
<1>1. CASE ingestUsage(q)
  <2>1. PICK t \in TxIds, h \in Payloads, x \in ExternalIds, m \in Metrics : IngestFenced(q, t, h, x, m)
    BY <1>1 DEF ingestUsage
  <2> DEFINE next == [at |-> "fenced", tx |-> t, hash |-> h, customer |-> x, metric |-> m,
                      reply |-> "none"]
  <2>2. next \in Open \cup Answered /\ next.reply = "none" /\ next.at = "fenced"
    BY DEF Open, Ingest
  <2>3. usage' = usage /\ urq' = [urq EXCEPT ![q] = next]
    BY <2>1 DEF IngestFenced, UsageStep
  <2>4. urq[q].reply = "none"
    BY <1>0, <2>1 DEF IngestFenced, Idle, Open, Answered, Ingest, Insert, Reversal
  <2> HIDE DEF next
  <2>5. TrueOf(next, usage)
    BY <2>2, OpenSaysNothing
  <2>6. QED
    BY <2>2, <2>3, <2>4, <2>5, RequestReads
<1>2. ASSUME urq[q] \in Ingest({"fenced", "ingest", "conflict"}, {"none"}), usage' = usage,
             NEW a \in {"duplicate", "conflict", "refused"}, Reply(q, a),
             a = "duplicate" => usage[urq[q].tx] # NoEvent /\ usage[urq[q].tx].hash = urq[q].hash,
             a = "conflict" => usage[urq[q].tx] # NoEvent /\ usage[urq[q].tx].hash # urq[q].hash
      PROVE  UsageInv'
  <2> DEFINE next == [urq[q] EXCEPT !.at = "done", !.reply = a]
  <2>1. /\ next \in Open \cup Answered /\ next.reply = a /\ next.at = "done"
        /\ next.tx = urq[q].tx /\ next.hash = urq[q].hash
    BY <1>2 DEF Answered, Ingest
  <2>2. urq' = [urq EXCEPT ![q] = next] /\ urq[q].reply = "none"
    BY <1>2 DEF Reply, UsageStep, Ingest
  <2> HIDE DEF next
  <2>3. TrueOf(next, usage) /\ next.reply \notin {"accepted", "reversed"}
    BY <1>2, <2>1 DEF TrueOf
  <2>4. QED
    BY <1>2, <2>1, <2>2, <2>3, RequestReads
<1>3. ASSUME urq[q] \in Ingest({"fenced", "ingest"}, {"none"}), usage' = usage,
             NEW at \in {"ingest", "conflict"}, UsageStep(q, [urq[q] EXCEPT !.at = at]),
             at = "conflict" => usage[urq[q].tx] # NoEvent /\ usage[urq[q].tx].hash # urq[q].hash
      PROVE  UsageInv'
  <2> DEFINE next == [urq[q] EXCEPT !.at = at]
  <2>1. /\ next \in Open \cup Answered /\ next.reply = "none" /\ next.at = at
        /\ next.tx = urq[q].tx /\ next.hash = urq[q].hash
    BY <1>3 DEF Open, Ingest
  <2>2. urq' = [urq EXCEPT ![q] = next] /\ urq[q].reply = "none"
    BY <1>3 DEF UsageStep, Ingest
  <2> HIDE DEF next
  <2>3. TrueOf(next, usage)
    BY <1>3, <2>1 DEF TrueOf
  <2>4. QED
    BY <1>3, <2>1, <2>2, <2>3, RequestReads
<1>4. CASE IngestDraining(q)
  <2>1. urq[q] \in Ingest({"fenced"}, {"none"}) /\ usage' = usage
    BY <1>0, <1>4 DEF IngestDraining, Idle, Open, Answered, Ingest, Insert, Reversal
  <2>2. UsageStep(q, [urq[q] EXCEPT !.at = "ingest"]) \/ Reply(q, "refused")
    BY <1>4 DEF IngestDraining
  <2>3. urq[q] \in Ingest({"fenced", "ingest", "conflict"}, {"none"})
        /\ urq[q] \in Ingest({"fenced", "ingest"}, {"none"})
    BY <2>1 DEF Ingest
  <2>4. QED
    BY <1>2, <1>3, <2>1, <2>2, <2>3
<1>5. CASE IngestReads(q)
  <2>1. urq[q] \in Ingest({"ingest"}, {"none"}) /\ urq[q].reply = "none" /\ usage' = usage
    BY <1>0, <1>5 DEF IngestReads, Idle, Open, Answered, Ingest, Insert, Reversal
  <2>2. urq[q] \in Ingest({"fenced", "ingest", "conflict"}, {"none"})
        /\ urq[q] \in Ingest({"fenced", "ingest"}, {"none"})
    BY <2>1 DEF Ingest
  <2>3. ASSUME NEW s \in SubscriptionIds,
               UsageStep(q, [at |-> "insert", tx |-> urq[q].tx, hash |-> urq[q].hash,
                             sub |-> s, reply |-> "none"])
        PROVE  UsageInv'
    <3> DEFINE next == [at |-> "insert", tx |-> urq[q].tx, hash |-> urq[q].hash,
                        sub |-> s, reply |-> "none"]
    <3>1. next \in Open \cup Answered /\ next.reply = "none" /\ next.at = "insert"
      BY <2>1 DEF Open, Ingest, Insert
    <3>2. urq' = [urq EXCEPT ![q] = next]
      BY <2>3 DEF UsageStep
    <3> HIDE DEF next
    <3>3. TrueOf(next, usage)
      BY <3>1, OpenSaysNothing
    <3>4. QED
      BY <2>1, <3>1, <3>2, <3>3, RequestReads
  <2>4. CASE \E s \in SubscriptionIds :
               UsageStep(q, [at |-> "insert", tx |-> urq[q].tx, hash |-> urq[q].hash,
                             sub |-> s, reply |-> "none"])
    BY <2>3, <2>4
  <2>5. CASE Reply(q, "refused")
    BY <1>2, <2>1, <2>2, <2>5
  <2>6. CASE /\ usage[urq[q].tx] # NoEvent /\ usage[urq[q].tx].hash = urq[q].hash
             /\ Reply(q, "duplicate")
    BY <1>2, <2>1, <2>2, <2>6
  <2>7. CASE /\ usage[urq[q].tx] # NoEvent /\ usage[urq[q].tx].hash # urq[q].hash
             /\ UsageStep(q, [urq[q] EXCEPT !.at = "conflict"])
    BY <1>3, <2>1, <2>2, <2>7
  <2>8. QED
    BY <1>5, <2>4, <2>5, <2>6, <2>7
    DEF IngestReads, GetActiveSubscriptionByCustomer, GetUsageEventByTransactionID
<1>6. CASE ConflictAudit(q)
  <2>1. urq[q] \in Ingest({"conflict"}, {"none"}) /\ usage' = usage /\ Reply(q, "conflict")
    BY <1>0, <1>6 DEF ConflictAudit, Idle, Open, Answered, Ingest, Insert, Reversal
  <2>2. urq[q] \in Ingest({"fenced", "ingest", "conflict"}, {"none"}) /\ urq[q].at = "conflict"
    BY <2>1 DEF Ingest
  <2>3. usage[urq[q].tx] # NoEvent /\ usage[urq[q].tx].hash # urq[q].hash
    BY <2>2 DEF UsageInv, ConflictsSeen
  <2>4. QED
    BY <1>2, <2>1, <2>2, <2>3
<1>7. CASE IngestUsage(q)
  <2>1. urq[q] \in Insert({"insert"}, {"none"}) /\ urq[q].reply = "none" /\ urq[q].tx \in TxIds
    BY <1>0, <1>7 DEF IngestUsage, Idle, Open, Answered, Ingest, Insert, Reversal
  <2> DEFINE event == [kind |-> "ingestion", hash |-> urq[q].hash, sub |-> urq[q].sub]
  <2>2. CASE InsertUsageEvent(urq[q].tx, event) /\ Reply(q, "accepted")
    <3> DEFINE next == [urq[q] EXCEPT !.at = "done", !.reply = "accepted"]
    <3>1. /\ next \in Answered /\ next.reply = "accepted" /\ next.at = "done"
          /\ next.tx = urq[q].tx /\ next.hash = urq[q].hash
      BY <2>1 DEF Answered, Insert
    <3>2. urq' = [urq EXCEPT ![q] = next]
      BY <2>2 DEF Reply, UsageStep
    <3>3. event.kind = "ingestion" /\ event.hash = urq[q].hash
      OBVIOUS
    <3> HIDE DEF event, next
    <3>4. QED
      BY <2>1, <2>2, <3>1, <3>2, <3>3, RequestWrites
  <2>3. CASE usage[urq[q].tx] # NoEvent /\ Reply(q, "error") /\ usage' = usage
    <3> DEFINE next == [urq[q] EXCEPT !.at = "done", !.reply = "error"]
    <3>1. /\ next \in Open \cup Answered /\ next.reply = "error" /\ next.at = "done"
          /\ next.tx = urq[q].tx
      BY <2>1 DEF Answered, Insert
    <3>2. urq' = [urq EXCEPT ![q] = next]
      BY <2>3 DEF Reply, UsageStep
    <3> HIDE DEF next
    <3>3. TrueOf(next, usage)
      BY <2>3, <3>1 DEF TrueOf
    <3>4. QED
      BY <2>1, <2>3, <3>1, <3>2, <3>3, RequestReads
  <2>4. QED
    BY <1>7, <2>2, <2>3 DEF IngestUsage
<1>8. QED
  BY <1>1, <1>4, <1>5, <1>6, <1>7

\* Each step of a reversal.
LEMMA ReverseSteps ==
    ASSUME UsageInv, NEW q \in UsageRequests,
           reverseUsage(q) \/ ReverseUsage(q)
    PROVE  UsageInv'
<1>0. urq[q] \in Idle \cup Open \cup Answered
  BY DEF UsageInv, UsageTyped
<1>1. CASE reverseUsage(q)
  <2>1. PICK t \in TxIds, r \in TxIds : ReverseReads(q, t, r)
    BY <1>1 DEF reverseUsage
  <2>2. PICK next \in Reversal({"reverse"}, {"none"}) \cup Reversal({"done"}, {"refused"}) :
          urq' = [urq EXCEPT ![q] = next]
    <3> DEFINE go == [at |-> "reverse", tx |-> r, of |-> t, reply |-> "none"]
               no == [at |-> "done", tx |-> r, of |-> t, reply |-> "refused"]
    <3>1. go \in Reversal({"reverse"}, {"none"}) /\ no \in Reversal({"done"}, {"refused"})
      BY DEF Reversal
    <3>2. urq' = [urq EXCEPT ![q] = go] \/ urq' = [urq EXCEPT ![q] = no]
      BY <2>1 DEF ReverseReads, UsageStep
    <3> HIDE DEF go, no
    <3>3. QED
      BY <3>1, <3>2
  <2>3. next \in Open \cup Answered /\ next.reply \in {"none", "refused"} /\ next.at # "conflict"
    BY DEF Open, Answered, Reversal
  <2>4. urq[q].reply = "none"
    BY <1>0, <2>1 DEF ReverseReads, Idle, Open, Answered, Ingest, Insert, Reversal
  <2>5. usage' = usage
    BY <2>1 DEF ReverseReads
  <2>6. TrueOf(next, usage)
    BY <2>3, OpenSaysNothing
  <2>7. QED
    BY <2>2, <2>3, <2>4, <2>5, <2>6, RequestReads
<1>2. CASE ReverseUsage(q)
  <2>1. urq[q] \in Reversal({"reverse"}, {"none"}) /\ urq[q].reply = "none" /\ urq[q].tx \in TxIds
    BY <1>0, <1>2 DEF ReverseUsage, Idle, Open, Answered, Ingest, Insert, Reversal
  <2> DEFINE event == [kind |-> "reversal", reverses |-> urq[q].of, hash |-> urq[q].tx,
                       sub |-> usage[urq[q].of].sub]
  <2>2. CASE InsertUsageEvent(urq[q].tx, event) /\ Reply(q, "reversed")
    <3> DEFINE next == [urq[q] EXCEPT !.at = "done", !.reply = "reversed"]
    <3>1. /\ next \in Answered /\ next.reply = "reversed" /\ next.at = "done"
          /\ next.tx = urq[q].tx /\ next.of = urq[q].of
      BY <2>1 DEF Answered, Reversal
    <3>2. urq' = [urq EXCEPT ![q] = next]
      BY <2>2 DEF Reply, UsageStep
    <3>3. event.kind = "reversal" /\ event.reverses = urq[q].of
      OBVIOUS
    <3> HIDE DEF event, next
    <3>4. QED
      BY <2>1, <2>2, <3>1, <3>2, <3>3, RequestWrites
  <2>3. CASE /\ usage[urq[q].tx] # NoEvent \/ GetReversalForUsageEvent(urq[q].of) # {}
             /\ Reply(q, "error") /\ usage' = usage
    <3> DEFINE next == [urq[q] EXCEPT !.at = "done", !.reply = "error"]
    <3>1. /\ next \in Reversal({"done"}, {"error"})
          /\ next.tx = urq[q].tx /\ next.of = urq[q].of
      BY <2>1 DEF Reversal
    <3>2. urq' = [urq EXCEPT ![q] = next]
      BY <2>3 DEF Reply, UsageStep
    <3> HIDE DEF next
    <3>3. /\ next \in Open \cup Answered /\ next.reply = "error" /\ next.at = "done"
          /\ "of" \in DOMAIN next
      BY <3>1 DEF Answered, Reversal
    <3>4. TrueOf(next, usage)
      BY <2>3, <3>1, <3>3 DEF TrueOf, GetReversalForUsageEvent
    <3>5. QED
      BY <2>1, <2>3, <3>2, <3>3, <3>4, RequestReads
  <2>4. QED
    BY <1>2, <2>2, <2>3 DEF ReverseUsage
<1>3. QED
  BY <1>1, <1>2

\* usage.go IngestUsage and ReverseUsage: a retry may race with the first attempt
\* between its read and its insert, and a reversal with both, yet every reply stays
\* true of the ledger: exactly one request is told that it accepted or reversed
\* what a row holds, and a loser that is told of an error lost to such a row.
THEOREM UsageReplies == CommerceSpec => []RepliesMatchLedger
<1>1. CommerceInit => UsageInv
  BY DEF CommerceInit, LedgerInit, UsageInv, UsageTyped, RepliesMatchLedger, ReplyHolds,
     ConflictsSeen, Idle
<1>2. ASSUME UsageInv, [CommerceNext]_commerceVars
      PROVE  UsageInv'
  <2>1. CASE UsageNext
    BY <1>2, <2>1, IngestSteps, ReverseSteps DEF UsageNext
  <2>2. CASE UNCHANGED <<usage, urq>>
    BY <1>2, <2>2, RepliesStay
  <2>3. QED
    BY <1>2, <2>1, <2>2, WhatWritesLedger
<1>3. UsageInv => RepliesMatchLedger
  BY DEF UsageInv
<1>4. QED
  BY <1>1, <1>2, <1>3, PTL DEF CommerceSpec

-----------------------------------------------------------------------------
(* Catalog *)

Subscribed == [status : {"active", "terminated"}, customer : ExternalIds, version : Versions,
               plan : PlanCodes]

\* The tables of the catalog; a transition in flight is one of a version that
\* exists and never leads back to draft, a termination one of a subscription
\* that exists.
CatalogTyped ==
    /\ versionState \in [Versions -> {"none", "draft", "validated", "published", "retired"}]
    /\ DOMAIN content = Versions /\ content = [v \in Versions |-> content[v]]
    /\ DOMAIN catx = CatalogRequests /\ catx = [q \in CatalogRequests |-> catx[q]]
    /\ \A q \in CatalogRequests : catx[q].op = "transition" =>
          /\ catx[q].to \in {"validated", "published", "retired"}
          /\ catx[q].version \in Versions /\ versionState[catx[q].version] # "none"
    /\ \A q \in CatalogRequests : catx[q].op = "terminate" =>
          catx[q].sub \in SubscriptionIds /\ subs[catx[q].sub] # NoSub
    /\ subs \in [SubscriptionIds -> Subscribed \cup {NoSub}]

\* Versions are numbered in the order they are made.
Numbered ==
    \E n \in 0..MaxVersions : \A v \in Versions : versionState[v] # "none" <=> v <= n

\* A version with a subscription has left draft for good, and no replacement in
\* flight touches the plan.
Pinned ==
    \A s \in SubscriptionIds : subs[s] # NoSub =>
        /\ versionState[subs[s].version] \notin {"none", "draft"}
        /\ ~RowLocked(subs[s].version, subs[s].plan)

CatalogInv == CatalogTyped /\ Numbered /\ Pinned

PinnedContentStays ==
    \A s \in SubscriptionIds : subs[s] # NoSub =>
        content'[subs[s].version].plans[subs[s].plan] = content[subs[s].version].plans[subs[s].plan]

\* Some version of a non-empty set of versions has the greatest number.
LEMMA LatestExists ==
    ASSUME NEW vs \in SUBSET Versions, vs # {}
    PROVE  Latest(vs) \in vs
<1> DEFINE T == {n \in Nat : \E v \in vs : n = MaxVersions - v}
<1>1. \A v \in vs : v \in Nat /\ MaxVersions - v \in T
  BY CatalogAssumption DEF Versions
<1>2. T \subseteq Nat /\ T # {}
  BY <1>1
<1>3. PICK x \in T : \A y \in T : ~ (<<y, x>> \in OpToRel(<, Nat))
  <2> HIDE DEF T
  <2>1. QED
    BY <1>2, NatLessThanWellFounded, WFMin
<1>4. PICK m \in vs : x = MaxVersions - m
  OBVIOUS
<1>5. ASSUME NEW v \in vs PROVE v <= m
  <2>1. MaxVersions - v \in T /\ MaxVersions - v \in Nat /\ x \in Nat /\ m \in Nat /\ v \in Nat
    BY <1>1, <1>2
  <2>2. ~ (MaxVersions - v < x)
    BY <1>3, <2>1 DEF OpToRel
  <2>3. QED
    BY <1>4, <2>1, <2>2, CatalogAssumption
<1>6. QED
  BY <1>4, <1>5 DEF Latest

\* The number of a new version is one that is not taken.
LEMMA NextIsFresh ==
    ASSUME CatalogTyped, Numbered, NextCatalogVersionNumber \in Versions
    PROVE  /\ versionState[NextCatalogVersionNumber] = "none"
           /\ \A v \in Versions : versionState[v] # "none" <=> v < NextCatalogVersionNumber
<1>1. PICK n \in 0..MaxVersions : \A v \in Versions : versionState[v] # "none" <=> v <= n
  BY DEF Numbered
<1>2. {v \in Versions : versionState[v] # "none"} = 1..n
  BY <1>1, CatalogAssumption DEF Versions
<1>3. Cardinality(1..n) = n
  BY <1>1, FS_Interval, CatalogAssumption
<1>4. NextCatalogVersionNumber = 1 + n
  BY <1>2, <1>3 DEF NextCatalogVersionNumber
<1>5. QED
  BY <1>1, <1>4, CatalogAssumption DEF Versions, CatalogTyped

\* A draft written again, or a new version: the two ways to write content outside
\* a replacement.
LEMMA WriteDraft ==
    ASSUME CatalogInv, NEW v \in Versions, NEW c,
           versionState[v] = "draft" \/ v = NextCatalogVersionNumber,
           versionState' = [versionState EXCEPT ![v] = "draft"],
           content' = [content EXCEPT ![v] = c], UNCHANGED <<catx, subs>>
    PROVE  CatalogInv' /\ PinnedContentStays
<1>1. versionState[v] \in {"none", "draft"}
  BY NextIsFresh DEF CatalogInv
<1>2. CatalogTyped'
  <2>1. /\ versionState' \in [Versions -> {"none", "draft", "validated", "published", "retired"}]
        /\ DOMAIN content' = Versions /\ content' = [w \in Versions |-> content'[w]]
    BY DEF CatalogInv, CatalogTyped
  <2>2. \A w \in Versions : versionState[w] # "none" => versionState'[w] # "none"
    BY DEF CatalogInv, CatalogTyped
  <2>3. QED
    BY <2>1, <2>2 DEF CatalogInv, CatalogTyped
<1>3. \A w \in Versions : w # v => versionState'[w] = versionState[w] /\ content'[w] = content[w]
  BY DEF CatalogInv, CatalogTyped
<1>4. \A s \in SubscriptionIds : subs[s] # NoSub => subs[s].version \in Versions /\ subs[s].version # v
  BY <1>1 DEF CatalogInv, CatalogTyped, Pinned, Subscribed
<1>5. Pinned'
  BY <1>3, <1>4 DEF CatalogInv, Pinned, RowLocked
<1>6. PinnedContentStays
  BY <1>3, <1>4 DEF PinnedContentStays
<1>7. Numbered'
  <2>1. CASE versionState[v] = "draft"
    <3>1. \A w \in Versions : versionState'[w] # "none" <=> versionState[w] # "none"
      BY <2>1, <1>3 DEF CatalogInv, CatalogTyped
    <3>2. QED
      BY <3>1 DEF CatalogInv, Numbered
  <2>2. CASE v = NextCatalogVersionNumber
    <3>1. \A w \in Versions : versionState[w] # "none" <=> w < v
      BY <2>2, NextIsFresh DEF CatalogInv
    <3>2. versionState'[v] = "draft" /\ v \in 0..MaxVersions
      BY CatalogAssumption DEF CatalogInv, CatalogTyped, Versions
    <3>3. \A w \in Versions : versionState'[w] # "none" <=> w <= v
      BY <1>3, <3>1, <3>2, CatalogAssumption DEF Versions
    <3>4. QED
      BY <3>2, <3>3 DEF Numbered
  <2>3. QED
    BY <2>1, <2>2
<1>8. QED
  BY <1>2, <1>5, <1>6, <1>7 DEF CatalogInv

\* The plan operations write the latest draft, or a new version.
LEMMA PlanOperations ==
    ASSUME CatalogInv, NEW p, NEW c, NEW type, acquireCatalogPlanLock(p, c, type)
    PROVE  CatalogInv' /\ PinnedContentStays
<1> DEFINE v == ensureDraftVersionTx.version
<1>1. v \in Versions /\ versionState' = [versionState EXCEPT ![v] = "draft"]
      /\ content' = [content EXCEPT ![v] = c] /\ UNCHANGED <<catx, subs>>
  BY DEF acquireCatalogPlanLock
<1>2. versionState[v] = "draft" \/ v = NextCatalogVersionNumber
  <2>1. CASE GetDraftCatalogVersionByTenant = {}
    BY <2>1 DEF ensureDraftVersionTx
  <2>2. CASE GetDraftCatalogVersionByTenant # {}
    <3>1. GetDraftCatalogVersionByTenant \in SUBSET Versions
      BY DEF GetDraftCatalogVersionByTenant
    <3>2. Latest(GetDraftCatalogVersionByTenant) \in GetDraftCatalogVersionByTenant
      BY <2>2, <3>1, LatestExists
    <3>3. v = Latest(GetDraftCatalogVersionByTenant)
      BY <2>2 DEF ensureDraftVersionTx
    <3>4. QED
      BY <3>2, <3>3 DEF GetDraftCatalogVersionByTenant
  <2>3. QED
    BY <2>1, <2>2
<1> HIDE DEF v
<1>3. QED
  BY <1>1, <1>2, WriteDraft

\* A replacement begins on a draft without subscriptions, and commits on whatever
\* the version has become: by then a subscription may be pinned to it, but not to
\* a plan whose row the replacement holds.
LEMMA Replacements ==
    ASSUME CatalogInv, NEW q \in CatalogRequests,
           replaceCatalogContent(q) \/ replaceCatalogContentTx(q)
    PROVE  CatalogInv' /\ PinnedContentStays
<1>1. CASE replaceCatalogContent(q)
  <2>1. PICK v \in Versions, c \in Contents : ReplaceCatalogContent(q, v, c)
    BY <1>1 DEF replaceCatalogContent
  <2>2. /\ UNCHANGED <<versionState, content, subs>>
        /\ \A s \in SubscriptionIds : subs[s] # NoSub => subs[s].version # v
        /\ catx' = [catx EXCEPT ![q] = [op |-> "replace", version |-> v, old |-> content[v], new |-> c]]
    BY <2>1 DEF ReplaceCatalogContent
  <2>3. /\ DOMAIN catx' = CatalogRequests /\ catx' = [r \in CatalogRequests |-> catx'[r]]
        /\ catx'[q].op = "replace" /\ catx'[q].version = v
        /\ \A r \in CatalogRequests : r # q => catx'[r] = catx[r]
    BY <2>2 DEF CatalogInv, CatalogTyped
  <2>4. CatalogTyped' /\ Numbered' /\ PinnedContentStays
    BY <2>2, <2>3 DEF CatalogInv, CatalogTyped, Numbered, PinnedContentStays
  <2>5. Pinned'
    BY <2>2, <2>3 DEF CatalogInv, Pinned, RowLocked
  <2>6. QED
    BY <2>4, <2>5 DEF CatalogInv
<1>2. CASE replaceCatalogContentTx(q)
  <2> DEFINE t == catx[q]
             touched(p) == t.old.plans[p] # NoPlan \/ t.new.plans[p] # NoPlan
             plans == [p \in PlanCodes |-> IF touched(p) THEN t.new.plans[p]
                                           ELSE content[t.version].plans[p]]
             row == [metrics |-> t.new.metrics, plans |-> plans]
  <2>1. /\ t.op = "replace" /\ UNCHANGED <<versionState, subs>>
        /\ content' = [content EXCEPT ![t.version] = row]
        /\ catx' = [catx EXCEPT ![q] = NoTx]
    BY <1>2 DEF replaceCatalogContentTx
  <2>2. row.plans = plans
    OBVIOUS
  <2>3. \A p \in PlanCodes : ~touched(p) => plans[p] = content[t.version].plans[p]
    OBVIOUS
  <2>4. ASSUME NEW s \in SubscriptionIds, subs[s] # NoSub
        PROVE  content'[subs[s].version].plans[subs[s].plan]
                   = content[subs[s].version].plans[subs[s].plan]
    <3>1. subs[s].version \in Versions /\ subs[s].plan \in PlanCodes
      BY <2>4 DEF CatalogInv, CatalogTyped, Subscribed
    <3>2. CASE subs[s].version = t.version
      <4>1. ~touched(subs[s].plan)
        BY <2>1, <2>4, <3>2 DEF CatalogInv, Pinned, RowLocked
      <4> HIDE DEF row, plans, touched
      <4>2. content'[subs[s].version] = row
        BY <2>1, <3>1, <3>2 DEF CatalogInv, CatalogTyped
      <4>3. QED
        BY <2>2, <2>3, <3>1, <3>2, <4>1, <4>2
    <3>3. CASE subs[s].version # t.version
      <4> HIDE DEF row
      <4>1. QED
        BY <2>1, <3>1, <3>3 DEF CatalogInv, CatalogTyped
    <3>4. QED
      BY <3>2, <3>3
  <2> HIDE DEF row
  <2>5. /\ DOMAIN catx' = CatalogRequests /\ catx' = [r \in CatalogRequests |-> catx'[r]]
        /\ catx'[q] = NoTx /\ \A r \in CatalogRequests : r # q => catx'[r] = catx[r]
    BY <2>1 DEF CatalogInv, CatalogTyped
  <2>6. CatalogTyped' /\ Numbered'
    BY <2>1, <2>5 DEF CatalogInv, CatalogTyped, Numbered, NoTx
  <2>7. Pinned'
    BY <2>1, <2>5 DEF CatalogInv, Pinned, RowLocked, NoTx
  <2>8. QED
    BY <2>4, <2>6, <2>7 DEF CatalogInv, PinnedContentStays
<1>3. QED
  BY <1>1, <1>2

\* A state transition, its read and its late UPDATE: content is left alone, and no
\* version becomes a draft again.
LEMMA Transitions ==
    ASSUME CatalogInv, NEW q \in CatalogRequests,
           \/ validateCatalogVersion(q) \/ publishCatalogVersion(q) \/ retireCatalogVersion(q)
           \/ transitionCatalogVersionCommit(q)
    PROVE  CatalogInv' /\ PinnedContentStays
<1>0. UNCHANGED <<content, subs>>
  BY DEF validateCatalogVersion, publishCatalogVersion, retireCatalogVersion,
     ValidateCatalogVersion, PublishCatalogVersion, RetireCatalogVersion,
     transitionCatalogVersion, transitionCatalogVersionCommit
<1>1. ASSUME NEW v \in Versions, NEW to \in {"validated", "published", "retired"}, NEW check,
             transitionCatalogVersion(q, v, to, check)
      PROVE  CatalogInv' /\ PinnedContentStays
  <2>1. /\ versionState' = versionState /\ versionState[v] # "none"
        /\ catx' = [catx EXCEPT ![q] = [op |-> "transition", version |-> v, to |-> to]]
    BY <1>1 DEF transitionCatalogVersion, TransitionCatalog
  <2>2. /\ DOMAIN catx' = CatalogRequests /\ catx' = [r \in CatalogRequests |-> catx'[r]]
        /\ catx'[q].op = "transition" /\ catx'[q].to = to /\ catx'[q].version = v
        /\ \A r \in CatalogRequests : r # q => catx'[r] = catx[r]
    BY <2>1 DEF CatalogInv, CatalogTyped
  <2>3. CatalogTyped'
    BY <1>0, <2>1, <2>2 DEF CatalogInv, CatalogTyped
  <2>4. Numbered'
    BY <2>1 DEF CatalogInv, Numbered
  <2>5. Pinned'
    BY <1>0, <2>1, <2>2 DEF CatalogInv, Pinned, RowLocked
  <2>6. QED
    BY <1>0, <2>3, <2>4, <2>5 DEF CatalogInv, PinnedContentStays
<1>2. CASE transitionCatalogVersionCommit(q)
  <2> DEFINE t == catx[q]
  <2>1. /\ t.op = "transition" /\ t.to \in {"validated", "published", "retired"}
        /\ t.version \in Versions /\ versionState[t.version] # "none"
        /\ versionState' = [versionState EXCEPT ![t.version] = t.to]
        /\ catx' = [catx EXCEPT ![q] = NoTx]
    BY <1>2 DEF transitionCatalogVersionCommit, UpdateCatalogVersionState, CatalogInv, CatalogTyped
  <2>2. /\ DOMAIN catx' = CatalogRequests /\ catx' = [r \in CatalogRequests |-> catx'[r]]
        /\ catx'[q] = NoTx /\ \A r \in CatalogRequests : r # q => catx'[r] = catx[r]
    BY <2>1 DEF CatalogInv, CatalogTyped
  <2> HIDE DEF t
  <2>3. /\ versionState' \in [Versions -> {"none", "draft", "validated", "published", "retired"}]
        /\ \A v \in Versions : versionState'[v] # "none" <=> versionState[v] # "none"
        /\ \A v \in Versions : versionState[v] # "draft" => versionState'[v] # "draft"
    BY <2>1 DEF CatalogInv, CatalogTyped
  <2>4. CatalogTyped'
    BY <1>0, <2>2, <2>3 DEF CatalogInv, CatalogTyped, NoTx
  <2>5. Numbered'
    BY <2>3 DEF CatalogInv, Numbered
  <2>6. Pinned'
    <3>1. \A s \in SubscriptionIds : subs[s] # NoSub => subs[s].version \in Versions
      BY DEF CatalogInv, CatalogTyped, Subscribed
    <3>2. QED
      BY <1>0, <2>2, <2>3, <3>1 DEF CatalogInv, Pinned, RowLocked, NoTx
  <2>7. QED
    BY <1>0, <2>4, <2>5, <2>6 DEF CatalogInv, PinnedContentStays
<1>3. QED
  BY <1>1, <1>2 DEF validateCatalogVersion, publishCatalogVersion, retireCatalogVersion,
     ValidateCatalogVersion, PublishCatalogVersion, RetireCatalogVersion

\* A subscription is pinned to a published version and waits for the plan's row.
LEMMA Subscriptions ==
    ASSUME CatalogInv, createSubscription
    PROVE  CatalogInv' /\ PinnedContentStays
<1>0. UNCHANGED catalogState
  BY DEF createSubscription, CreateSubscription
<1>1. Numbered' /\ PinnedContentStays
  BY <1>0 DEF catalogState, CatalogInv, Numbered, PinnedContentStays
<1>2. PICK s \in SubscriptionIds, x \in ExternalIds, v \in Versions, p \in PlanCodes :
        CreateSubscription(s, x, v, p)
  BY DEF createSubscription
<1> DEFINE row == [status |-> "active", customer |-> x, version |-> v, plan |-> p]
<1>3. row \in Subscribed /\ row # NoSub /\ row.version = v /\ row.plan = p
  BY DEF Subscribed, NoSub
<1>4. subs' = [subs EXCEPT ![s] = row] /\ versionState[v] = "published" /\ ~RowLocked(v, p)
  BY <1>2 DEF CreateSubscription, InsertSubscription
<1> HIDE DEF row
<1>5. subs'[s] = row /\ \A r \in SubscriptionIds : r # s => subs'[r] = subs[r]
  BY <1>4 DEF CatalogInv, CatalogTyped
<1>6. subs' \in [SubscriptionIds -> Subscribed \cup {NoSub}]
  BY <1>3, <1>4 DEF CatalogInv, CatalogTyped
<1>7. CatalogTyped'
  BY <1>0, <1>3, <1>5, <1>6 DEF catalogState, CatalogInv, CatalogTyped
<1>8. Pinned'
  BY <1>0, <1>3, <1>4, <1>5 DEF catalogState, CatalogInv, Pinned, RowLocked
<1>9. QED
  BY <1>1, <1>7, <1>8 DEF CatalogInv

\* A termination keeps the pin of its subscription, also when another one has
\* come first.
LEMMA Terminations ==
    ASSUME CatalogInv, NEW q \in CatalogRequests,
           terminateSubscription(q) \/ TerminateSubscriptionCommit(q)
    PROVE  CatalogInv' /\ PinnedContentStays
<1>0. UNCHANGED <<versionState, content>>
  BY DEF terminateSubscription, TerminateSubscription, TerminateSubscriptionCommit
<1>1. Numbered' /\ PinnedContentStays
  BY <1>0 DEF CatalogInv, Numbered, PinnedContentStays
<1>2. CASE terminateSubscription(q)
  <2>1. PICK s \in SubscriptionIds : TerminateSubscription(q, s)
    BY <1>2 DEF terminateSubscription
  <2> DEFINE t == [op |-> "terminate", sub |-> s]
  <2>2. t.op = "terminate" /\ t.sub = s
    OBVIOUS
  <2>3. catx' = [catx EXCEPT ![q] = t] /\ subs' = subs /\ subs[s] # NoSub
    BY <2>1 DEF TerminateSubscription, NoSub
  <2> HIDE DEF t
  <2>4. catx'[q] = t /\ \A r \in CatalogRequests : r # q => catx'[r] = catx[r]
    BY <2>3 DEF CatalogInv, CatalogTyped
  <2>5. CatalogTyped'
    BY <1>0, <2>2, <2>3, <2>4 DEF CatalogInv, CatalogTyped
  <2>6. Pinned'
    BY <1>0, <2>2, <2>3, <2>4 DEF CatalogInv, Pinned, RowLocked
  <2>7. QED
    BY <1>1, <2>5, <2>6 DEF CatalogInv
<1>3. CASE TerminateSubscriptionCommit(q)
  <2> DEFINE s == catx[q].sub
             row == [subs[s] EXCEPT !.status = "terminated"]
  <2>1. s \in SubscriptionIds /\ subs[s] \in Subscribed
    BY <1>3 DEF TerminateSubscriptionCommit, CatalogInv, CatalogTyped
  <2>2. row \in Subscribed /\ row # NoSub /\ row.version = subs[s].version /\ row.plan = subs[s].plan
        /\ subs[s] # NoSub
    BY <2>1 DEF Subscribed, NoSub
  <2>3. subs' = [subs EXCEPT ![s] = row] /\ catx' = [catx EXCEPT ![q] = NoTx]
    BY <1>3 DEF TerminateSubscriptionCommit
  <2> HIDE DEF row, s
  <2>4. subs'[s] = row /\ \A r \in SubscriptionIds : r # s => subs'[r] = subs[r]
    BY <2>1, <2>3 DEF CatalogInv, CatalogTyped
  <2>5. catx'[q] = NoTx /\ \A r \in CatalogRequests : r # q => catx'[r] = catx[r]
    BY <2>3 DEF CatalogInv, CatalogTyped
  <2>6. subs' \in [SubscriptionIds -> Subscribed \cup {NoSub}]
    BY <2>1, <2>2, <2>3 DEF CatalogInv, CatalogTyped
  <2>7. CatalogTyped'
    BY <1>0, <2>2, <2>3, <2>4, <2>5, <2>6 DEF CatalogInv, CatalogTyped, NoTx
  <2>8. Pinned'
    BY <1>0, <2>1, <2>2, <2>4, <2>5 DEF CatalogInv, Pinned, RowLocked, NoTx
  <2>9. QED
    BY <1>1, <2>7, <2>8 DEF CatalogInv
<1>4. QED
  BY <1>2, <1>3

\* catalog.go and catalog_plans.go with the triggers and row locks of the database: no
\* overlap of replacements, transitions, plan operations and subscriptions changes
\* the price or the grants a subscription is pinned to.
THEOREM PinnedPlans == CommerceSpec => PinnedPlanStays
<1>1. CommerceInit => CatalogInv
  <2> SUFFICES ASSUME CommerceInit PROVE CatalogInv
    OBVIOUS
  <2>1. CatalogTyped /\ Pinned
    BY DEF CommerceInit, CatalogInit, CatalogTyped, Pinned, NoTx
  <2>2. 0 \in 0..MaxVersions /\ \A v \in Versions : versionState[v] # "none" <=> v <= 0
    BY CatalogAssumption DEF CommerceInit, CatalogInit, Versions
  <2>3. QED
    BY <2>1, <2>2 DEF CatalogInv, Numbered
<1>2. ASSUME CatalogInv, [CommerceNext]_commerceVars
      PROVE  CatalogInv' /\ PinnedContentStays
  <2>1. CASE UNCHANGED <<catalogState, subs>>
    BY <1>2, <2>1 DEF catalogState, CatalogInv, CatalogTyped, Numbered, Pinned, RowLocked,
       PinnedContentStays
  <2>2. CASE CatalogNext
    <3>1. CASE createCatalogVersion
      <4>1. PICK c : CreateCatalogVersion(c)
        BY <3>1 DEF createCatalogVersion
      <4>2. QED
        BY <1>2, <4>1, WriteDraft DEF CreateCatalogVersion, InsertCatalogVersion
    <3>2. CASE \/ createCatalogPlan \/ updateCatalogPlan \/ deleteCatalogPlan
               \/ setPlanEntitlement \/ deletePlanEntitlement
      BY <1>2, <3>2, PlanOperations
      DEF createCatalogPlan, updateCatalogPlan, deleteCatalogPlan, setPlanEntitlement,
          deletePlanEntitlement, CreatePlan, UpdatePlan, DeletePlan, SetPlanEntitlement,
          DeletePlanEntitlement
    <3>3. CASE ToggleWritable
      BY <1>2, <3>3 DEF ToggleWritable, CatalogInv, CatalogTyped, Numbered, Pinned, RowLocked,
         PinnedContentStays
    <3>4. QED
      BY <1>2, <2>2, <3>1, <3>2, <3>3, Replacements, Transitions, Subscriptions,
         Terminations DEF CatalogNext
  <2>3. QED
    BY <1>2, <2>1, <2>2 DEF CommerceNext, commerceVars
<1>3. QED
  BY <1>1, <1>2, PTL DEF CommerceSpec, PinnedPlanStays, PinnedContentStays

-----------------------------------------------------------------------------
(***************************************************************************)
(* Metered prices: folds, sums and the loops over tiers                    *)
(***************************************************************************)

\* Induction over the subsets of a finite set, stated for a set T of them: the
\* empty set is in T, and a set is when the sets one element smaller are.
LEMMA FiniteInduction ==
    ASSUME NEW U, IsFiniteSet(U), NEW T, {} \in T,
           \A s \in SUBSET U : s # {} /\ (\A x \in s : s \ {x} \in T) => s \in T
    PROVE  (SUBSET U) \subseteq T
<1> DEFINE Bad == (SUBSET U) \ T
           R == StrictSubsetOrdering(U)
<1>1. IsWellFoundedOn(R, SUBSET U)
  BY FS_StrictSubsetOrderingWellFounded, FS_FiniteSubsetsOfFinite
<1> SUFFICES ASSUME Bad # {} PROVE FALSE
  OBVIOUS
<1>3. PICK s \in Bad : \A y \in Bad : <<y, s>> \notin R
  <2> HIDE DEF R
  <2> QED BY <1>1, WFMin
<1>4. \A x \in s : <<s \ {x}, s>> \in R
  BY DEF StrictSubsetOrdering
<1> QED BY <1>3, <1>4

-----------------------------------------------------------------------------
(* Folds *)

\* The step of lastAmountUpTo and of calculateTieredCost.
LastStep(rule, q, acc, tier) ==
    IF acc.found THEN acc
    ELSE [found |-> tier.upTo # Missing /\ q <= tier.upTo,
          amount |-> AmountOr(tier, acc.amount)]

TieredStep(rule, acc, tier) ==
    LET qty == Min({tier.upTo - acc.prev, acc.remaining}) IN
    IF acc.stop \/ tier.upTo = Missing THEN acc
    ELSE IF qty <= 0 THEN [acc EXCEPT !.stop = TRUE]
    ELSE [total |-> acc.total + AmountOr(tier, rule.base) * qty,
          remaining |-> acc.remaining - qty,
          prev |-> tier.upTo,
          stop |-> acc.remaining - qty <= 0]

\* The step of PatchSCIMUser, with the addresses that are free, and the step of
\* PatchSCIMGroup, with the users that exist.
UserStep(free, acc, o) ==
    IF o.op = "replace" /\ o.path = "active" THEN PatchSCIMUserActive(acc, o.value)
    ELSE IF o.op = "replace" /\ o.path = "email"
         THEN [acc EXCEPT !.row.email = o.value, !.ok = @ /\ o.value \in free]
         ELSE acc

GroupStep(present, acc, o) ==
    IF o.op = "add" /\ o.path = "members"
    THEN IF o.value \in present THEN [acc EXCEPT !.row = @ \cup {o.value}]
                                ELSE [acc EXCEPT !.ok = FALSE]
    ELSE IF o.op = "remove" THEN RemoveSCIMGroupMember(acc, o.value) ELSE acc

\* A fold of the model: the element it takes, its base and its step.
Summing(f) == <<"sum", f>>
Looking(rule, q) == <<"last", rule, q>>
Tiering(rule, q) == <<"tiered", rule, q>>
PatchingUser(free, row, patch) == <<"user", free, row, patch>>
PatchingGroup(present, row, patch) == <<"group", present, row, patch>>

Taken(p, s) == IF p[1] = "sum" THEN CHOOSE x \in s : TRUE ELSE Max(s)
Base(p) == CASE p[1] = "sum" -> 0
             [] p[1] = "last" -> [found |-> FALSE, amount |-> p[2].base]
             [] p[1] = "tiered" -> [total |-> 0, remaining |-> p[3], prev |-> 0, stop |-> FALSE]
             [] p[1] \in {"user", "group"} -> [ok |-> TRUE, row |-> p[3]]
Bump(p, x, y) == CASE p[1] = "sum" -> p[2][x] + y
                   [] p[1] = "last" -> LastStep(p[2], p[3], y, p[2].tiers[x])
                   [] p[1] = "tiered" -> TieredStep(p[2], y, p[2].tiers[x])
                   [] p[1] = "user" -> UserStep(p[2], y, p[4][x])
                   [] p[1] = "group" -> GroupStep(p[2], y, p[4][x])

Rest(p, s) == s \ {Taken(p, s)}
Unfolded(p, g, S) == [s \in SUBSET S |-> IF s = {} THEN Base(p) ELSE Bump(p, Taken(p, s), g[Rest(p, s)])]
Folder(p, S) == CHOOSE g : g = Unfolded(p, g, S)
Folded(p, S) == Folder(p, S)[S]

\* The fold's choice is an element of every non-empty part of S.
Foldable(p, S) == IsFiniteSet(S) /\ \A s \in SUBSET S : s # {} => Taken(p, s) \in s

\* Two solutions of a fold's equation agree where both are defined.
LEMMA FoldersAgree ==
    ASSUME NEW p, NEW U, Foldable(p, U), NEW V, NEW g, NEW h,
           g = Unfolded(p, g, U), h = Unfolded(p, h, V)
    PROVE  \A t \in SUBSET (U \cap V) : g[t] = h[t]
<1> DEFINE T == {t \in SUBSET (U \cap V) : g[t] = h[t]}
<1>0. IsFiniteSet(U \cap V)
  BY FS_Subset, U \cap V \subseteq U DEF Foldable
<1>1. \A t \in SUBSET U : g[t] = IF t = {} THEN Base(p) ELSE Bump(p, Taken(p, t), g[Rest(p, t)])
  BY DEF Unfolded
<1>2. \A t \in SUBSET V : h[t] = IF t = {} THEN Base(p) ELSE Bump(p, Taken(p, t), h[Rest(p, t)])
  BY DEF Unfolded
<1>3. {} \in T
  BY <1>1, <1>2
<1>4. ASSUME NEW s \in SUBSET (U \cap V), s # {}, \A x \in s : s \ {x} \in T
      PROVE  s \in T
  <2>0. Taken(p, s) \in s
    BY <1>4 DEF Foldable
  <2>1. g[Rest(p, s)] = h[Rest(p, s)]
    BY <1>4, <2>0 DEF Rest
  <2>2. g[s] = Bump(p, Taken(p, s), g[Rest(p, s)]) /\ h[s] = Bump(p, Taken(p, s), h[Rest(p, s)])
    BY <1>4, <1>1, <1>2
  <2> QED BY <2>1, <2>2
<1>5. (SUBSET (U \cap V)) \subseteq T
  <2> DEFINE W == U \cap V
  <2>1. IsFiniteSet(W) /\ {} \in T
    BY <1>0, <1>3
  <2>2. \A s \in SUBSET W : s # {} /\ (\A x \in s : s \ {x} \in T) => s \in T
    BY <1>4
  <2> HIDE DEF T, W
  <2>3. (SUBSET W) \subseteq T
    BY <2>1, <2>2, FiniteInduction
  <2> QED BY <2>3 DEF W
<1> QED BY <1>5

\* The recursive function of a fold exists.
LEMMA FolderExists ==
    ASSUME NEW p, NEW U, Foldable(p, U)
    PROVE  \A u \in SUBSET U : Folder(p, u) = Unfolded(p, Folder(p, u), u)
<1> DEFINE Solved(u) == Folder(p, u) = Unfolded(p, Folder(p, u), u)
           T == {u \in SUBSET U : \A v \in SUBSET u : Solved(v)}
           Less(t) == Rest(p, t)
           Sol(u) == [s \in SUBSET u |->
                        IF s = {} THEN Base(p) ELSE Bump(p, Taken(p, s), Folder(p, Less(s))[Less(s)])]
<1>1. ASSUME NEW u \in SUBSET U, \A v \in SUBSET u : v # u => Solved(v)
      PROVE  Solved(u)
  <2>1. \A s \in SUBSET u : s # {} =>
            Less(s) \in SUBSET u /\ Less(s) # u /\ Solved(Less(s)) /\ Foldable(p, Less(s))
    <3> SUFFICES ASSUME NEW s \in SUBSET u, s # {}
                 PROVE  Less(s) \in SUBSET u /\ Less(s) # u /\ Solved(Less(s)) /\ Foldable(p, Less(s))
      OBVIOUS
    <3>1. Taken(p, s) \in s
      BY DEF Foldable
    <3>2. Less(s) \in SUBSET u /\ Less(s) # u /\ Less(s) \subseteq U
      BY <3>1 DEF Rest
    <3>3. Foldable(p, Less(s))
      BY <3>2, FS_Subset DEF Foldable
    <3> HIDE DEF Solved, Less
    <3> QED BY <3>2, <3>3, <1>1
  <2>2. \A s \in SUBSET u : s # {} => Sol(u)[Less(s)] = Folder(p, Less(s))[Less(s)]
    <3> SUFFICES ASSUME NEW s \in SUBSET u, s # {}
                 PROVE  Sol(u)[Less(s)] = Folder(p, Less(s))[Less(s)]
      OBVIOUS
    <3> DEFINE r == Less(s)
               a == Folder(p, r)
    <3>1. r \in SUBSET u /\ a = Unfolded(p, a, r) /\ Foldable(p, r)
      BY <2>1
    <3>2. CASE r = {}
      <4>1. a[r] = Base(p)
        BY <3>1, <3>2 DEF Unfolded
      <4>2. Sol(u)[r] = Base(p)
        BY <3>1, <3>2
      <4> QED BY <4>1, <4>2
    <3>3. CASE r # {}
      <4> DEFINE q == Less(r)
                 b == Folder(p, q)
      <4>1. q \in SUBSET u /\ b = Unfolded(p, b, q)
        BY <2>1, <3>1, <3>3
      <4>2. a[r] = Bump(p, Taken(p, r), a[q])
        BY <3>1, <3>3 DEF Unfolded
      <4>3. Sol(u)[r] = Bump(p, Taken(p, r), b[q])
        BY <3>1, <3>3
      <4>4. a[q] = b[q]
        <5> DEFINE R == r
                   Q == q
                   A == a
                   B == b
        <5>1. A = Unfolded(p, A, R) /\ B = Unfolded(p, B, Q) /\ Foldable(p, R) /\ Q \in SUBSET (R \cap Q)
          BY <3>1, <4>1 DEF Rest
        <5> HIDE DEF R, Q, A, B
        <5>2. A[Q] = B[Q]
          BY <5>1, FoldersAgree
        <5> QED BY <5>2 DEF R, Q, A, B
      <4> HIDE DEF a, b, q, r, Sol
      <4> QED BY <4>2, <4>3, <4>4 DEF a, r
    <3> QED BY <3>2, <3>3
  <2>3. Sol(u) = Unfolded(p, Sol(u), u)
    <3> DEFINE S == Sol(u)
    <3>1. \A s \in SUBSET u : S[s] = IF s = {} THEN Base(p) ELSE Bump(p, Taken(p, s), S[Less(s)])
      BY <2>2
    <3>2. S = [s \in SUBSET u |-> S[s]]
      OBVIOUS
    <3> HIDE DEF S
    <3>3. S = Unfolded(p, S, u)
      BY <3>1, <3>2 DEF Unfolded
    <3> QED BY <3>3 DEF S
  <2> QED
    <3> DEFINE S == Sol(u)
    <3> HIDE DEF S
    <3>1. S = Unfolded(p, S, u)
      BY <2>3 DEF S
    <3>2. \E g : g = Unfolded(p, g, u)
      BY <3>1
    <3> QED BY <3>2 DEF Folder
<1> HIDE DEF Solved, Sol, Less
<1>2. {} \in T
  BY <1>1
<1>3. ASSUME NEW s \in SUBSET U, s # {}, \A x \in s : s \ {x} \in T
      PROVE  s \in T
  <2>1. ASSUME NEW v \in SUBSET s, v # s
        PROVE  Solved(v)
    <3>1. PICK x \in s : x \notin v
      BY <2>1
    <3>2. v \in SUBSET (s \ {x})
      BY <3>1
    <3> QED BY <3>2, <1>3
  <2>2. Solved(s)
    BY <2>1, <1>1
  <2> QED BY <2>1, <2>2
<1>4. (SUBSET U) \subseteq T
  <2> HIDE DEF T
  <2> QED BY <1>2, <1>3, FiniteInduction DEF Foldable
<1> QED BY <1>4 DEF Solved

\* A fold of nothing, and a fold taken one element further.
LEMMA FoldEmpty == ASSUME NEW p, Foldable(p, {}) PROVE Folded(p, {}) = Base(p)
<1>1. Folder(p, {}) = Unfolded(p, Folder(p, {}), {})
  BY FolderExists, {} \in SUBSET {}
<1> QED BY <1>1 DEF Unfolded, Folded

\* A fold taken one element further.
LEMMA FoldOnce ==
    ASSUME NEW p, NEW S, Foldable(p, S), S # {}
    PROVE  Folded(p, S) = Bump(p, Taken(p, S), Folded(p, Rest(p, S)))
<1> DEFINE r == Rest(p, S)
           a == Folder(p, S)
           b == Folder(p, r)
<1>1. r \in SUBSET S /\ r \in SUBSET (S \cap r)
  BY DEF Rest
<1>2. a = Unfolded(p, a, S) /\ b = Unfolded(p, b, r)
  BY FolderExists, <1>1, S \in SUBSET S
<1>3. a[S] = Bump(p, Taken(p, S), a[r])
  BY <1>2 DEF Unfolded
<1> HIDE DEF a, b, r
<1>4. a[r] = b[r]
  BY <1>1, <1>2, FoldersAgree
<1> QED BY <1>3, <1>4 DEF r, a, b, Folded

\* Any recursive function with the fold's equation is the fold.
LEMMA FoldUnique ==
    ASSUME NEW p, NEW S, Foldable(p, S), NEW g, g = Unfolded(p, g, S)
    PROVE  g[S] = Folded(p, S)
<1> DEFINE b == Folder(p, S)
<1>1. b = Unfolded(p, b, S) /\ S \in SUBSET (S \cap S)
  BY FolderExists, S \in SUBSET S
<1> HIDE DEF b
<1>2. g[S] = b[S]
  BY <1>1, FoldersAgree
<1> QED BY <1>2 DEF Folded, b

\* Finite sets of integers have a greatest and a least element.
LEMMA HasMaximum ==
    ASSUME NEW U, IsFiniteSet(U), U \subseteq Int, U # {}
    PROVE  Max(U) \in U /\ \A y \in U : y <= Max(U)
<1> DEFINE Top(s) == \E x \in s : \A y \in s : x >= y
           T == {s \in SUBSET U : s # {} => Top(s)}
<1>1. {} \in T
  OBVIOUS
<1>2. ASSUME NEW s \in SUBSET U, s # {}, \A x \in s : s \ {x} \in T
      PROVE  s \in T
  <2>1. PICK x : x \in s
    BY <1>2
  <2>2. CASE s \ {x} = {}
    <3>1. \A y \in s : x >= y
      BY <2>1, <2>2
    <3> QED BY <2>1, <3>1
  <2>3. CASE s \ {x} # {}
    <3>1. PICK z \in s \ {x} : \A y \in s \ {x} : z >= y
      BY <2>1, <2>3, <1>2
    <3>2. CASE x >= z
      <4>1. \A y \in s : x >= y
        BY <2>1, <3>1, <3>2
      <4> QED BY <2>1, <4>1
    <3>3. CASE ~ (x >= z)
      <4>1. \A y \in s : z >= y
        BY <2>1, <3>1, <3>3
      <4> QED BY <3>1, <4>1
    <3> QED BY <3>2, <3>3
  <2> QED BY <2>2, <2>3
<1>3. (SUBSET U) \subseteq T
  <2> HIDE DEF T
  <2> QED BY <1>1, <1>2, FiniteInduction
<1>4. \E x \in U : \A y \in U : x >= y
  BY <1>3, U \in SUBSET U
<1>5. Max(U) \in U /\ \A y \in U : Max(U) >= y
  BY <1>4 DEF Max
<1> QED BY <1>5

\* A finite set of integers has a least element.
LEMMA HasLeast ==
    ASSUME NEW U, IsFiniteSet(U), U \subseteq Int, U # {}
    PROVE  \E x \in U : \A y \in U : x <= y
<1> DEFINE Low(s) == \E x \in s : \A y \in s : x <= y
           T == {s \in SUBSET U : s # {} => Low(s)}
<1>1. {} \in T
  OBVIOUS
<1>2. ASSUME NEW s \in SUBSET U, s # {}, \A x \in s : s \ {x} \in T
      PROVE  s \in T
  <2>1. PICK x : x \in s
    BY <1>2
  <2>2. CASE s \ {x} = {}
    <3>1. \A y \in s : x <= y
      BY <2>1, <2>2
    <3> QED BY <2>1, <3>1
  <2>3. CASE s \ {x} # {}
    <3>1. PICK z \in s \ {x} : \A y \in s \ {x} : z <= y
      BY <2>1, <2>3, <1>2
    <3>2. CASE x <= z
      <4>1. \A y \in s : x <= y
        BY <2>1, <3>1, <3>2
      <4> QED BY <2>1, <4>1
    <3>3. CASE ~ (x <= z)
      <4>1. \A y \in s : z <= y
        BY <2>1, <3>1, <3>3
      <4> QED BY <3>1, <4>1
    <3> QED BY <3>2, <3>3
  <2> QED BY <2>2, <2>3
<1>3. (SUBSET U) \subseteq T
  <2> HIDE DEF T
  <2> QED BY <1>1, <1>2, FiniteInduction
<1>4. \E x \in U : \A y \in U : x <= y
  BY <1>3, U \in SUBSET U
<1> QED BY <1>4

\* The lesser of two integers.
LEMMA MinOfTwo ==
    ASSUME NEW a \in Int, NEW b \in Int
    PROVE  Min({a, b}) = IF a <= b THEN a ELSE b
<1> DEFINE m == IF a <= b THEN a ELSE b
<1>1. m \in {a, b} /\ \A y \in {a, b} : m <= y
  OBVIOUS
<1>2. Min({a, b}) \in {a, b} /\ \A y \in {a, b} : Min({a, b}) <= y
  BY <1>1 DEF Min
<1> QED BY <1>1, <1>2

-----------------------------------------------------------------------------
(* Sums *)

\* The sum of f over S, as the model writes it.
Total(f, S) == MapThenSumSet(LAMBDA i : f[i], S)

\* A sum is such a fold, with addition as its step.
LEMMA SumFoldable == ASSUME NEW f, NEW S, IsFiniteSet(S) PROVE Foldable(Summing(f), S)
BY DEF Foldable, Summing, Taken

\* Its step is addition.
LEMMA SumStep == ASSUME NEW f, NEW x, NEW y PROVE Bump(Summing(f), x, y) = f[x] + y
BY DEF Bump, Summing

\* The sum of the library is this fold.
LEMMA TotalIsFold ==
    ASSUME NEW f, NEW S, IsFiniteSet(S)
    PROVE  Total(f, S) = Folded(Summing(f), S)
<1> DEFINE Body(g) == [s \in SUBSET S |-> IF s = {} THEN 0
                          ELSE f[CHOOSE x \in s : TRUE] + g[s \ {CHOOSE x \in s : TRUE}]]
           iter == CHOOSE g : g = Body(g)
           p == Summing(f)
<1>1. Total(f, S) = iter[S]
  BY DEF Total, MapThenSumSet, MapThenFoldSet
<1>2. ASSUME NEW g PROVE Body(g) = Unfolded(p, g, S)
  <2>1. \A s : Taken(p, s) = CHOOSE x \in s : TRUE
    BY DEF Taken, Summing
  <2>2. Base(p) = 0
    BY DEF Base, Summing
  <2>3. \A x, y : Bump(p, x, y) = f[x] + y
    BY SumStep
  <2> HIDE DEF p
  <2> QED BY <2>1, <2>2, <2>3 DEF Unfolded, Rest
<1>3. \E g : g = Body(g)
  <2>1. Folder(p, S) = Unfolded(p, Folder(p, S), S)
    BY FolderExists, SumFoldable, S \in SUBSET S
  <2> QED BY <2>1, <1>2
<1>4. iter = Body(iter)
  <2> HIDE DEF Body
  <2> QED BY <1>3
<1>5. iter = Unfolded(p, iter, S)
  BY <1>2, <1>4
<1> HIDE DEF iter, p
<1>6. iter[S] = Folded(p, S)
  BY <1>5, FoldUnique, SumFoldable DEF p
<1> QED BY <1>1, <1>6 DEF p

\* The sum of nothing.
LEMMA TotalEmpty == ASSUME NEW f PROVE Total(f, {}) = 0
<1>1. Foldable(Summing(f), {}) /\ Total(f, {}) = Folded(Summing(f), {})
  BY TotalIsFold, SumFoldable, FS_EmptySet
<1>2. Base(Summing(f)) = 0
  BY DEF Base, Summing
<1> QED BY <1>1, <1>2, FoldEmpty

\* Some element can be taken out of a sum.
LEMMA TotalOnce ==
    ASSUME NEW f, NEW S, IsFiniteSet(S), S # {}
    PROVE  \E x \in S : Total(f, S) = f[x] + Total(f, S \ {x})
<1> DEFINE p == Summing(f)
           x == Taken(p, S)
<1>1. Foldable(p, S) /\ IsFiniteSet(S \ {x})
  BY SumFoldable, FS_Subset
<1>2. x \in S
  BY <1>1 DEF Foldable
<1>3. Folded(p, S) = f[x] + Folded(p, S \ {x})
  BY <1>1, FoldOnce, SumStep DEF Rest
<1>4. Total(f, S) = Folded(p, S) /\ Total(f, S \ {x}) = Folded(p, S \ {x})
  BY <1>1, TotalIsFold
<1> HIDE DEF x
<1> QED BY <1>2, <1>3, <1>4

\* A sum of integers is an integer.
LEMMA TotalInt ==
    ASSUME NEW f, NEW U, IsFiniteSet(U), \A i \in U : f[i] \in Int
    PROVE  \A s \in SUBSET U : Total(f, s) \in Int
<1> DEFINE T == {s \in SUBSET U : Total(f, s) \in Int}
<1>1. {} \in T
  BY TotalEmpty
<1>2. ASSUME NEW s \in SUBSET U, s # {}, \A x \in s : s \ {x} \in T
      PROVE  s \in T
  <2>1. IsFiniteSet(s)
    BY FS_Subset
  <2>2. PICK x \in s : Total(f, s) = f[x] + Total(f, s \ {x})
    BY <1>2, <2>1, TotalOnce
  <2> QED BY <1>2, <2>2
<1>3. (SUBSET U) \subseteq T
  <2> HIDE DEF T
  <2> QED BY <1>1, <1>2, FiniteInduction
<1> QED BY <1>3

\* Any element can be taken out first.
LEMMA TotalWithout ==
    ASSUME NEW f, NEW U, IsFiniteSet(U), \A i \in U : f[i] \in Int
    PROVE  \A s \in SUBSET U : \A x \in s : Total(f, s) = f[x] + Total(f, s \ {x})
<1> DEFINE T == {s \in SUBSET U : \A x \in s : Total(f, s) = f[x] + Total(f, s \ {x})}
<1>1. {} \in T
  OBVIOUS
<1>2. ASSUME NEW s \in SUBSET U, s # {}, \A x \in s : s \ {x} \in T
      PROVE  s \in T
  <2> SUFFICES ASSUME NEW x \in s PROVE Total(f, s) = f[x] + Total(f, s \ {x})
    OBVIOUS
  <2>1. IsFiniteSet(s)
    BY FS_Subset
  <2>2. PICK p \in s : Total(f, s) = f[p] + Total(f, s \ {p})
    BY <1>2, <2>1, TotalOnce
  <2>3. CASE x = p
    BY <2>2, <2>3
  <2>4. CASE x # p
    <3>1. Total(f, s \ {p}) = f[x] + Total(f, (s \ {p}) \ {x})
      BY <1>2, <2>4
    <3>2. Total(f, s \ {x}) = f[p] + Total(f, (s \ {x}) \ {p})
      BY <1>2, <2>4
    <3>3. (s \ {x}) \ {p} = (s \ {p}) \ {x} /\ (s \ {p}) \ {x} \in SUBSET U
      OBVIOUS
    <3>4. f[x] \in Int /\ f[p] \in Int /\ Total(f, (s \ {p}) \ {x}) \in Int
      BY <3>3, TotalInt
    <3>5. Total(f, s \ {x}) = f[p] + Total(f, (s \ {p}) \ {x})
      BY <3>2, <3>3
    <3>6. \A a, b, c \in Int : a + (b + c) = b + (a + c)
      OBVIOUS
    <3> QED BY <2>2, <3>1, <3>4, <3>5, <3>6
  <2> QED BY <2>3, <2>4
<1>3. (SUBSET U) \subseteq T
  <2> HIDE DEF T
  <2> QED BY <1>1, <1>2, FiniteInduction
<1> QED BY <1>3

\* The sum over an interval grows by one value for every unit.
LEMMA TotalNextUnit ==
    ASSUME NEW f, NEW q \in Nat, \A i \in 1..q : f[i] \in Int, NEW n \in Nat, n < q
    PROVE  Total(f, 1..(n + 1)) = f[n + 1] + Total(f, 1..n)
<1>1. IsFiniteSet(1..q) /\ 1..(n + 1) \in SUBSET (1..q) /\ n + 1 \in 1..(n + 1)
  BY FS_Interval
<1>2. (1..(n + 1)) \ {n + 1} = 1..n
  OBVIOUS
<1>3. Total(f, 1..(n + 1)) = f[n + 1] + Total(f, (1..(n + 1)) \ {n + 1})
  BY <1>1, TotalWithout
<1> QED BY <1>2, <1>3

\* The positions 0..n: what holds at 0 and goes from one to the next holds at all.
LEMMA UpTo ==
    ASSUME NEW n \in Nat, NEW T, 0 \in T, \A i \in 0..(n - 1) : i \in T => i + 1 \in T
    PROVE  0..n \subseteq T
<1> DEFINE Bad == (0..n) \ T
<1> SUFFICES ASSUME Bad # {} PROVE FALSE
  OBVIOUS
<1>1. IsFiniteSet(0..n)
  BY FS_Interval
<1>2. IsFiniteSet(Bad) /\ Bad \subseteq Int
  BY <1>1, FS_Subset
<1> HIDE DEF Bad
<1>3. PICK x \in Bad : \A y \in Bad : x <= y
  BY <1>2, HasLeast
<1>4. x \in 0..n /\ x \notin T /\ x # 0
  BY <1>3 DEF Bad
<1>5. x - 1 \in 0..(n - 1) /\ x - 1 \notin Bad
  BY <1>3, <1>4
<1>6. x - 1 \in T
  BY <1>5 DEF Bad
<1>7. (x - 1) + 1 \in T
  BY <1>5, <1>6
<1> QED BY <1>4, <1>7

\* Up to q, a stretch of k units at the price c adds c * k.
AddsEvenly(f, q) ==
    \A a, k \in Nat, c \in Int :
        a + k <= q /\ (\A u \in (a + 1)..(a + k) : f[u] = c)
            => Total(f, 1..(a + k)) = Total(f, 1..a) + c * k

\* Sums over intervals add evenly.
LEMMA TotalOfEqualUnits ==
    ASSUME NEW f, NEW q \in Nat, \A i \in 1..q : f[i] \in Int
    PROVE  AddsEvenly(f, q)
<1> SUFFICES ASSUME NEW a \in Nat, NEW k \in Nat, NEW c \in Int, a + k <= q,
                    \A u \in (a + 1)..(a + k) : f[u] = c
             PROVE  Total(f, 1..(a + k)) = Total(f, 1..a) + c * k
  BY DEF AddsEvenly
<1> DEFINE T == {n \in 0..k : Total(f, 1..(a + n)) = Total(f, 1..a) + c * n}
<1>0. \A n \in Nat : n <= q => Total(f, 1..n) \in Int
  <2>1. IsFiniteSet(1..q)
    BY FS_Interval
  <2> QED BY <2>1, TotalInt
<1>1. 0 \in T
  BY <1>0
<1>2. ASSUME NEW n \in 0..(k - 1), n \in T PROVE n + 1 \in T
  <2>1. a + n \in Nat /\ a + n < q /\ (a + n) + 1 = a + (n + 1)
    OBVIOUS
  <2>2. Total(f, 1..((a + n) + 1)) = f[(a + n) + 1] + Total(f, 1..(a + n))
    BY <2>1, TotalNextUnit
  <2>3. f[a + (n + 1)] = c
    OBVIOUS
  <2>4. c * (n + 1) = c * n + c
    OBVIOUS
  <2>5. Total(f, 1..(a + n)) = Total(f, 1..a) + c * n
    BY <1>2
  <2>6. Total(f, 1..a) \in Int /\ c * n \in Int
    BY <1>0
  <2> QED BY <2>1, <2>2, <2>3, <2>4, <2>5, <2>6
<1>3. 0..k \subseteq T
  <2> HIDE DEF T
  <2> QED BY <1>1, <1>2, UpTo
<1> QED BY <1>3

\* A sum of natural numbers is a natural number.
LEMMA TotalNat ==
    ASSUME NEW f, NEW U, IsFiniteSet(U), \A i \in U : f[i] \in Nat
    PROVE  \A s \in SUBSET U : Total(f, s) \in Nat
<1> DEFINE T == {s \in SUBSET U : Total(f, s) \in Nat}
<1>1. {} \in T
  BY TotalEmpty
<1>2. ASSUME NEW s \in SUBSET U, s # {}, \A x \in s : s \ {x} \in T
      PROVE  s \in T
  <2>1. IsFiniteSet(s)
    BY FS_Subset
  <2>2. PICK x \in s : Total(f, s) = f[x] + Total(f, s \ {x})
    BY <1>2, <2>1, TotalOnce
  <2> QED BY <1>2, <2>2
<1>3. (SUBSET U) \subseteq T
  <2> HIDE DEF T
  <2> QED BY <1>1, <1>2, FiniteInduction
<1> QED BY <1>3

\* A sum depends on the values at the elements only.
LEMMA TotalSame ==
    ASSUME NEW f, NEW h, NEW U, IsFiniteSet(U), \A i \in U : f[i] \in Int /\ f[i] = h[i]
    PROVE  Total(f, U) = Total(h, U)
<1> DEFINE T == {s \in SUBSET U : Total(f, s) = Total(h, s)}
<1>1. {} \in T
  BY TotalEmpty
<1>2. ASSUME NEW s \in SUBSET U, s # {}, \A x \in s : s \ {x} \in T
      PROVE  s \in T
  <2>1. PICK x : x \in s
    BY <1>2
  <2>2. Total(f, s) = f[x] + Total(f, s \ {x}) /\ Total(h, s) = h[x] + Total(h, s \ {x})
    BY <2>1, TotalWithout
  <2> QED BY <1>2, <2>1, <2>2
<1>3. (SUBSET U) \subseteq T
  <2> HIDE DEF T
  <2> QED BY <1>1, <1>2, FiniteInduction
<1> QED BY <1>3, U \in SUBSET U

\* Part of the elements adds up to no more.
LEMMA TotalPart ==
    ASSUME NEW f, NEW U, IsFiniteSet(U), \A i \in U : f[i] \in Nat
    PROVE  \A s \in SUBSET U : Total(f, s) <= Total(f, U)
<1> DEFINE T == {s \in SUBSET U : \A v \in SUBSET s : Total(f, v) <= Total(f, s)}
<1>1. {} \in T
  BY TotalNat
<1>2. ASSUME NEW s \in SUBSET U, s # {}, \A x \in s : s \ {x} \in T
      PROVE  s \in T
  <2> SUFFICES ASSUME NEW v \in SUBSET s PROVE Total(f, v) <= Total(f, s)
    OBVIOUS
  <2>0. Total(f, s) \in Nat
    BY TotalNat
  <2>1. CASE v = s
    BY <2>0, <2>1
  <2>2. CASE v # s
    <3>1. PICK x \in s : x \notin v
      BY <2>2
    <3>2. v \in SUBSET (s \ {x}) /\ s \ {x} \in SUBSET U /\ v \in SUBSET U
      BY <3>1
    <3>3. Total(f, v) <= Total(f, s \ {x})
      BY <3>2, <1>2
    <3>4. Total(f, s) = f[x] + Total(f, s \ {x})
      BY TotalWithout
    <3>5. f[x] \in Nat /\ Total(f, v) \in Nat /\ Total(f, s \ {x}) \in Nat
      BY <3>2, TotalNat
    <3> QED BY <3>3, <3>4, <3>5
  <2> QED BY <2>1, <2>2
<1>3. (SUBSET U) \subseteq T
  <2> HIDE DEF T
  <2> QED BY <1>1, <1>2, FiniteInduction
<1> QED BY <1>3, U \in SUBSET U

\* One more times m.
LEMMA OneMore == ASSUME NEW k \in Nat, NEW m \in Nat PROVE (k + 1) * m = k * m + m /\ k * m \in Nat
OBVIOUS

\* Values of at most m add up to at most m for each.
LEMMA TotalBounded ==
    ASSUME NEW f, NEW U, IsFiniteSet(U), NEW m \in Nat, \A i \in U : f[i] \in Nat /\ f[i] <= m
    PROVE  \A s \in SUBSET U : Total(f, s) <= Cardinality(s) * m
<1> DEFINE T == {s \in SUBSET U : Total(f, s) <= Cardinality(s) * m}
<1>1. {} \in T
  BY TotalEmpty, FS_EmptySet
<1>2. ASSUME NEW s \in SUBSET U, s # {}, \A x \in s : s \ {x} \in T
      PROVE  s \in T
  <2>1. PICK x : x \in s
    BY <1>2
  <2> DEFINE r == s \ {x}
             k == Cardinality(r)
  <2>2. IsFiniteSet(s) /\ IsFiniteSet(r) /\ r \in SUBSET U
    BY FS_Subset
  <2>3. k \in Nat /\ Cardinality(s) = k + 1
    <3>1. Cardinality(s) \in Nat /\ Cardinality(r) = Cardinality(s) - 1
      BY <2>1, <2>2, FS_RemoveElement, FS_CardinalityType
    <3> QED BY <3>1, <2>2, FS_CardinalityType
  <2>4. Total(f, s) = f[x] + Total(f, r)
    BY <2>1, TotalWithout
  <2>5. Total(f, r) <= k * m
    BY <1>2, <2>1
  <2>6. f[x] \in Nat /\ f[x] <= m /\ Total(f, r) \in Nat
    BY <2>1, <2>2, TotalNat
  <2> HIDE DEF k, r
  <2>7. (k + 1) * m = k * m + m /\ k * m \in Nat
    BY <2>3, OneMore
  <2>8. f[x] + Total(f, r) <= k * m + m
    BY <2>5, <2>6, <2>7
  <2> QED BY <2>3, <2>4, <2>7, <2>8
<1>3. (SUBSET U) \subseteq T
  <2> HIDE DEF T
  <2> QED BY <1>1, <1>2, FiniteInduction
<1> QED BY <1>3

-----------------------------------------------------------------------------
(* Loops over the tiers *)

\* A loop over n tiers is a fold that takes the greatest position first.
LEMMA LoopFoldable ==
    ASSUME NEW p, p[1] # "sum", NEW n \in Nat
    PROVE  Foldable(p, 1..n)
<1>1. IsFiniteSet(1..n)
  BY FS_Interval
<1>2. ASSUME NEW s \in SUBSET (1..n), s # {} PROVE Taken(p, s) \in s
  <2>0. IsFiniteSet(s)
    BY <1>1, FS_Subset
  <2>1. IsFiniteSet(s) /\ s \subseteq Int
    BY <2>0
  <2>2. Max(s) \in s
    BY <2>1, <1>2, HasMaximum
  <2> QED BY <2>2 DEF Taken
<1> QED BY <1>1, <1>2 DEF Foldable

\* A loop that has come to the next tier.
LEMMA LoopNext ==
    ASSUME NEW p, p[1] # "sum", NEW n \in Nat
    PROVE  Folded(p, 1..(n + 1)) = Bump(p, n + 1, Folded(p, 1..n))
<1> DEFINE S == 1..(n + 1)
<1>1. IsFiniteSet(S) /\ S \subseteq Int /\ S # {} /\ n + 1 \in S /\ \A y \in S : y <= n + 1
  <2>1. IsFiniteSet(S)
    BY FS_Interval, n + 1 \in Int
  <2>2. S \subseteq Int /\ n + 1 \in S /\ \A y \in S : y <= n + 1
    OBVIOUS
  <2> QED BY <2>1, <2>2
<1>2. Foldable(p, S)
  BY LoopFoldable, n + 1 \in Nat
<1> HIDE DEF S
<1>3. Max(S) \in S /\ \A y \in S : y <= Max(S)
  BY <1>1, HasMaximum
<1>4. Max(S) = n + 1
  <2>1. Max(S) <= n + 1 /\ n + 1 <= Max(S) /\ Max(S) \in Int
    BY <1>1, <1>3
  <2> QED BY <2>1
<1>5. Taken(p, S) = n + 1
  BY <1>4 DEF Taken
<1>6. Rest(p, S) = 1..n
  BY <1>5 DEF Rest, S
<1> QED BY <1>1, <1>2, <1>5, <1>6, FoldOnce DEF S

\* A loop that has seen no tier.
LEMMA LoopStart ==
    ASSUME NEW p, p[1] # "sum"
    PROVE  Folded(p, 1..0) = Base(p)
<1>1. 1..0 = {}
  OBVIOUS
<1>2. Foldable(p, 1..0)
  BY LoopFoldable, 0 \in Nat
<1> QED BY <1>1, <1>2, FoldEmpty

\* The loop of lastAmountUpTo is the fold Looking.
LEMMA LookIsFold ==
    ASSUME NEW rule, NEW q, NEW n \in Nat, DOMAIN rule.tiers = 1..n
    PROVE  lastAmountUpTo(rule, q) = Folded(Looking(rule, q), 1..n).amount
<1> DEFINE S == 1..n
           Body(g) == [s \in SUBSET S |-> IF s = {} THEN [found |-> FALSE, amount |-> rule.base]
                          ELSE LastStep(rule, q, g[s \ {Max(s)}], rule.tiers[Max(s)])]
           iter == CHOOSE g : g = Body(g)
           p == Looking(rule, q)
<1>1. lastAmountUpTo(rule, q) = iter[S].amount
  BY DEF lastAmountUpTo, FoldLeft, MapThenFoldSet, LastStep
<1>0. Foldable(p, S)
  BY LoopFoldable DEF Looking
<1>2. ASSUME NEW g PROVE Body(g) = Unfolded(p, g, S)
  <2>1. \A s : Taken(p, s) = Max(s)
    BY DEF Taken, Looking
  <2>2. Base(p) = [found |-> FALSE, amount |-> rule.base]
    BY DEF Base, Looking
  <2>3. \A x, y : Bump(p, x, y) = LastStep(rule, q, y, rule.tiers[x])
    BY DEF Bump, Looking
  <2> HIDE DEF p
  <2> QED BY <2>1, <2>2, <2>3 DEF Unfolded, Rest
<1>3. \E g : g = Body(g)
  <2>1. Folder(p, S) = Unfolded(p, Folder(p, S), S)
    BY <1>0, FolderExists, S \in SUBSET S
  <2> QED BY <2>1, <1>2
<1>4. iter = Body(iter)
  <2> HIDE DEF Body
  <2> QED BY <1>3
<1>5. iter = Unfolded(p, iter, S)
  BY <1>2, <1>4
<1> HIDE DEF iter, p
<1>6. iter[S] = Folded(p, S)
  BY <1>0, <1>5, FoldUnique
<1> QED BY <1>1, <1>6 DEF p

\* The loop of calculateTieredCost is the fold Tiering.
LEMMA TieredIsFold ==
    ASSUME NEW rule, NEW q, NEW n \in Nat, DOMAIN rule.tiers = 1..n
    PROVE  calculateTieredCost(rule, q) = Max({Folded(Tiering(rule, q), 1..n).total, rule.minimum})
<1> DEFINE S == 1..n
           Body(g) == [s \in SUBSET S |-> IF s = {}
                          THEN [total |-> 0, remaining |-> q, prev |-> 0, stop |-> FALSE]
                          ELSE TieredStep(rule, g[s \ {Max(s)}], rule.tiers[Max(s)])]
           iter == CHOOSE g : g = Body(g)
           p == Tiering(rule, q)
<1>1. calculateTieredCost(rule, q) = Max({iter[S].total, rule.minimum})
  BY DEF calculateTieredCost, FoldLeft, MapThenFoldSet, TieredStep
<1>0. Foldable(p, S)
  BY LoopFoldable DEF Tiering
<1>2. ASSUME NEW g PROVE Body(g) = Unfolded(p, g, S)
  <2>1. \A s : Taken(p, s) = Max(s)
    BY DEF Taken, Tiering
  <2>2. Base(p) = [total |-> 0, remaining |-> q, prev |-> 0, stop |-> FALSE]
    BY DEF Base, Tiering
  <2>3. \A x, y : Bump(p, x, y) = TieredStep(rule, y, rule.tiers[x])
    BY DEF Bump, Tiering
  <2> HIDE DEF p
  <2> QED BY <2>1, <2>2, <2>3 DEF Unfolded, Rest
<1>3. \E g : g = Body(g)
  <2>1. Folder(p, S) = Unfolded(p, Folder(p, S), S)
    BY <1>0, FolderExists, S \in SUBSET S
  <2> QED BY <2>1, <1>2
<1>4. iter = Body(iter)
  <2> HIDE DEF Body
  <2> QED BY <1>3
<1>5. iter = Unfolded(p, iter, S)
  BY <1>2, <1>4
<1> HIDE DEF iter, p
<1>6. iter[S] = Folded(p, S)
  BY <1>0, <1>5, FoldUnique
<1> QED BY <1>1, <1>6 DEF p

TierRows == [upTo : Int, amount : Int]

\* Bounded ascending tiers, n of them.
Graded(tiers, n) == n \in Nat \ {0} /\ tiers \in [1..n -> TierRows] /\ Ascending(tiers)

\* The bound below tier i + 1.
Bound(tiers, i) == IF i = 0 THEN 0 ELSE tiers[i].upTo

\* The bounds of ascending tiers are natural numbers and grow.
LEMMA GradedBounds ==
    ASSUME NEW tiers, NEW n, Graded(tiers, n)
    PROVE  /\ \A i \in 0..n : Bound(tiers, i) \in Nat
           /\ \A i \in 0..(n - 1) : Bound(tiers, i) < Bound(tiers, i + 1)
           /\ \A i \in 1..n : Bound(tiers, i) = tiers[i].upTo
           /\ \A i \in 1..n : tiers[i].amount \in Int /\ tiers[i].amount # Missing /\ tiers[i].upTo # Missing
           /\ n \in Nat \ {0}
<1> DEFINE T == {k \in 0..n : Bound(tiers, k) \in Nat}
<1>0. n \in Nat \ {0} /\ DOMAIN tiers = 1..n
  BY DEF Graded
<1>1. \A i \in 1..n : tiers[i].upTo \in Int /\ tiers[i].amount \in Int /\ tiers[i].amount # Missing
  BY <1>0 DEF Graded, TierRows, Ascending
<1>2. \A i \in 0..(n - 1) : Bound(tiers, i) < Bound(tiers, i + 1)
  <2> SUFFICES ASSUME NEW i \in 0..(n - 1) PROVE Bound(tiers, i) < Bound(tiers, i + 1)
    OBVIOUS
  <2>1. i + 1 \in DOMAIN tiers /\ i + 1 # 0 /\ (i + 1) - 1 = i
    BY <1>0
  <2>2. tiers[i + 1].upTo > (IF i + 1 = 1 THEN 0 ELSE tiers[i].upTo)
    BY <2>1 DEF Graded, Ascending
  <2>3. CASE i = 0
    BY <2>1, <2>2, <2>3, <1>0, <1>1 DEF Bound
  <2>4. CASE i # 0
    BY <2>1, <2>2, <2>4, <1>0, <1>1 DEF Bound
  <2> QED BY <2>3, <2>4
<1>3. 0..n \subseteq T
  <2>1. 0 \in T
    BY <1>0 DEF Bound
  <2>2. ASSUME NEW i \in 0..(n - 1), i \in T PROVE i + 1 \in T
    <3>1. Bound(tiers, i) < Bound(tiers, i + 1) /\ Bound(tiers, i) \in Nat
      BY <1>2, <2>2
    <3>2. Bound(tiers, i + 1) \in Int
      BY <1>0, <1>1 DEF Bound
    <3> QED BY <1>0, <3>1, <3>2
  <2> HIDE DEF T
  <2> QED BY <1>0, <2>1, <2>2, UpTo
<1>4. \A i \in 1..n : Bound(tiers, i) = tiers[i].upTo
  BY DEF Bound
<1>5. \A i \in 1..n : tiers[i].upTo # Missing
  BY <1>0, <1>3, <1>4 DEF Missing
<1> QED BY <1>0, <1>1, <1>2, <1>3, <1>4, <1>5

\* A later tier reaches at least as far.
LEMMA GradedMonotone ==
    ASSUME NEW tiers, NEW n, Graded(tiers, n)
    PROVE  \A k \in 0..n : \A j \in 0..k : Bound(tiers, j) <= Bound(tiers, k)
<1> DEFINE T == {k \in 0..n : \A j \in 0..k : Bound(tiers, j) <= Bound(tiers, k)}
<1>0. n \in Nat
  BY GradedBounds
<1>1. 0 \in T
  BY <1>0, GradedBounds
<1>2. ASSUME NEW k \in 0..(n - 1), k \in T PROVE k + 1 \in T
  <2>1. Bound(tiers, k) < Bound(tiers, k + 1) /\ Bound(tiers, k) \in Nat /\ Bound(tiers, k + 1) \in Nat
    BY <1>0, GradedBounds
  <2>2. ASSUME NEW j \in 0..(k + 1) PROVE Bound(tiers, j) <= Bound(tiers, k + 1)
    <3>1. CASE j = k + 1
      BY <2>1, <3>1
    <3>2. CASE j # k + 1
      <4>1. j \in 0..k /\ j \in 0..n
        BY <1>0, <3>2
      <4>2. Bound(tiers, j) <= Bound(tiers, k) /\ Bound(tiers, j) \in Nat
        BY <1>2, <4>1, GradedBounds
      <4> QED BY <2>1, <4>2
    <3> QED BY <3>1, <3>2
  <2> QED BY <1>0, <2>2
<1>3. 0..n \subseteq T
  <2> HIDE DEF T
  <2> QED BY <1>0, <1>1, <1>2, UpTo
<1> QED BY <1>3

\* The tier of a unit lies between two bounds, and only that tier does.
LEMMA TierIs ==
    ASSUME NEW tiers, NEW n, Graded(tiers, n), NEW i \in 0..(n - 1), NEW u \in Int,
           Bound(tiers, i) < u, u <= Bound(tiers, i + 1)
    PROVE  TierOf(tiers, u) = i + 1
<1> DEFINE In(k) == tiers[k].upTo >= u /\ \A j \in 1..(k - 1) : tiers[j].upTo < u
           t == TierOf(tiers, u)
<1>0. n \in Nat /\ DOMAIN tiers = 1..n /\ i + 1 \in 1..n
  BY DEF Graded
<1>1. \A k \in 1..n : tiers[k].upTo \in Int /\ tiers[k].upTo = Bound(tiers, k)
  BY GradedBounds, <1>0
<1>2. In(i + 1)
  <2>1. tiers[i + 1].upTo >= u
    BY <1>0, <1>1
  <2>2. ASSUME NEW j \in 1..((i + 1) - 1) PROVE tiers[j].upTo < u
    <3>1. j \in 0..i /\ j \in 1..n /\ i \in 0..n
      BY <1>0
    <3>2. Bound(tiers, j) <= Bound(tiers, i) /\ Bound(tiers, i) \in Nat /\ Bound(tiers, j) \in Nat
      BY <3>1, GradedMonotone, GradedBounds
    <3> QED BY <3>1, <3>2, <1>1
  <2> QED BY <2>1, <2>2
<1>3. t \in 1..n /\ In(t)
  BY <1>0, <1>2 DEF TierOf
<1> HIDE DEF t
<1>4. ~ (t < i + 1)
  <2> SUFFICES ASSUME t < i + 1 PROVE FALSE
    OBVIOUS
  <2>1. t \in 1..((i + 1) - 1)
    BY <1>0, <1>3
  <2> QED BY <2>1, <1>1, <1>2, <1>3
<1>5. ~ (i + 1 < t)
  <2> SUFFICES ASSUME i + 1 < t PROVE FALSE
    OBVIOUS
  <2>1. i + 1 \in 1..(t - 1)
    BY <1>0, <1>3
  <2> QED BY <2>1, <1>0, <1>1, <1>2, <1>3
<1>6. t = i + 1
  BY <1>0, <1>3, <1>4, <1>5
<1> QED BY <1>6 DEF t

\* Every unit the tiers hold has a tier.
LEMMA TierHolds ==
    ASSUME NEW tiers, NEW n, Graded(tiers, n), NEW u \in Nat \ {0}, u <= Bound(tiers, n)
    PROVE  \E i \in 0..(n - 1) : Bound(tiers, i) < u /\ u <= Bound(tiers, i + 1)
<1> DEFINE Reach == {i \in 0..n : u <= Bound(tiers, i)}
<1>0. n \in Nat /\ \A i \in 0..n : Bound(tiers, i) \in Nat
  BY GradedBounds
<1>1. IsFiniteSet(0..n) /\ Reach \subseteq 0..n /\ n \in Reach
  BY <1>0, FS_Interval
<1>2. IsFiniteSet(Reach) /\ Reach \subseteq Int /\ Reach # {}
  BY <1>0, <1>1, FS_Subset
<1> HIDE DEF Reach
<1>3. PICK k \in Reach : \A y \in Reach : k <= y
  BY <1>2, HasLeast
<1>4. k \in 0..n /\ u <= Bound(tiers, k)
  BY <1>3 DEF Reach
<1>5. k # 0
  BY <1>4 DEF Bound
<1>6. k - 1 \in 0..(n - 1) /\ (k - 1) + 1 = k /\ k - 1 \in 0..n /\ k - 1 \notin Reach
  BY <1>0, <1>3, <1>4, <1>5
<1>7. Bound(tiers, k - 1) < u
  BY <1>0, <1>6 DEF Reach
<1> QED BY <1>4, <1>6, <1>7

\* The loop of calculateVolumeCost and calculateStairStepCost stops at the
\* tier of the quantity.
LEMMA LookFindsTier ==
    ASSUME NEW rule, NEW n, Graded(rule.tiers, n), NEW q \in Nat \ {0}, q <= Bound(rule.tiers, n)
    PROVE  lastAmountUpTo(rule, q) = rule.tiers[TierOf(rule.tiers, q)].amount
<1> DEFINE tiers == rule.tiers
           p == Looking(rule, q)
           Acc(i) == Folded(p, 1..i)
<1>0. n \in Nat /\ DOMAIN tiers = 1..n
  BY DEF Graded
<1>1. PICK k \in 0..(n - 1) : Bound(tiers, k) < q /\ q <= Bound(tiers, k + 1)
  BY TierHolds
<1>2. TierOf(tiers, q) = k + 1
  BY <1>1, TierIs
<1> DEFINE Reached(i) == /\ i <= k => Acc(i).found = FALSE
                         /\ i > k => Acc(i).found = TRUE /\ Acc(i).amount = tiers[k + 1].amount
           T == {i \in 0..n : Reached(i)}
<1>3. p[1] # "sum"
  BY DEF Looking
<1>4. \A i \in Nat : Acc(i + 1) = LastStep(rule, q, Acc(i), tiers[i + 1])
  <2>1. \A x, y : Bump(p, x, y) = LastStep(rule, q, y, tiers[x])
    BY DEF Bump, Looking
  <2>2. \A i \in Nat : Acc(i + 1) = Bump(p, i + 1, Acc(i))
    <3> HIDE DEF p
    <3> QED BY <1>3, LoopNext
  <2> QED BY <2>1, <2>2
<1>5. Acc(0).found = FALSE
  <2>1. Acc(0) = Base(p)
    <3> HIDE DEF p
    <3> QED BY <1>3, LoopStart
  <2> QED BY <2>1 DEF Base, Looking
<1> HIDE DEF Acc, p, tiers
<1>6. 0 \in T
  BY <1>0, <1>1, <1>5
<1>7. ASSUME NEW i \in 0..(n - 1), i \in T PROVE i + 1 \in T
  <2> DEFINE t == tiers[i + 1]
             a == Acc(i)
  <2>0. i \in Nat /\ i + 1 \in 1..n /\ i + 1 \in 0..n
    BY <1>0
  <2>1. Acc(i + 1) = LastStep(rule, q, a, t)
    BY <1>4, <2>0
  <2>2. /\ t.upTo # Missing /\ t.amount # Missing /\ t.upTo = Bound(tiers, i + 1)
        /\ Bound(tiers, i + 1) \in Nat
    BY <2>0, GradedBounds DEF tiers
  <2>3. CASE i < k
    <3>1. a.found = FALSE
      BY <1>7, <2>3, <2>0, <1>1
    <3>2. Bound(tiers, i + 1) < q
      <4>1. i + 1 \in 0..k /\ k \in 0..n
        BY <1>0, <1>1, <2>0, <2>3
      <4>2. Bound(tiers, i + 1) <= Bound(tiers, k) /\ Bound(tiers, k) \in Nat
        BY <4>1, GradedMonotone, GradedBounds DEF tiers
      <4> QED BY <4>2, <2>2, <1>1
    <3>3. ~ (q <= t.upTo)
      BY <2>2, <3>2
    <3>4. LastStep(rule, q, a, t) = [found |-> FALSE, amount |-> AmountOr(t, a.amount)]
      BY <3>1, <3>3 DEF LastStep
    <3>5. Acc(i + 1).found = FALSE
      BY <2>1, <3>4
    <3> QED BY <2>0, <2>3, <3>5, <1>1
  <2>4. CASE i = k
    <3>1. a.found = FALSE
      BY <1>7, <2>4
    <3>2. LastStep(rule, q, a, t) = [found |-> TRUE, amount |-> t.amount]
      BY <3>1, <2>2, <2>4, <1>1 DEF LastStep, AmountOr
    <3> QED BY <2>0, <2>1, <2>4, <3>2, <1>1
  <2>5. CASE i > k
    <3>1. a.found = TRUE /\ a.amount = tiers[k + 1].amount
      BY <1>7, <2>5
    <3>2. LastStep(rule, q, a, t) = a
      BY <3>1 DEF LastStep
    <3>3. Acc(i + 1) = a
      BY <2>1, <3>2
    <3> QED BY <2>0, <2>5, <3>1, <3>3, <1>1
  <2>6. i < k \/ i = k \/ i > k
    BY <2>0, <1>1
  <2> QED BY <2>3, <2>4, <2>5, <2>6
<1>8. 0..n \subseteq T
  <2> HIDE DEF T
  <2> QED BY <1>0, <1>6, <1>7, UpTo
<1>9. Acc(n).amount = tiers[k + 1].amount
  BY <1>0, <1>1, <1>8
<1>10. lastAmountUpTo(rule, q) = Acc(n).amount
  BY <1>0, LookIsFold DEF Acc, p, tiers
<1> QED BY <1>2, <1>9, <1>10 DEF tiers

\* The tier of the last bound is the last tier.
LEMMA LastBoundTier ==
    ASSUME NEW tiers, NEW n, Graded(tiers, n)
    PROVE  TierOf(tiers, Bound(tiers, n)) = n
<1>1. n - 1 \in 0..(n - 1) /\ (n - 1) + 1 = n /\ n \in 0..n
  BY GradedBounds
<1>2. Bound(tiers, n - 1) < Bound(tiers, n) /\ Bound(tiers, n) \in Nat
  BY <1>1, GradedBounds
<1>3. Bound(tiers, n) \in Int /\ Bound(tiers, n) <= Bound(tiers, (n - 1) + 1)
  BY <1>1, <1>2
<1> QED BY <1>1, <1>2, <1>3, TierIs

\* A quantity beyond every tier leaves the loop with the last tier's amount.
LEMMA LookEndsLast ==
    ASSUME NEW rule, NEW n, Graded(rule.tiers, n), NEW q \in Nat, Bound(rule.tiers, n) < q
    PROVE  lastAmountUpTo(rule, q) = rule.tiers[n].amount
<1> DEFINE tiers == rule.tiers
           p == Looking(rule, q)
           Acc(i) == Folded(p, 1..i)
           T == {i \in 0..n : Acc(i).found = FALSE /\ (i # 0 => Acc(i).amount = tiers[i].amount)}
<1>0. n \in Nat \ {0} /\ DOMAIN tiers = 1..n
  BY DEF Graded
<1>1. p[1] # "sum"
  BY DEF Looking
<1>2. \A i \in Nat : Acc(i + 1) = LastStep(rule, q, Acc(i), tiers[i + 1])
  <2>1. \A x, y : Bump(p, x, y) = LastStep(rule, q, y, tiers[x])
    BY DEF Bump, Looking
  <2>2. \A i \in Nat : Acc(i + 1) = Bump(p, i + 1, Acc(i))
    <3> HIDE DEF p
    <3> QED BY <1>1, LoopNext
  <2> QED BY <2>1, <2>2
<1>3. Acc(0).found = FALSE
  <2>1. Acc(0) = Base(p)
    <3> HIDE DEF p
    <3> QED BY <1>1, LoopStart
  <2> QED BY <2>1 DEF Base, Looking
<1> HIDE DEF Acc, p, tiers
<1>4. 0 \in T
  BY <1>0, <1>3
<1>5. ASSUME NEW i \in 0..(n - 1), i \in T PROVE i + 1 \in T
  <2> DEFINE t == tiers[i + 1]
             a == Acc(i)
  <2>0. i \in Nat /\ i + 1 \in 1..n /\ i + 1 \in 0..n /\ n \in 0..n
    BY <1>0
  <2>1. Acc(i + 1) = LastStep(rule, q, a, t)
    BY <1>2, <2>0
  <2>2. /\ t.upTo # Missing /\ t.amount # Missing /\ t.upTo = Bound(tiers, i + 1)
        /\ Bound(tiers, i + 1) \in Nat
    BY <2>0, GradedBounds DEF tiers
  <2>3. Bound(tiers, i + 1) <= Bound(tiers, n) /\ Bound(tiers, n) \in Nat
    BY <2>0, GradedMonotone, GradedBounds DEF tiers
  <2>4. ~ (q <= t.upTo)
    BY <2>2, <2>3 DEF tiers
  <2>5. a.found = FALSE
    BY <1>5
  <2>6. LastStep(rule, q, a, t) = [found |-> FALSE, amount |-> t.amount]
    BY <2>2, <2>4, <2>5 DEF LastStep, AmountOr
  <2>7. Acc(i + 1).found = FALSE /\ Acc(i + 1).amount = t.amount
    BY <2>1, <2>6
  <2> QED BY <2>0, <2>7
<1>6. 0..n \subseteq T
  <2> HIDE DEF T
  <2> QED BY <1>0, <1>4, <1>5, UpTo
<1>7. Acc(n).amount = tiers[n].amount
  <2>1. n \in T
    BY <1>0, <1>6
  <2> QED BY <1>0, <2>1
<1>8. lastAmountUpTo(rule, q) = Acc(n).amount
  BY <1>0, LookIsFold DEF Acc, p, tiers
<1> QED BY <1>7, <1>8 DEF tiers

\* The price of every unit, by the definition of a tier.
UnitPrices(tiers, q) == [u \in 1..q |-> tiers[TierOf(tiers, u)].amount]

\* A unit between the bounds of a tier has the price of that tier.
LEMMA UnitPriceIs ==
    ASSUME NEW tiers, NEW n, Graded(tiers, n), NEW q \in Nat, NEW i \in 0..(n - 1),
           NEW u \in 1..q, Bound(tiers, i) < u, u <= Bound(tiers, i + 1)
    PROVE  UnitPrices(tiers, q)[u] = tiers[i + 1].amount
<1>1. TierOf(tiers, u) = i + 1
  BY TierIs
<1> QED BY <1>1 DEF UnitPrices

\* Every unit has a price.
LEMMA UnitPricesInt ==
    ASSUME NEW tiers, NEW n, Graded(tiers, n), NEW q \in Nat, q <= Bound(tiers, n)
    PROVE  \A u \in 1..q : UnitPrices(tiers, q)[u] \in Int
<1> SUFFICES ASSUME NEW u \in 1..q PROVE UnitPrices(tiers, q)[u] \in Int
  OBVIOUS
<1>0. n \in Nat \ {0} /\ Bound(tiers, n) \in Nat
  BY GradedBounds
<1>1. u \in Nat \ {0} /\ u <= Bound(tiers, n)
  BY <1>0
<1>2. PICK i \in 0..(n - 1) : Bound(tiers, i) < u /\ u <= Bound(tiers, i + 1)
  BY <1>1, TierHolds
<1>3. UnitPrices(tiers, q)[u] = tiers[i + 1].amount
  BY <1>2, UnitPriceIs
<1>4. i + 1 \in 1..n
  BY <1>0
<1> QED BY <1>3, <1>4, GradedBounds

\* The units between the bounds of a tier, up to a quantity that reaches into it.
LEMMA TierAdds ==
    ASSUME NEW tiers, NEW n, Graded(tiers, n), NEW q \in Nat, q <= Bound(tiers, n),
           NEW i \in 0..(n - 1), NEW e \in Nat,
           Bound(tiers, i) <= e, e <= Bound(tiers, i + 1), e <= q
    PROVE  Total(UnitPrices(tiers, q), 1..e)
             = Total(UnitPrices(tiers, q), 1..Bound(tiers, i)) + tiers[i + 1].amount * (e - Bound(tiers, i))
<1>2. AddsEvenly(UnitPrices(tiers, q), q)
  BY UnitPricesInt, TotalOfEqualUnits
<1> DEFINE a == Bound(tiers, i)
           k == e - a
           c == tiers[i + 1].amount
<1>0. n \in Nat \ {0} /\ i \in 0..n /\ i + 1 \in 1..n
  BY GradedBounds
<1>1. a \in Nat /\ k \in Nat /\ a + k = e /\ c \in Int
  BY <1>0, GradedBounds
<1>3. \A u \in (a + 1)..(a + k) : UnitPrices(tiers, q)[u] = c
  <2> SUFFICES ASSUME NEW u \in (a + 1)..(a + k) PROVE UnitPrices(tiers, q)[u] = c
    OBVIOUS
  <2>1. u \in 1..q /\ a < u /\ u <= Bound(tiers, i + 1)
    <3>1. u \in Int /\ a + 1 <= u /\ u <= e
      BY <1>1
    <3>2. Bound(tiers, i + 1) \in Nat
      BY <1>0, GradedBounds
    <3> QED BY <1>1, <3>1, <3>2
  <2> QED BY <2>1, UnitPriceIs
<1> HIDE DEF a, k, c
<1>4. a + k <= q
  BY <1>1
<1>5. Total(UnitPrices(tiers, q), 1..(a + k)) = Total(UnitPrices(tiers, q), 1..a) + c * k
  BY <1>1, <1>2, <1>3, <1>4, Zenon DEF AddsEvenly
<1>6. Total(UnitPrices(tiers, q), 1..e) = Total(UnitPrices(tiers, q), 1..a) + c * k
  BY <1>1, <1>5
<1> QED BY <1>6 DEF a, k, c

\* One tier of calculateTieredCost that the quantity reaches into.
LEMMA TieredStepTakes ==
    ASSUME NEW rule, NEW tot, NEW b \in Nat, NEW r \in Nat \ {0}, NEW t \in TierRows,
           t.upTo # Missing, t.amount # Missing, b < t.upTo,
           NEW d \in Nat, d = IF t.upTo - b <= r THEN t.upTo - b ELSE r
    PROVE  TieredStep(rule, [total |-> tot, remaining |-> r, prev |-> b, stop |-> FALSE], t)
             = [total |-> tot + t.amount * d, remaining |-> r - d, prev |-> t.upTo, stop |-> r - d <= 0]
<1> DEFINE acc == [total |-> tot, remaining |-> r, prev |-> b, stop |-> FALSE]
<1>1. t.upTo \in Int /\ acc.prev = b /\ acc.remaining = r /\ acc.total = tot /\ acc.stop = FALSE
  BY DEF TierRows
<1>2. t.upTo - acc.prev = t.upTo - b /\ t.upTo - b \in Int
  BY <1>1
<1>3. Min({t.upTo - acc.prev, acc.remaining}) = d
  <2>1. Min({t.upTo - b, r}) = d
    BY <1>2, MinOfTwo
  <2> QED BY <2>1, <1>1
<1>4. ~ (d <= 0)
  BY <1>1
<1>5. AmountOr(t, rule.base) = t.amount
  BY DEF AmountOr
<1> HIDE DEF acc
<1>6. TieredStep(rule, acc, t)
        = [total |-> acc.total + t.amount * d, remaining |-> acc.remaining - d,
           prev |-> t.upTo, stop |-> acc.remaining - d <= 0]
  BY <1>1, <1>3, <1>4, <1>5 DEF TieredStep
<1> QED BY <1>1, <1>6 DEF acc

\* The loop of calculateTieredCost adds up the prices of the units.
LEMMA TieredAddsUnits ==
    ASSUME NEW rule, NEW n, Graded(rule.tiers, n), NEW q \in Nat \ {0}, q <= Bound(rule.tiers, n)
    PROVE  Folded(Tiering(rule, q), 1..n).total = Total(UnitPrices(rule.tiers, q), 1..q)
<1> DEFINE tiers == rule.tiers
           p == Tiering(rule, q)
           Acc(i) == Folded(p, 1..i)
           B(i) == Bound(tiers, i)
           Sum(m) == Total(UnitPrices(tiers, q), 1..m)
           State(i) == [total |-> Sum(B(i)), remaining |-> q - B(i), prev |-> B(i), stop |-> FALSE]
<1>0. n \in Nat /\ DOMAIN tiers = 1..n
  BY DEF Graded
<1>1. PICK k \in 0..(n - 1) : B(k) < q /\ q <= B(k + 1)
  BY TierHolds
<1> DEFINE Reached(i) == /\ i <= k => Acc(i) = State(i)
                         /\ i > k => Acc(i).stop = TRUE /\ Acc(i).total = Sum(q)
           T == {i \in 0..n : Reached(i)}
<1>3. p[1] # "sum"
  BY DEF Tiering
<1>4. \A i \in Nat : Acc(i + 1) = TieredStep(rule, Acc(i), tiers[i + 1])
  <2>1. \A x, y : Bump(p, x, y) = TieredStep(rule, y, tiers[x])
    BY DEF Bump, Tiering
  <2>2. \A i \in Nat : Acc(i + 1) = Bump(p, i + 1, Acc(i))
    <3> HIDE DEF p
    <3> QED BY <1>3, LoopNext
  <2> QED BY <2>1, <2>2
<1>5. Acc(0) = State(0)
  <2>1. Acc(0) = Base(p)
    <3> HIDE DEF p
    <3> QED BY <1>3, LoopStart
  <2>2. B(0) = 0 /\ q - 0 = q
    BY DEF Bound
  <2>3. 1..0 = {}
    OBVIOUS
  <2>4. Sum(0) = 0
    BY <2>3, TotalEmpty
  <2>5. Base(p) = [total |-> 0, remaining |-> q, prev |-> 0, stop |-> FALSE]
    BY DEF Base, Tiering
  <2> HIDE DEF Acc, p, B, Sum
  <2> QED BY <2>1, <2>2, <2>4, <2>5
<1>6. \A i \in 0..n : B(i) \in Nat
  BY GradedBounds
<1>7. ASSUME NEW i \in 0..(n - 1), NEW e \in Nat, B(i) <= e, e <= B(i + 1), e <= q
      PROVE  Sum(e) = Sum(B(i)) + tiers[i + 1].amount * (e - B(i))
  BY <1>7, TierAdds
<1>8. \A i \in 0..k : B(i) < q
  <2> SUFFICES ASSUME NEW i \in 0..k PROVE B(i) < q
    OBVIOUS
  <2>1. k \in 0..n /\ i \in 0..n
    BY <1>0, <1>1
  <2>2. B(i) <= B(k)
    BY <2>1, GradedMonotone
  <2> HIDE DEF B
  <2> QED BY <1>1, <1>6, <2>1, <2>2
<1>9. \A i \in 0..(n - 1) : B(i) < B(i + 1)
  BY GradedBounds
<1>10. \A i \in 1..n : /\ tiers[i] \in TierRows /\ tiers[i].upTo # Missing /\ tiers[i].amount # Missing
                       /\ tiers[i].upTo = B(i)
  BY GradedBounds DEF Graded
<1> HIDE DEF Acc, p, tiers, B, Sum
<1>11. 0 \in T
  BY <1>0, <1>1, <1>5
<1>12. ASSUME NEW i \in 0..(n - 1), i <= k PROVE
         LET d == IF B(i + 1) - B(i) <= q - B(i) THEN B(i + 1) - B(i) ELSE q - B(i) IN
         TieredStep(rule, State(i), tiers[i + 1])
           = [total |-> Sum(B(i)) + tiers[i + 1].amount * d, remaining |-> (q - B(i)) - d,
              prev |-> B(i + 1), stop |-> (q - B(i)) - d <= 0]
  <2> DEFINE d == IF B(i + 1) - B(i) <= q - B(i) THEN B(i + 1) - B(i) ELSE q - B(i)
             t == tiers[i + 1]
             r == q - B(i)
             tot == Sum(B(i))
             b == B(i)
  <2>0. i + 1 \in 1..n /\ i \in 0..k /\ i \in 0..n /\ i + 1 \in 0..n
    BY <1>0, <1>1, <1>12
  <2>1. b \in Nat /\ B(i + 1) \in Nat /\ b < B(i + 1) /\ b < q
    BY <2>0, <1>6, <1>8, <1>9
  <2>2. r \in Nat \ {0} /\ d \in Nat
    BY <2>1
  <2>3. t \in TierRows /\ t.upTo # Missing /\ t.amount # Missing /\ t.upTo = B(i + 1)
    BY <2>0, <1>10
  <2>4. b < t.upTo /\ d = IF t.upTo - b <= r THEN t.upTo - b ELSE r
    BY <2>1, <2>3
  <2>5. State(i) = [total |-> tot, remaining |-> r, prev |-> b, stop |-> FALSE]
    OBVIOUS
  <2> HIDE DEF d, t, r, tot, b, State
  <2>6. TieredStep(rule, State(i), t)
          = [total |-> tot + t.amount * d, remaining |-> r - d, prev |-> t.upTo, stop |-> r - d <= 0]
    BY <2>1, <2>2, <2>3, <2>4, <2>5, TieredStepTakes
  <2> QED BY <2>6, <2>3 DEF d, t, r, tot, b
<1>13. ASSUME NEW i \in 0..(n - 1), i \in T PROVE i + 1 \in T
  <2>0. i \in Nat /\ i + 1 \in 1..n /\ i + 1 \in 0..n /\ i \in 0..n
    BY <1>0
  <2>1. Acc(i + 1) = TieredStep(rule, Acc(i), tiers[i + 1])
    BY <1>4, <2>0
  <2>2. B(i) \in Nat /\ B(i + 1) \in Nat /\ B(i) < B(i + 1)
    BY <2>0, <1>6, <1>9
  <2>3. CASE i < k
    <3>1. Acc(i) = State(i) /\ i <= k
      BY <1>13, <1>1, <2>0, <2>3
    <3>2. B(i + 1) < q
      BY <1>8, <1>1, <2>0, <2>3
    <3>3. Acc(i + 1) = [total |-> Sum(B(i)) + tiers[i + 1].amount * (B(i + 1) - B(i)),
                        remaining |-> (q - B(i)) - (B(i + 1) - B(i)),
                        prev |-> B(i + 1), stop |-> (q - B(i)) - (B(i + 1) - B(i)) <= 0]
      <4>1. B(i + 1) - B(i) <= q - B(i)
        BY <2>2, <3>2
      <4> HIDE DEF State
      <4> QED BY <1>12, <2>1, <3>1, <4>1
    <3>4. Sum(B(i + 1)) = Sum(B(i)) + tiers[i + 1].amount * (B(i + 1) - B(i))
      BY <1>7, <2>2, <3>2
    <3>5. (q - B(i)) - (B(i + 1) - B(i)) = q - B(i + 1) /\ ~ (q - B(i + 1) <= 0)
      BY <2>2, <3>2
    <3>6. Acc(i + 1) = State(i + 1)
      <4>1. ((q - B(i)) - (B(i + 1) - B(i)) <= 0) = FALSE
        BY <3>5
      <4> QED BY <3>3, <3>4, <3>5, <4>1, Zenon
    <3>7. i + 1 <= k
      BY <1>1, <2>0, <2>3
    <3> HIDE DEF State
    <3> QED BY <2>0, <3>6, <3>7, <1>1
  <2>4. CASE i = k
    <3>1. Acc(i) = State(i) /\ i <= k
      BY <1>13, <1>1, <2>0, <2>4
    <3>2. B(i) < q /\ q <= B(i + 1)
      BY <1>1, <2>4
    <3>3. Acc(i + 1).total = Sum(B(i)) + tiers[i + 1].amount * (q - B(i)) /\ Acc(i + 1).stop = TRUE
      <4> DEFINE d == IF B(i + 1) - B(i) <= q - B(i) THEN B(i + 1) - B(i) ELSE q - B(i)
      <4>1. d = q - B(i) /\ (q - B(i)) - (q - B(i)) <= 0
        BY <2>2, <3>2
      <4>2. TieredStep(rule, State(i), tiers[i + 1])
           = [total |-> Sum(B(i)) + tiers[i + 1].amount * d, remaining |-> (q - B(i)) - d,
              prev |-> B(i + 1), stop |-> (q - B(i)) - d <= 0]
        BY <1>12, <3>1
      <4> HIDE DEF State, d
      <4>3. Acc(i + 1) = [total |-> Sum(B(i)) + tiers[i + 1].amount * (q - B(i)),
                          remaining |-> (q - B(i)) - (q - B(i)), prev |-> B(i + 1), stop |-> TRUE]
        BY <4>1, <4>2, <2>1, <3>1
      <4> QED BY <4>3
    <3>4. Sum(q) = Sum(B(i)) + tiers[i + 1].amount * (q - B(i))
      BY <1>7, <2>2, <3>2
    <3>5. i + 1 > k /\ ~ (i + 1 <= k)
      BY <1>1, <2>4
    <3> QED BY <2>0, <3>3, <3>4, <3>5
  <2>5. CASE i > k
    <3>1. Acc(i).stop = TRUE /\ Acc(i).total = Sum(q)
      BY <1>13, <2>5
    <3>2. TieredStep(rule, Acc(i), tiers[i + 1]) = Acc(i)
      BY <3>1 DEF TieredStep
    <3>3. Acc(i + 1) = Acc(i) /\ i + 1 > k /\ ~ (i + 1 <= k)
      BY <1>1, <2>0, <2>1, <2>5, <3>2
    <3> QED BY <2>0, <3>1, <3>3
  <2>6. i < k \/ i = k \/ i > k
    BY <2>0, <1>1
  <2> QED BY <2>3, <2>4, <2>5, <2>6
<1>14. 0..n \subseteq T
  <2> HIDE DEF T
  <2> QED BY <1>0, <1>11, <1>13, UpTo
<1>15. n > k /\ n \in T
  BY <1>0, <1>1, <1>14
<1>16. Acc(n).total = Sum(q)
  BY <1>15
<1> QED BY <1>16 DEF Acc, p, Sum, tiers

\* Units beyond the last tier add nothing to the loop of calculateTieredCost.
LEMMA TieredEndsFree ==
    ASSUME NEW rule, NEW n, Graded(rule.tiers, n), NEW q \in Nat, Bound(rule.tiers, n) < q
    PROVE  Folded(Tiering(rule, q), 1..n).total
             = Total(UnitPrices(rule.tiers, Bound(rule.tiers, n)), 1..Bound(rule.tiers, n))
<1> DEFINE tiers == rule.tiers
           p == Tiering(rule, q)
           Acc(i) == Folded(p, 1..i)
           B(i) == Bound(tiers, i)
           Sum(m) == Total(UnitPrices(tiers, B(n)), 1..m)
           State(i) == [total |-> Sum(B(i)), remaining |-> q - B(i), prev |-> B(i), stop |-> FALSE]
           T == {i \in 0..n : Acc(i) = State(i)}
<1>0. n \in Nat \ {0} /\ DOMAIN tiers = 1..n
  BY DEF Graded
<1>1. p[1] # "sum"
  BY DEF Tiering
<1>2. \A i \in Nat : Acc(i + 1) = TieredStep(rule, Acc(i), tiers[i + 1])
  <2>1. \A x, y : Bump(p, x, y) = TieredStep(rule, y, tiers[x])
    BY DEF Bump, Tiering
  <2>2. \A i \in Nat : Acc(i + 1) = Bump(p, i + 1, Acc(i))
    <3> HIDE DEF p
    <3> QED BY <1>1, LoopNext
  <2> QED BY <2>1, <2>2
<1>3. Acc(0) = State(0)
  <2>1. Acc(0) = Base(p)
    <3> HIDE DEF p
    <3> QED BY <1>1, LoopStart
  <2>2. B(0) = 0 /\ q - 0 = q
    BY DEF Bound
  <2>3. 1..0 = {}
    OBVIOUS
  <2>4. Sum(0) = 0
    BY <2>3, TotalEmpty
  <2>5. Base(p) = [total |-> 0, remaining |-> q, prev |-> 0, stop |-> FALSE]
    BY DEF Base, Tiering
  <2> HIDE DEF Acc, p, B, Sum
  <2> QED BY <2>1, <2>2, <2>4, <2>5
<1>4. \A i \in 0..n : B(i) \in Nat /\ B(i) <= B(n)
  <2>1. n \in 0..n /\ \A i \in 0..n : i \in 0..n
    BY <1>0
  <2> QED BY <2>1, GradedBounds, GradedMonotone
<1>5. ASSUME NEW i \in 0..(n - 1)
      PROVE  Sum(B(i + 1)) = Sum(B(i)) + tiers[i + 1].amount * (B(i + 1) - B(i))
  <2>1. i + 1 \in 0..n /\ i \in 0..n /\ n \in 0..n
    BY <1>0
  <2>2. B(i + 1) \in Nat /\ B(n) \in Nat /\ B(i + 1) <= B(n) /\ B(i) <= B(i + 1) /\ B(i) \in Nat
    BY <2>1, <1>4, GradedBounds
  <2>3. B(n) <= B(n) /\ B(i + 1) <= B(i + 1)
    BY <2>2
  <2> QED BY <2>2, <2>3, TierAdds
<1>6. \A i \in 0..(n - 1) : B(i) < B(i + 1)
  BY GradedBounds
<1>7. \A i \in 1..n : /\ tiers[i] \in TierRows /\ tiers[i].upTo # Missing /\ tiers[i].amount # Missing
                      /\ tiers[i].upTo = B(i)
  BY GradedBounds DEF Graded
<1>8. B(n) < q
  OBVIOUS
<1> HIDE DEF Acc, p, tiers, B, Sum
<1>9. 0 \in T
  BY <1>0, <1>3
<1>10. ASSUME NEW i \in 0..(n - 1), i \in T PROVE i + 1 \in T
  <2> DEFINE t == tiers[i + 1]
             r == q - B(i)
             tot == Sum(B(i))
             b == B(i)
             d == B(i + 1) - B(i)
  <2>0. i \in Nat /\ i + 1 \in 1..n /\ i + 1 \in 0..n /\ i \in 0..n
    BY <1>0
  <2>1. Acc(i + 1) = TieredStep(rule, State(i), t)
    BY <1>2, <1>10, <2>0
  <2>2. b \in Nat /\ B(i + 1) \in Nat /\ b < B(i + 1) /\ B(i + 1) < q
    <3>1. B(i + 1) <= B(n) /\ B(i + 1) \in Nat /\ B(i) \in Nat /\ B(i) < B(i + 1) /\ B(n) \in Nat
      BY <1>0, <1>4, <1>6, <2>0
    <3> QED BY <1>8, <3>1
  <2>3. r \in Nat \ {0} /\ d \in Nat
    BY <2>2
  <2>11. r - d = q - B(i + 1) /\ (r - d <= 0) = FALSE
    BY <2>2
  <2>12. b \in Nat /\ b < B(i + 1)
    BY <2>2
  <2>4. t \in TierRows /\ t.upTo # Missing /\ t.amount # Missing /\ t.upTo = B(i + 1)
    BY <2>0, <1>7
  <2>5. b < t.upTo /\ d = IF t.upTo - b <= r THEN t.upTo - b ELSE r
    BY <2>2, <2>4
  <2>6. State(i) = [total |-> tot, remaining |-> r, prev |-> b, stop |-> FALSE]
    OBVIOUS
  <2>7. Sum(B(i + 1)) = tot + t.amount * d
    BY <1>5
  <2>8. State(i + 1) = [total |-> Sum(B(i + 1)), remaining |-> q - B(i + 1), prev |-> B(i + 1), stop |-> FALSE]
    OBVIOUS
  <2> HIDE DEF d, t, r, tot, b, State
  <2>9. TieredStep(rule, State(i), t)
          = [total |-> tot + t.amount * d, remaining |-> r - d, prev |-> t.upTo, stop |-> r - d <= 0]
    BY <2>12, <2>3, <2>4, <2>5, <2>6, TieredStepTakes
  <2>10. Acc(i + 1) = State(i + 1)
    BY <2>1, <2>11, <2>4, <2>7, <2>8, <2>9, Zenon
  <2> QED BY <2>0, <2>10
<1>11. 0..n \subseteq T
  <2> HIDE DEF T
  <2> QED BY <1>0, <1>9, <1>10, UpTo
<1>12. Acc(n).total = Sum(B(n))
  <2>1. n \in T
    BY <1>0, <1>11
  <2> QED BY <2>1
<1> QED BY <1>12 DEF Acc, p, Sum, tiers, B

\* A stored rule has a base price and a finite list of tiers.
RulesTyped ==
    /\ rules = [m \in RatedMetrics |-> rules[m]]
    /\ \A m \in RatedMetrics : rules[m] # NoRule =>
          /\ rules[m].base \in Int
          /\ \E n \in Nat : rules[m].tiers \in [1..n -> Tiers]

\* A stored tier is a pair of integers.
LEMMA TiersAreRows == Tiers \subseteq TierRows
BY RatingAssumption DEF Tiers, TierRows, Missing

\* Every write of a rule or an alert keeps the shape of the rules.
LEMMA RulesTypedStep ==
    ASSUME RulesTyped, [RatingNext]_<<ratingState, trail>>
    PROVE  RulesTyped'
<1>1. CASE setMeteredPricingRule
  <2>1. PICK m \in RatedMetrics, model \in {"per_unit", "tiered", "volume", "stairstep"},
             tiers \in BoundedSeq(Tiers, MaxTiers), base \in BasePrices, minimum \in MinimumSpends,
             on \in BOOLEAN :
        SetMeteredPricingRule(m, [model |-> model, base |-> base, tiers |-> tiers,
                                  minimum |-> minimum, enabled |-> on])
    BY <1>1 DEF setMeteredPricingRule
  <2> DEFINE rule == [model |-> model, base |-> base, tiers |-> tiers,
                      minimum |-> minimum, enabled |-> on]
  <2>2. rule.base \in Int /\ rule.tiers = tiers
    BY RatingAssumption
  <2>3. \E n \in Nat : tiers \in [1..n -> Tiers]
    BY RatingAssumption DEF BoundedSeq, SeqOf
  <2> HIDE DEF rule
  <2>4. rules' = [rules EXCEPT ![m] = rule]
    BY <2>1 DEF SetMeteredPricingRule, UpsertMeteredPricingRule, rule
  <2>5. \A k \in RatedMetrics : rules'[k] = IF k = m THEN rule ELSE rules[k]
    BY <2>4 DEF RulesTyped
  <2>6. rules' = [k \in RatedMetrics |-> rules'[k]]
    BY <2>4 DEF RulesTyped
  <2> QED BY <2>2, <2>3, <2>5, <2>6 DEF RulesTyped
<1>2. CASE deleteMeteredPricingRule
  <2>1. PICK m \in RatedMetrics : DeleteMeteredPricingRule(m)
    BY <1>2 DEF deleteMeteredPricingRule
  <2>4. rules' = [rules EXCEPT ![m] = NoRule]
    BY <2>1 DEF DeleteMeteredPricingRule
  <2>5. \A k \in RatedMetrics : rules'[k] = IF k = m THEN NoRule ELSE rules[k]
    BY <2>4 DEF RulesTyped
  <2>6. rules' = [k \in RatedMetrics |-> rules'[k]]
    BY <2>4 DEF RulesTyped
  <2> QED BY <2>5, <2>6 DEF RulesTyped
<1>3. CASE createBudgetAlert \/ deleteBudgetAlert \/ UNCHANGED <<ratingState, trail>>
  <2>1. rules' = rules
    BY <1>3 DEF createBudgetAlert, CreateBudgetAlert, deleteBudgetAlert, DeleteBudgetAlert, ratingState
  <2> QED BY <2>1 DEF RulesTyped
<1> QED BY <1>1, <1>2, <1>3 DEF RatingNext

\* The last tier of a rule that has tiers.
LEMMA LastTier ==
    ASSUME NEW tiers, NEW n \in Nat, tiers \in [1..n -> Tiers], tiers # <<>>
    PROVE  n # 0 /\ Last(tiers) = tiers[n]
<1>1. tiers \in Seq(Tiers) /\ Len(tiers) = n
  OBVIOUS
<1>2. n # 0
  BY <1>1, EmptySeq
<1> QED BY <1>1, <1>2 DEF Last

\* The cost of a quantity, model by model.
LEMMA CostIsDefined ==
    ASSUME NEW r, r # NoRule, r.enabled, r.base \in Int, r.tiers # <<>>, Ascending(r.tiers),
           NEW n \in Nat, r.tiers \in [1..n -> Tiers], NEW q \in 1..MaxQuantity,
           NEW held, held = Held(r.tiers, q)
    PROVE  CalculateMeteredCost(r, q) =
             CASE r.model = "volume" -> q * r.tiers[TierOf(r.tiers, held)].amount
               [] r.model = "tiered" ->
                     Max({r.minimum,
                          FoldFunctionOnSet(+, 0, [u \in 1..held |-> r.tiers[TierOf(r.tiers, u)].amount], 1..held)})
               [] r.model = "stairstep" -> r.tiers[TierOf(r.tiers, held)].amount
               [] OTHER -> q * r.base
<1> DEFINE sum == FoldFunctionOnSet(+, 0, [u \in 1..held |-> r.tiers[TierOf(r.tiers, u)].amount], 1..held)
           price == r.tiers[TierOf(r.tiers, held)].amount
<1>1. n # 0 /\ Last(r.tiers) = r.tiers[n]
  BY LastTier
<1>2. Graded(r.tiers, n)
  BY <1>1, TiersAreRows DEF Graded
<1>3. Bound(r.tiers, n) \in Nat /\ r.tiers[n].upTo = Bound(r.tiers, n)
  BY <1>1, <1>2, GradedBounds
<1>4. /\ q \in Nat \ {0}
      /\ held = IF q <= Bound(r.tiers, n) THEN q ELSE Bound(r.tiers, n)
  <2>1. q \in Nat \ {0}
    BY RatingAssumption
  <2>2. Min({q, Bound(r.tiers, n)}) = IF q <= Bound(r.tiers, n) THEN q ELSE Bound(r.tiers, n)
    BY <1>3, <2>1, MinOfTwo
  <2> QED BY <1>1, <1>3, <2>1, <2>2 DEF Held
<1>5. lastAmountUpTo(r, q) = price
  <2>1. CASE q <= Bound(r.tiers, n)
    BY <1>2, <1>4, <2>1, LookFindsTier
  <2>2. CASE ~ (q <= Bound(r.tiers, n))
    <3>1. Bound(r.tiers, n) < q /\ held = Bound(r.tiers, n)
      BY <1>3, <1>4, <2>2
    <3> QED BY <1>2, <1>4, <3>1, LookEndsLast, LastBoundTier
  <2> QED BY <2>1, <2>2
<1>6. price \in Int
  <2>1. held \in Nat \ {0} /\ held <= Bound(r.tiers, n)
    <3>1. n \in 1..n /\ 0 \in 0..n /\ n \in 0..n
      BY <1>1
    <3>2. Bound(r.tiers, n) # 0
      <4>1. 0 \in 0..(n - 1) /\ n - 1 \in 0..(n - 1) /\ n - 1 \in 0..n /\ (n - 1) + 1 = n
        BY <1>1
      <4>2. Bound(r.tiers, n - 1) < Bound(r.tiers, n) /\ Bound(r.tiers, n - 1) \in Nat
        BY <1>2, <4>1, GradedBounds
      <4> QED BY <1>3, <4>2
    <3> QED BY <1>3, <1>4, <3>2
  <2>2. UnitPrices(r.tiers, held)[held] = price
    BY <2>1 DEF UnitPrices
  <2>3. UnitPrices(r.tiers, held)[held] \in Int
    BY <1>2, <2>1, UnitPricesInt
  <2> QED BY <2>2, <2>3
<1>7. sum = Total(UnitPrices(r.tiers, held), 1..held)
  BY DEF FoldFunctionOnSet, Total, MapThenSumSet, UnitPrices
<1>8. calculateTieredCost(r, q) = Max({r.minimum, sum})
  <2>1. DOMAIN r.tiers = 1..n
    OBVIOUS
  <2>2. calculateTieredCost(r, q) = Max({Folded(Tiering(r, q), 1..n).total, r.minimum})
    BY <2>1, TieredIsFold
  <2>3. Folded(Tiering(r, q), 1..n).total = Total(UnitPrices(r.tiers, held), 1..held)
    <3>1. CASE q <= Bound(r.tiers, n)
      BY <1>2, <1>4, <3>1, TieredAddsUnits
    <3>2. CASE ~ (q <= Bound(r.tiers, n))
      <4>1. Bound(r.tiers, n) < q /\ held = Bound(r.tiers, n)
        BY <1>3, <1>4, <3>2
      <4> QED BY <1>2, <1>4, <4>1, TieredEndsFree
    <3> QED BY <3>1, <3>2
  <2> HIDE DEF sum
  <2>4. {sum, r.minimum} = {r.minimum, sum}
    OBVIOUS
  <2> QED BY <1>7, <2>2, <2>3, <2>4
<1> HIDE DEF sum, price
<1>9. calculateVolumeCost(r, q) = q * price /\ r.base * q = q * r.base
  <2>1. price * q = q * price /\ r.base * q = q * r.base
    BY <1>4, <1>6
  <2> QED BY <1>5, <2>1 DEF calculateVolumeCost
<1>10. calculateStairStepCost(r, q) = price
  BY <1>5 DEF calculateStairStepCost
<1>11. CalculateMeteredCost(r, q) =
         CASE r.model = "volume" -> q * price
           [] r.model = "tiered" -> Max({r.minimum, sum})
           [] r.model = "stairstep" -> price
           [] OTHER -> q * r.base
  <2>1. CASE r.model = "volume"
    BY <1>9, <2>1 DEF CalculateMeteredCost
  <2>2. CASE r.model = "tiered"
    BY <1>8, <2>2 DEF CalculateMeteredCost
  <2>3. CASE r.model = "stairstep"
    BY <1>10, <2>3 DEF CalculateMeteredCost
  <2>4. CASE r.model \notin {"volume", "tiered", "stairstep"}
    BY <1>9, <2>4 DEF CalculateMeteredCost
  <2> QED BY <2>1, <2>2, <2>3, <2>4
<1> QED BY <1>11 DEF sum, price

\* For every enabled rule that SetMeteredPricingRule can store with bounded
\* ascending tiers, and every quantity, CalculateMeteredCost charges what the
\* definition says: a volume or a stairstep price is that of the tier the
\* quantity falls in, or of the last tier, and a tiered cost is the sum of the
\* prices of the single units that the tiers hold, or the minimum.
THEOREM RatingIsRight == RatingSpec => []CostMatchesDefinition
<1>1. RatingInit => RulesTyped
  BY DEF RatingInit, RulesTyped
<1>2. RulesTyped => CostMatchesDefinition
  <2> SUFFICES ASSUME RulesTyped, NEW m \in RatedMetrics, rules[m] # NoRule,
                      rules[m].enabled, rules[m].tiers # <<>>, Ascending(rules[m].tiers),
                      NEW q \in 1..MaxQuantity, NEW held, held = Held(rules[m].tiers, q)
               PROVE  CalculateMeteredCost(rules[m], q) =
             CASE rules[m].model = "volume" -> q * rules[m].tiers[TierOf(rules[m].tiers, held)].amount
               [] rules[m].model = "tiered" ->
                     Max({rules[m].minimum,
                          FoldFunctionOnSet(+, 0,
                              [u \in 1..held |-> rules[m].tiers[TierOf(rules[m].tiers, u)].amount],
                              1..held)})
               [] rules[m].model = "stairstep" -> rules[m].tiers[TierOf(rules[m].tiers, held)].amount
               [] OTHER -> q * rules[m].base
    BY DEF CostMatchesDefinition
  <2>1. PICK n \in Nat : rules[m].tiers \in [1..n -> Tiers]
    BY DEF RulesTyped
  <2>2. rules[m].base \in Int
    BY DEF RulesTyped
  <2> QED BY <2>1, <2>2, CostIsDefined
<1> QED BY <1>1, <1>2, RulesTypedStep, PTL DEF RatingSpec

-----------------------------------------------------------------------------
(***************************************************************************)
(* Hard quota                                                              *)
(***************************************************************************)

\* An open transaction is about a reservation.
TargetInv == \A c \in Callers : step[c] # "idle" => target[c] \in Ids

LedgerInv == QuotaTypeOK /\ TargetInv

-------------------------------------------------------------------------------
(* Types *)

\* The empty ledger has its type.
LEMMA LedgerInvInit == QuotaInit => LedgerInv
  BY IdsAssumption, LimitsAssumption
  DEF QuotaInit, LedgerInv, QuotaTypeOK, TargetInv, Statuses, Ops, Steps

\* Every step of a transaction or of the sweep keeps the type.
LEMMA LedgerInvStep == LedgerInv /\ [QuotaNext]_quotaVars => LedgerInv'
<1> SUFFICES ASSUME LedgerInv, [QuotaNext]_quotaVars PROVE LedgerInv'
  OBVIOUS
<1> USE IdsAssumption, AmountsAssumption
    DEF LedgerInv, QuotaTypeOK, TargetInv, ledger, txVars, sweepVars
<1>1. ASSUME NEW n \in Limits, SetQuotaLimit(n)
      PROVE  LedgerInv'
  BY <1>1 DEF SetQuotaLimit
<1>2. CASE DeleteQuotaLimit
  BY <1>2 DEF DeleteQuotaLimit
<1>3. ASSUME NEW c \in Callers, Begin(c)
      PROVE  LedgerInv'
  BY <1>3 DEF Begin, Steps
<1>4. ASSUME NEW c \in Callers, EndTx(c)
      PROVE  /\ step' \in [Callers -> Steps] /\ op' \in [Callers -> Ops]
             /\ target' \in [Callers -> Ids \cup {NoId}]
             /\ asked' \in [Callers -> Amounts \cup {0}]
             /\ TargetInv'
  BY <1>4 DEF EndTx, Steps
<1>5. ASSUME NEW c \in Callers, NEW s \in Steps, step[c] # "idle", Advance(c, s)
      PROVE  /\ step' \in [Callers -> Steps] /\ op' \in [Callers -> Ops]
             /\ target' \in [Callers -> Ids \cup {NoId}]
             /\ asked' \in [Callers -> Amounts \cup {0}]
             /\ TargetInv'
  BY <1>5 DEF Advance
<1>6. "checked" \in Steps /\ "written" \in Steps
  BY DEF Steps
<1>7. ASSUME NEW c \in Callers, ReserveLookup(c) \/ ReserveInsert(c)
      PROVE  LedgerInv'
  BY <1>4, <1>5, <1>6, <1>7 DEF ReserveLookup, ReserveInsert
<1>8. ASSUME NEW c \in Callers, SettleRead(c) \/ SettleUpdate(c)
      PROVE  LedgerInv'
  BY <1>4, <1>5, <1>6, <1>8 DEF SettleRead, SettleUpdate
<1>9. ASSUME NEW c \in Callers, CommitTx(c)
      PROVE  LedgerInv'
  <2>1. target[c] \in Ids /\ op[c] \in Ops /\ Ops \subseteq Statuses
    BY <1>9 DEF CommitTx, Ops, Statuses
  <2>2. status' \in [Ids -> Statuses]
    BY <1>9, <2>1 DEF CommitTx
  <2>3. amount' \in [Ids -> Amounts \cup {0}]
    BY <1>9, <2>1 DEF CommitTx
  <2>4. outbox' \in SUBSET (Ids \X Ops)
    BY <1>9, <2>1 DEF CommitTx
  <2>5. QED
    BY <1>4, <1>9, <2>2, <2>3, <2>4 DEF CommitTx
<1>10. ASSUME NEW c \in Callers, Abort(c)
       PROVE  LedgerInv'
  BY <1>4, <1>10 DEF Abort
<1>11. ASSUME NEW i \in Ids, Elapse(i) \/ SweepRow(i)
       PROVE  LedgerInv'
  BY <1>11 DEF Elapse, SweepRow
<1>12. CASE SweepBegin
  BY <1>12 DEF SweepBegin
<1>13. CASE SweepCommit
  BY <1>13 DEF SweepCommit, Statuses
<1>14. CASE UNCHANGED quotaVars
  BY <1>14 DEF quotaVars
<1>15. QED
  BY <1>1, <1>2, <1>3, <1>7, <1>8, <1>9, <1>10, <1>11, <1>12, <1>13, <1>14
  DEF QuotaNext, TxStep

-------------------------------------------------------------------------------
(* Exclusive writers *)

\* A step that commits nothing and makes no new writer keeps writers exclusive.
LEMMA NoNewWriter ==
    ASSUME WritersExclusive, status' = status, swept' = swept,
           \A d \in Callers : step'[d] = "written" =>
               step[d] = "written" /\ op'[d] = op[d] /\ target'[d] = target[d]
    PROVE  WritersExclusive'
  BY DEF WritersExclusive

\* A transaction that ends is no writer, and the others stay as they are.
LEMMA EndTxWriters ==
    ASSUME LedgerInv, NEW c \in Callers, EndTx(c)
    PROVE  \A d \in Callers : step'[d] = "written" =>
               /\ d # c
               /\ step[d] = "written" /\ op'[d] = op[d] /\ target'[d] = target[d]
  BY DEF EndTx, LedgerInv, QuotaTypeOK

\* The writer's row was free and held what its WHERE clause asks for.
LEMMA WriteKeepsExclusive ==
    ASSUME LedgerInv, WritersExclusive, NEW c \in Callers,
           Advance(c, "written"), ~ Locked(target[c]),
           status[target[c]] = IF op[c] = "reserved" THEN "none" ELSE "reserved",
           status' = status, swept' = swept
    PROVE  WritersExclusive'
<1>1. /\ op' = op /\ target' = target
      /\ \A d \in Callers : step'[d] = "written" => d = c \/ step[d] = "written"
  BY DEF Advance, LedgerInv, QuotaTypeOK
<1>2. /\ target[c] \notin swept
      /\ \A d \in Callers : step[d] = "written" => target[d] # target[c]
  BY DEF Locked
<1>3. QED
  BY <1>1, <1>2 DEF WritersExclusive

\* Of the rows, a commit changes its own only.
LEMMA CommitKeepsExclusive ==
    ASSUME LedgerInv, WritersExclusive, NEW c \in Callers, CommitTx(c)
    PROVE  WritersExclusive'
<1>1. \A d \in Callers : step'[d] = "written" =>
          /\ d # c
          /\ step[d] = "written" /\ op'[d] = op[d] /\ target'[d] = target[d]
  BY EndTxWriters DEF CommitTx
<1>2. target[c] \in Ids /\ swept \in SUBSET Ids /\ swept' = swept
  BY DEF CommitTx, LedgerInv, TargetInv, QuotaTypeOK, sweepVars
<1>3. \A i \in Ids : i # target[c] => status'[i] = status[i]
  BY <1>2 DEF CommitTx, LedgerInv, QuotaTypeOK
<1>4. target[c] \notin swept
  BY DEF WritersExclusive, CommitTx
<1>5. \A d \in Callers : step[d] = "written" /\ d # c =>
          target[d] \in Ids /\ target[d] # target[c]
  BY DEF WritersExclusive, CommitTx, LedgerInv, TargetInv
<1>6. QED
  BY <1>1, <1>2, <1>3, <1>4, <1>5 DEF WritersExclusive

\* Of the rows, the sweep's commit changes the swept ones only.
LEMMA SweepKeepsExclusive ==
    ASSUME LedgerInv, WritersExclusive, SweepCommit
    PROVE  WritersExclusive'
<1>1. \A c \in Callers : step[c] = "written" => target[c] \in Ids \ swept
  BY DEF WritersExclusive, LedgerInv, TargetInv
<1>2. /\ \A i \in Ids \ swept : status'[i] = status[i]
      /\ swept' = {} /\ step' = step /\ op' = op /\ target' = target
  BY DEF SweepCommit, LedgerInv, QuotaTypeOK, txVars
<1>3. QED
  BY <1>1, <1>2 DEF WritersExclusive

\* Every step keeps writers exclusive.
LEMMA WritersStep ==
    LedgerInv /\ WritersExclusive /\ [QuotaNext]_quotaVars => WritersExclusive'
<1> SUFFICES ASSUME LedgerInv, WritersExclusive, [QuotaNext]_quotaVars PROVE WritersExclusive'
  OBVIOUS
<1>1. CASE (\E n \in Limits : SetQuotaLimit(n)) \/ DeleteQuotaLimit \/ SweepBegin
           \/ (\E i \in Ids : Elapse(i)) \/ UNCHANGED quotaVars
  <2>1. status' = status /\ swept' = swept /\ txVars' = txVars
    BY <1>1 DEF SetQuotaLimit, DeleteQuotaLimit, SweepBegin, Elapse, ledger,
                sweepVars, txVars, quotaVars
  <2>2. QED
    BY <2>1, NoNewWriter DEF txVars
<1>2. ASSUME NEW c \in Callers, Begin(c)
      PROVE  WritersExclusive'
  <2>1. /\ status' = status /\ swept' = swept
        /\ \A d \in Callers : step'[d] = "written" =>
               step[d] = "written" /\ op'[d] = op[d] /\ target'[d] = target[d]
    BY <1>2 DEF Begin, ledger, sweepVars, LedgerInv, QuotaTypeOK
  <2>2. QED
    BY <2>1, NoNewWriter
<1>3. ASSUME NEW c \in Callers, EndTx(c), status' = status, swept' = swept
      PROVE  WritersExclusive'
  BY <1>3, EndTxWriters, NoNewWriter
<1>4. ASSUME NEW c \in Callers, Advance(c, "checked"), status' = status, swept' = swept
      PROVE  WritersExclusive'
  <2>1. \A d \in Callers : step'[d] = "written" =>
            step[d] = "written" /\ op'[d] = op[d] /\ target'[d] = target[d]
    BY <1>4 DEF Advance, LedgerInv, QuotaTypeOK
  <2>2. QED
    BY <1>4, <2>1, NoNewWriter
<1>5. ASSUME NEW c \in Callers,
             ReserveLookup(c) \/ SettleRead(c) \/ Abort(c)
      PROVE  WritersExclusive'
  BY <1>3, <1>4, <1>5 DEF ReserveLookup, SettleRead, Abort, ledger, sweepVars
<1>6. ASSUME NEW c \in Callers, ReserveInsert(c)
      PROVE  WritersExclusive'
  BY <1>3, <1>6, WriteKeepsExclusive DEF ReserveInsert, ledger, sweepVars
<1>7. ASSUME NEW c \in Callers, SettleUpdate(c)
      PROVE  WritersExclusive'
  BY <1>3, <1>7, WriteKeepsExclusive DEF SettleUpdate, ledger, sweepVars
<1>8. ASSUME NEW c \in Callers, CommitTx(c)
      PROVE  WritersExclusive'
  BY <1>8, CommitKeepsExclusive
<1>9. ASSUME NEW i \in Ids, SweepRow(i)
      PROVE  WritersExclusive'
  BY <1>9 DEF SweepRow, Locked, WritersExclusive, ledger, txVars
<1>10. CASE SweepCommit
  BY <1>10, SweepKeepsExclusive
<1>11. QED
  BY <1>1, <1>2, <1>5, <1>6, <1>7, <1>8, <1>9, <1>10 DEF QuotaNext, TxStep

-------------------------------------------------------------------------------
(* The theorems *)

\* Type correctness of the ledger.
THEOREM LedgerTypeCorrect == QuotaSpec => []QuotaTypeOK
<1>1. LedgerInv => QuotaTypeOK
  BY DEF LedgerInv
<1>2. QED
  BY LedgerInvInit, LedgerInvStep, <1>1, PTL DEF QuotaSpec

\* A row written by an open transaction has no other writer and still holds
\* what the writer's WHERE clause asked for, for any number of callers.
THEOREM OpenWritesExclusive == QuotaSpec => []WritersExclusive
<1>1. QuotaInit => WritersExclusive
  BY DEF QuotaInit, WritersExclusive
<1>2. QED
  BY <1>1, LedgerInvInit, LedgerInvStep, WritersStep, PTL DEF QuotaSpec

\* A commit, a release and the expiry sweep never override one another: the
\* guard of the UPDATE and the row lock together make up for the stale read.
THEOREM ReservationsSettleOnce == QuotaSpec => SettledOnce
<1> DEFINE Keeps == \A i \in Ids : status[i] \in Settled => status'[i] = status[i]
<1>1. ASSUME LedgerInv, WritersExclusive, [QuotaNext]_quotaVars
      PROVE  [Keeps]_quotaVars
  <2>1. ASSUME NEW c \in Callers, CommitTx(c)
        PROVE  Keeps
    <3>1. status[target[c]] \notin Settled
      BY <1>1, <2>1 DEF WritersExclusive, CommitTx, Settled
    <3>2. \A i \in Ids : i # target[c] => status'[i] = status[i]
      BY <1>1, <2>1 DEF CommitTx, LedgerInv, QuotaTypeOK
    <3>3. QED
      BY <3>1, <3>2
  <2>2. CASE SweepCommit
    <3>1. \A i \in swept : status[i] \notin Settled
      BY <1>1 DEF WritersExclusive, Settled
    <3>2. \A i \in Ids \ swept : status'[i] = status[i]
      BY <1>1, <2>2 DEF SweepCommit, LedgerInv, QuotaTypeOK
    <3>3. QED
      BY <3>1, <3>2
  <2>3. CASE status' = status
    BY <2>3
  <2>4. (\E c \in Callers : CommitTx(c)) \/ SweepCommit \/ status' = status
    BY <1>1 DEF QuotaNext, TxStep, SetQuotaLimit, DeleteQuotaLimit, Begin,
        ReserveLookup, ReserveInsert, SettleRead, SettleUpdate, Abort, Elapse,
        SweepBegin, SweepRow, ledger, quotaVars
  <2>5. QED
    BY <2>1, <2>2, <2>3, <2>4
<1>2. QED
  BY <1>1, LedgerInvInit, LedgerInvStep, OpenWritesExclusive, PTL
  DEF QuotaSpec, SettledOnce

\* The outbox announces exactly what happened to every reservation.
THEOREM OutboxMatchesLedger == QuotaSpec => []EventsMatchLedger
<1>1. QuotaInit => EventsMatchLedger
  BY DEF QuotaInit, EventsMatchLedger
<1>2. ASSUME LedgerInv, WritersExclusive, EventsMatchLedger, [QuotaNext]_quotaVars
      PROVE  EventsMatchLedger'
  <2>1. ASSUME NEW c \in Callers, CommitTx(c)
        PROVE  EventsMatchLedger'
    <3>1. /\ target[c] \in Ids /\ op[c] \in Ops
          /\ status[target[c]] = IF op[c] = "reserved" THEN "none" ELSE "reserved"
      BY <1>2, <2>1 DEF WritersExclusive, CommitTx, LedgerInv, TargetInv, QuotaTypeOK
    <3>2. /\ status'[target[c]] = op[c]
          /\ \A i \in Ids : i # target[c] => status'[i] = status[i]
      BY <1>2, <2>1, <3>1 DEF CommitTx, LedgerInv, QuotaTypeOK
    <3>3. \A i \in Ids, o \in Ops :
             <<i, o>> \in outbox' <=> <<i, o>> \in outbox \/ (i = target[c] /\ o = op[c])
      BY <2>1 DEF CommitTx
    <3>4. QED
      BY <1>2, <3>1, <3>2, <3>3 DEF EventsMatchLedger, Ops
  <2>2. CASE SweepCommit
    <3>1. /\ outbox' = outbox
          /\ \A i \in swept \cap Ids : status[i] = "reserved" /\ status'[i] = "expired"
          /\ \A i \in Ids \ swept : status'[i] = status[i]
      BY <1>2, <2>2 DEF SweepCommit, WritersExclusive, LedgerInv, QuotaTypeOK
    <3>2. QED
      BY <1>2, <3>1 DEF EventsMatchLedger
  <2>3. CASE status' = status /\ outbox' = outbox
    BY <1>2, <2>3 DEF EventsMatchLedger
  <2>4. \/ \E c \in Callers : CommitTx(c)
        \/ SweepCommit
        \/ status' = status /\ outbox' = outbox
    BY <1>2 DEF QuotaNext, TxStep, SetQuotaLimit, DeleteQuotaLimit, Begin,
        ReserveLookup, ReserveInsert, SettleRead, SettleUpdate, Abort, Elapse,
        SweepBegin, SweepRow, ledger, quotaVars
  <2>5. QED
    BY <2>1, <2>2, <2>3, <2>4
<1>3. QED
  BY <1>1, <1>2, LedgerInvInit, LedgerInvStep, OpenWritesExclusive, PTL DEF QuotaSpec

-------------------------------------------------------------------------------
(* The overspend *)

\* The reserves that have passed the check and are not committed, and what they
\* will add to the usage.
Reserving == {c \in Callers : step[c] = "written" /\ op[c] = "reserved"}
Pending == Total(asked, Reserving)
Ceiling == Cardinality(Callers) * Max(Limits)

SpendInv ==
    /\ \A c \in Reserving : asked[c] <= Max(Limits)
    /\ CurrentUsage + Pending <= Ceiling

\* The usage is a sum, before a step and after it.
LEMMA UsageIsTotal == CurrentUsage = Total(amount, Counted)
BY DEF CurrentUsage, Total

\* The same after a step.
LEMMA UsageIsTotalNext == CurrentUsage' = Total(amount', Counted')
BY DEF CurrentUsage, Total, MapThenSumSet, MapThenFoldSet, Counted

\* Amounts are natural numbers.
LEMMA AmountIsNat == \A n \in Amounts \cup {0} : n \in Nat
BY AmountsAssumption

\* No limit is above the highest one.
LEMMA MaxLimit == Max(Limits) \in Nat /\ \A n \in Limits : n <= Max(Limits)
<1>1. IsFiniteSet(Limits) /\ Limits # {} /\ Limits \subseteq Nat /\ Limits \subseteq Int
  BY LimitsAssumption
<1> QED BY <1>1, HasMaximum

\* The usage and what is pending are natural numbers.
LEMMA SpendTypes ==
    ASSUME LedgerInv
    PROVE  /\ CurrentUsage \in Nat /\ Pending \in Nat /\ Ceiling \in Nat
           /\ \A i \in Ids : amount[i] \in Nat
           /\ \A c \in Callers : asked[c] \in Nat
<1>1. \A i \in Ids : amount[i] \in Nat
  BY AmountIsNat DEF LedgerInv, QuotaTypeOK
<1>2. \A c \in Callers : asked[c] \in Nat
  BY AmountIsNat DEF LedgerInv, QuotaTypeOK
<1>3. Counted \in SUBSET Ids /\ Reserving \in SUBSET Callers
  BY DEF Counted, Reserving
<1>4. Total(amount, Counted) \in Nat
  BY <1>1, <1>3, TotalNat, IdsAssumption
<1>5. Total(asked, Reserving) \in Nat
  BY <1>2, <1>3, TotalNat, CallersAssumption
<1>6. Cardinality(Callers) \in Nat
  BY CallersAssumption, FS_CardinalityType
<1>7. Ceiling \in Nat
  BY <1>6, MaxLimit, OneMore DEF Ceiling
<1> QED BY <1>1, <1>2, <1>4, <1>5, <1>7, UsageIsTotal DEF Pending

\* Rows that stop counting lower the usage.
LEMMA UsageShrinks ==
    ASSUME LedgerInv, amount' = amount, Counted' \subseteq Counted
    PROVE  CurrentUsage' <= CurrentUsage
<1>1. Counted \subseteq Ids
  BY DEF Counted
<1>2. IsFiniteSet(Counted) /\ \A i \in Counted : amount[i] \in Nat
  BY <1>1, IdsAssumption, FS_Subset, SpendTypes
<1>3. Counted' \in SUBSET Counted
  OBVIOUS
<1>4. Total(amount, Counted') <= Total(amount, Counted)
  BY <1>2, <1>3, TotalPart
<1>5. CurrentUsage' = Total(amount', Counted')
  BY UsageIsTotalNext
<1> QED BY <1>4, <1>5, UsageIsTotal

\* No more usage and no new reserve: the bound stays.
LEMMA FewerPending ==
    ASSUME LedgerInv, LedgerInv', SpendInv, CurrentUsage' <= CurrentUsage,
           Reserving' \subseteq Reserving, \A c \in Reserving' : asked'[c] = asked[c]
    PROVE  SpendInv'
<1>1. Reserving \subseteq Callers
  BY DEF Reserving
<1>2. IsFiniteSet(Reserving) /\ \A c \in Reserving : asked[c] \in Nat
  BY <1>1, CallersAssumption, FS_Subset, SpendTypes
<1>3. Reserving' \in SUBSET Reserving
  OBVIOUS
<1>4. Total(asked, Reserving') <= Total(asked, Reserving)
  BY <1>2, <1>3, TotalPart
<1>5. IsFiniteSet(Reserving')
  BY <1>2, <1>3, FS_Subset
<1>6. Total(asked', Reserving') = Total(asked, Reserving')
  <2>1. \A d \in Reserving' : asked'[d] \in Int /\ asked'[d] = asked[d]
    BY <1>2, <1>3
  <2> QED BY <1>5, <2>1, TotalSame
<1>7. Pending' <= Pending
  BY <1>4, <1>6 DEF Pending
<1>8. /\ CurrentUsage \in Nat /\ Pending \in Nat /\ Ceiling \in Nat
      /\ CurrentUsage' \in Nat /\ Pending' \in Nat /\ Ceiling' = Ceiling
  <2>1. CurrentUsage \in Nat /\ Pending \in Nat /\ Ceiling \in Nat
    BY SpendTypes
  <2>2. CurrentUsage' \in Nat /\ Pending' \in Nat
    <3>1. Counted' \in SUBSET Ids
      BY DEF Counted
    <3>2. \A i \in Ids : amount'[i] \in Nat
      BY AmountIsNat DEF LedgerInv, QuotaTypeOK
    <3>3. \A c \in Callers : asked'[c] \in Nat
      BY AmountIsNat DEF LedgerInv, QuotaTypeOK
    <3>4. Reserving' \in SUBSET Callers
      BY DEF Reserving
    <3>5. Total(amount', Counted') \in Nat
      BY <3>1, <3>2, IdsAssumption, TotalNat
    <3>6. Total(asked', Reserving') \in Nat
      BY <3>3, <3>4, CallersAssumption, TotalNat
    <3> QED BY <3>5, <3>6, UsageIsTotalNext DEF Pending
  <2> QED BY <2>1, <2>2 DEF Ceiling
<1>9. CurrentUsage + Pending <= Ceiling
  BY DEF SpendInv
<1>10. CurrentUsage' + Pending' <= Ceiling'
  <2>1. \A u, v, x, y, z \in Nat : u <= v /\ x <= y /\ v + y <= z => u + x <= z
    OBVIOUS
  <2> QED BY <2>1, <1>7, <1>8, <1>9
<1>11. \A c \in Reserving' : asked'[c] <= Max(Limits)
  BY <1>3 DEF SpendInv
<1> QED BY <1>10, <1>11 DEF SpendInv

\* A reserve that passes the check finds at most one limit of usage with its own
\* amount, and every other caller has at most one limit pending.
LEMMA InsertKeepsSpend ==
    ASSUME LedgerInv, SpendInv, NEW c \in Callers,
           step[c] # "written", op[c] = "reserved", WithinLimit(asked[c]),
           Advance(c, "written"), status' = status, amount' = amount
    PROVE  SpendInv'
<1> DEFINE M == Max(Limits)
           K == Cardinality(Callers)
           Others == Callers \ {c}
<1>1. Reserving' = Reserving \cup {c} /\ asked' = asked
  BY DEF Advance, Reserving, LedgerInv, QuotaTypeOK
<1>2. M \in Nat /\ CurrentUsage + asked[c] <= M
  <2>1. limit \in Limits
    BY DEF WithinLimit, LedgerInv, QuotaTypeOK
  <2>2. limit \in Nat /\ limit <= M /\ M \in Nat
    BY <2>1, MaxLimit, LimitsAssumption
  <2> QED BY <2>2, SpendTypes DEF WithinLimit
<1>3. asked[c] <= M
  BY <1>2, SpendTypes
<1>4. CurrentUsage' = CurrentUsage
  BY UsageIsTotal, UsageIsTotalNext DEF Counted
<1>5. \A d \in Reserving' : asked'[d] <= M
  BY <1>1, <1>3 DEF SpendInv
<1>6. IsFiniteSet(Others) /\ K \in Nat /\ Cardinality(Others) = K - 1 /\ K - 1 \in Nat
  <2>1. IsFiniteSet(Others)
    BY CallersAssumption, FS_Subset
  <2>2. Cardinality(Others) = K - 1
    BY CallersAssumption, FS_RemoveElement
  <2> QED BY <2>1, <2>2, CallersAssumption, FS_CardinalityType
<1>7. Reserving \subseteq Others /\ Reserving \in SUBSET Callers /\ Reserving' \in SUBSET Callers
  BY <1>1 DEF Reserving
<1>8. Total(asked, Reserving') = asked[c] + Total(asked, Reserving)
  <2>1. Reserving' \ {c} = Reserving /\ c \in Reserving'
    BY <1>1, <1>7
  <2> QED BY <2>1, <1>7, SpendTypes, CallersAssumption, TotalWithout
<1>9. Total(asked, Reserving) <= Cardinality(Reserving) * M
  <2>1. IsFiniteSet(Reserving) /\ Reserving \in SUBSET Reserving
    BY <1>7, CallersAssumption, FS_Subset
  <2>2. \A d \in Reserving : asked[d] \in Nat /\ asked[d] <= M
    BY <1>7, SpendTypes DEF SpendInv
  <2> HIDE DEF M
  <2> QED BY <2>1, <2>2, <1>2, TotalBounded
<1>10. Cardinality(Reserving) \in Nat /\ Cardinality(Reserving) <= K - 1
  BY <1>6, <1>7, FS_Subset, FS_CardinalityType
<1> HIDE DEF M, K, Others
<1>11. Cardinality(Reserving) * M <= (K - 1) * M
  <2>1. \A x \in Nat, y \in Nat, z \in Nat : x <= y => x * z <= y * z
    OBVIOUS
  <2> QED BY <2>1, <1>10, <1>6, <1>2
<1>12. (K - 1) * M + M = K * M /\ (K - 1) * M \in Nat
  BY <1>6, <1>2, OneMore
<1>13. /\ CurrentUsage \in Nat /\ asked[c] \in Nat /\ Total(asked, Reserving) \in Nat
       /\ Cardinality(Reserving) * M \in Nat
  BY SpendTypes, <1>10, <1>2, OneMore DEF Pending
<1>14. CurrentUsage + (asked[c] + Total(asked, Reserving)) <= K * M
  BY <1>2, <1>9, <1>11, <1>12, <1>13
<1>15. Pending' = asked[c] + Total(asked, Reserving)
  BY <1>1, <1>8 DEF Pending
<1>16. CurrentUsage' + Pending' <= Ceiling'
  BY <1>4, <1>14, <1>15 DEF Ceiling, K, M
<1> QED BY <1>5, <1>16 DEF SpendInv, M

\* A transaction that ends leaves the reserves, the others stay.
LEMMA EndKeepsReserving ==
    ASSUME LedgerInv, NEW c \in Callers, EndTx(c)
    PROVE  /\ Reserving' = Reserving \ {c}
           /\ \A d \in Reserving' : asked'[d] = asked[d]
BY DEF EndTx, Reserving, LedgerInv, QuotaTypeOK

\* The commit of a reserve moves its amount from pending to used.
LEMMA ReserveCommitKeepsSpend ==
    ASSUME LedgerInv, LedgerInv', SpendInv, WritersExclusive, NEW c \in Callers,
           CommitTx(c), op[c] = "reserved"
    PROVE  SpendInv'
<1> DEFINE t == target[c]
<1>1. t \in Ids /\ status[t] = "none" /\ c \in Reserving
  BY DEF CommitTx, LedgerInv, TargetInv, WritersExclusive, Reserving
<1>2. Counted' = Counted \cup {t} /\ t \notin Counted
  BY <1>1 DEF CommitTx, Counted, LedgerInv, QuotaTypeOK
<1>3. amount'[t] = asked[c] /\ \A i \in Ids : i # t => amount'[i] = amount[i]
  BY <1>1 DEF CommitTx, LedgerInv, QuotaTypeOK
<1>4. Reserving' = Reserving \ {c} /\ \A d \in Reserving' : asked'[d] = asked[d]
  BY EndKeepsReserving DEF CommitTx
<1>5. \A i \in Ids : amount'[i] \in Nat
  BY AmountIsNat DEF LedgerInv, QuotaTypeOK
<1>6. /\ Counted \in SUBSET Ids /\ Counted' \in SUBSET Ids /\ Counted' \ {t} = Counted /\ t \in Counted'
      /\ IsFiniteSet(Counted) /\ t \notin Counted
  <2>1. Counted \in SUBSET Ids
    BY DEF Counted
  <2>2. IsFiniteSet(Counted)
    BY <2>1, IdsAssumption, FS_Subset
  <2> QED BY <2>1, <2>2, <1>1, <1>2
<1> HIDE DEF t
<1>7. Total(amount', Counted') = asked[c] + Total(amount', Counted)
  BY <1>3, <1>5, <1>6, IdsAssumption, TotalWithout
<1>8. Total(amount', Counted) = Total(amount, Counted)
  <2>1. \A i \in Counted : amount'[i] \in Int /\ amount'[i] = amount[i]
    BY <1>3, <1>5, <1>6
  <2> QED BY <2>1, <1>6, TotalSame
<1>9. CurrentUsage' = asked[c] + CurrentUsage
  BY <1>7, <1>8, UsageIsTotal, UsageIsTotalNext
<1>10. Pending = asked[c] + Pending'
  <2>1. Reserving \in SUBSET Callers
    BY DEF Reserving
  <2>2. Total(asked, Reserving) = asked[c] + Total(asked, Reserving \ {c})
    BY <2>1, <1>1, SpendTypes, CallersAssumption, TotalWithout
  <2>3. IsFiniteSet(Reserving')
    BY <2>1, <1>4, CallersAssumption, FS_Subset
  <2>4. Total(asked', Reserving') = Total(asked, Reserving')
    <3>1. \A d \in Reserving' : asked'[d] \in Int /\ asked'[d] = asked[d]
      BY <2>1, <1>4, SpendTypes
    <3> QED BY <2>3, <3>1, TotalSame
  <2> QED BY <2>2, <2>4, <1>4 DEF Pending
<1>11. CurrentUsage \in Nat /\ asked[c] \in Nat /\ Pending' \in Nat
  <2>1. \A d \in Callers : asked'[d] \in Nat
    BY AmountIsNat DEF LedgerInv, QuotaTypeOK
  <2>2. Reserving' \in SUBSET Callers
    BY <1>4 DEF Reserving
  <2>3. Total(asked', Reserving') \in Nat
    BY <2>1, <2>2, CallersAssumption, TotalNat
  <2> QED BY <2>3, SpendTypes DEF Pending
<1>12. CurrentUsage' + Pending' = CurrentUsage + Pending
  BY <1>9, <1>10, <1>11
<1>13. CurrentUsage' + Pending' <= Ceiling'
  BY <1>12 DEF SpendInv, Ceiling
<1>14. \A d \in Reserving' : asked'[d] <= Max(Limits)
  BY <1>4 DEF SpendInv
<1> QED BY <1>13, <1>14 DEF SpendInv

\* No row changes, no usage changes.
LEMMA UsageSame ==
    ASSUME LedgerInv, status' = status, amount' = amount
    PROVE  CurrentUsage' <= CurrentUsage
<1>1. Counted' \subseteq Counted
  BY DEF Counted
<1> QED BY <1>1, UsageShrinks

\* A transaction that ends keeps the bound.
LEMMA EndKeepsSpend ==
    ASSUME LedgerInv, LedgerInv', SpendInv, NEW c \in Callers, EndTx(c), CurrentUsage' <= CurrentUsage
    PROVE  SpendInv'
<1>1. Reserving' \subseteq Reserving /\ \A d \in Reserving' : asked'[d] = asked[d]
  BY EndKeepsReserving
<1> QED BY <1>1, FewerPending

\* So does a step that touches no transaction.
LEMMA IdleKeepsSpend ==
    ASSUME LedgerInv, LedgerInv', SpendInv, CurrentUsage' <= CurrentUsage, UNCHANGED txVars
    PROVE  SpendInv'
<1>1. Reserving' = Reserving /\ asked' = asked
  BY DEF Reserving, txVars
<1> QED BY <1>1, FewerPending

\* Every step keeps the bound.
LEMMA SpendStep ==
    ASSUME LedgerInv, LedgerInv', WritersExclusive, SpendInv, [QuotaNext]_quotaVars
    PROVE  SpendInv'
<1> USE DEF ledger, sweepVars
<1>1. ASSUME NEW n \in Limits, SetQuotaLimit(n)
      PROVE  SpendInv'
  BY <1>1, UsageSame, IdleKeepsSpend DEF SetQuotaLimit
<1>2. CASE DeleteQuotaLimit
  BY <1>2, UsageSame, IdleKeepsSpend DEF DeleteQuotaLimit
<1>3. ASSUME NEW c \in Callers, Begin(c)
      PROVE  SpendInv'
  <2>1. CurrentUsage' <= CurrentUsage
    BY <1>3, UsageSame DEF Begin
  <2>2. Reserving' \subseteq Reserving /\ \A d \in Reserving' : asked'[d] = asked[d]
    BY <1>3 DEF Begin, Reserving, LedgerInv, QuotaTypeOK
  <2> QED BY <2>1, <2>2, FewerPending
<1>4. ASSUME NEW c \in Callers, Advance(c, "checked"), CurrentUsage' <= CurrentUsage
      PROVE  SpendInv'
  <2>1. Reserving' \subseteq Reserving /\ \A d \in Reserving' : asked'[d] = asked[d]
    BY <1>4 DEF Advance, Reserving, LedgerInv, QuotaTypeOK
  <2> QED BY <2>1, <1>4, FewerPending
<1>5. ASSUME NEW c \in Callers, ReserveLookup(c) \/ SettleRead(c)
      PROVE  SpendInv'
  BY <1>4, <1>5, UsageSame, EndKeepsSpend DEF ReserveLookup, SettleRead
<1>6. ASSUME NEW c \in Callers, ReserveInsert(c)
      PROVE  SpendInv'
  BY <1>6, UsageSame, EndKeepsSpend, InsertKeepsSpend DEF ReserveInsert
<1>7. ASSUME NEW c \in Callers, SettleUpdate(c)
      PROVE  SpendInv'
  <2>1. CurrentUsage' <= CurrentUsage
    BY <1>7, UsageSame DEF SettleUpdate
  <2>2. CASE Advance(c, "written")
    <3>1. Reserving' \subseteq Reserving /\ \A d \in Reserving' : asked'[d] = asked[d]
      BY <1>7, <2>2 DEF SettleUpdate, Advance, Reserving, LedgerInv, QuotaTypeOK
    <3> QED BY <2>1, <3>1, FewerPending
  <2> QED BY <1>7, <2>1, <2>2, EndKeepsSpend DEF SettleUpdate
<1>8. ASSUME NEW c \in Callers, CommitTx(c)
      PROVE  SpendInv'
  <2>1. CASE op[c] = "reserved"
    BY <1>8, <2>1, ReserveCommitKeepsSpend
  <2>2. CASE op[c] # "reserved"
    <3>1. status[target[c]] = "reserved" /\ amount' = amount /\ EndTx(c)
      BY <1>8, <2>2 DEF CommitTx, WritersExclusive
    <3>2. Counted' \subseteq Counted
      BY <1>8, <3>1 DEF CommitTx, Counted, LedgerInv, QuotaTypeOK
    <3>3. CurrentUsage' <= CurrentUsage
      BY <3>1, <3>2, UsageShrinks
    <3> QED BY <3>1, <3>3, EndKeepsSpend
  <2> QED BY <2>1, <2>2
<1>9. ASSUME NEW c \in Callers, Abort(c)
      PROVE  SpendInv'
  BY <1>9, UsageSame, EndKeepsSpend DEF Abort
<1>10. ASSUME NEW i \in Ids, Elapse(i) \/ SweepRow(i)
       PROVE  SpendInv'
  BY <1>10, UsageSame, IdleKeepsSpend DEF Elapse, SweepRow
<1>11. CASE SweepBegin
  BY <1>11, UsageSame, IdleKeepsSpend DEF SweepBegin
<1>12. CASE SweepCommit
  <2>1. Counted' \subseteq Counted /\ amount' = amount /\ UNCHANGED txVars
    BY <1>12 DEF SweepCommit, Counted
  <2> QED BY <2>1, UsageShrinks, IdleKeepsSpend
<1>13. CASE UNCHANGED quotaVars
  BY <1>13, UsageSame, IdleKeepsSpend DEF quotaVars, txVars
<1> QED
  BY <1>1, <1>2, <1>3, <1>5, <1>6, <1>7, <1>8, <1>9, <1>10, <1>11, <1>12, <1>13
  DEF QuotaNext, TxStep

\* The empty ledger is within the bound.
LEMMA SpendInit == QuotaInit => SpendInv
<1> SUFFICES ASSUME QuotaInit PROVE SpendInv
  OBVIOUS
<1>1. Counted = {} /\ Reserving = {}
  BY DEF QuotaInit, Counted, Reserving
<1>2. CurrentUsage = 0 /\ Pending = 0
  BY <1>1, UsageIsTotal, TotalEmpty DEF Pending
<1>3. Ceiling \in Nat
  BY SpendTypes, LedgerInvInit
<1> QED BY <1>1, <1>2, <1>3 DEF SpendInv

\* However the requests of ReserveQuota interleave, what is reserved and committed
\* stays within the highest limit taken once for every request that can be open at
\* the same time: a request that inserts has seen room for its amount in the
\* committed usage, so only what the others have pending comes on top of it.
THEOREM OverspendIsBounded == QuotaSpec => []OverspendBounded
<1> DEFINE Inv == LedgerInv /\ WritersExclusive /\ SpendInv
<1>1. QuotaInit => Inv
  BY LedgerInvInit, SpendInit DEF QuotaInit, WritersExclusive
<1>2. Inv /\ [QuotaNext]_quotaVars => Inv'
  BY LedgerInvStep, WritersStep, SpendStep
<1>3. Inv => OverspendBounded
  <2> SUFFICES ASSUME Inv PROVE OverspendBounded
    OBVIOUS
  <2>1. CurrentUsage \in Nat /\ Pending \in Nat /\ Ceiling \in Nat /\ CurrentUsage + Pending <= Ceiling
    BY SpendTypes DEF SpendInv
  <2>2. CurrentUsage <= Ceiling
    BY <2>1
  <2> QED BY <2>2 DEF OverspendBounded, Ceiling
<1> QED BY <1>1, <1>2, <1>3, PTL DEF QuotaSpec

-----------------------------------------------------------------------------
(***************************************************************************)
(* The SCIM directory                                                      *)
(***************************************************************************)

\* The users that exist, and the addresses that no other user has.
Present == {x \in ExternalIds : GetSCIMUserByID(x)}
Free(x) == {m \in Addresses : EmailFree(x, m)}

UserRows == [email : Addresses, active : BOOLEAN, customer : BOOLEAN]

\* Users and groups are tables; a group lists users, users differ in their address.
DirectoryInv ==
    /\ scimUsers \in [ExternalIds -> UserRows \cup {NoUser}]
    /\ scimGroups \in [GroupIds -> (SUBSET ExternalIds) \cup {NoGroup}]
    /\ DirectoryConsistent

\* A missing row is no row, and a group that is there is a set of external ids.
LEMMA DirectoryRows ==
    /\ NoUser \notin UserRows /\ NoUser.email \notin Addresses
    /\ NoGroup \notin SUBSET ExternalIds
    /\ \A x \in ExternalIds : NoGroup \ {x} = NoGroup
<1>1. NoUser \notin UserRows /\ NoUser.email \notin Addresses
  BY DirectoryAssumption DEF NoUser, UserRows
<1>2. NoGroup \notin SUBSET ExternalIds /\ \A x \in ExternalIds : NoGroup \ {x} = NoGroup
  BY DirectoryAssumption DEF NoGroup
<1> QED BY <1>1, <1>2

\* The loop of PatchSCIMUser.
PatchedRow(x, row, patch) ==
    FoldLeft(LAMBDA acc, o : ApplyUserOp(x, acc, o), [ok |-> TRUE, row |-> row], patch)

\* The loop of PatchSCIMUser is the fold PatchingUser.
LEMMA UserPatchIsFold ==
    ASSUME NEW x, NEW free, NEW row, NEW patch, NEW n \in Nat, DOMAIN patch = 1..n,
           \A i \in 1..n : \A y : ApplyUserOp(x, y, patch[i]) = UserStep(free, y, patch[i])
    PROVE  PatchedRow(x, row, patch) = Folded(PatchingUser(free, row, patch), 1..n)
<1> DEFINE S == 1..n
           base == [ok |-> TRUE, row |-> row]
           Body(g) == [s \in SUBSET S |-> IF s = {} THEN base
                          ELSE ApplyUserOp(x, g[s \ {Max(s)}], patch[Max(s)])]
           iter == CHOOSE g : g = Body(g)
           p == PatchingUser(free, row, patch)
<1>1. PatchedRow(x, row, patch) = iter[S]
  BY DEF PatchedRow, FoldLeft, MapThenFoldSet
<1>0. Foldable(p, S)
  BY LoopFoldable DEF PatchingUser
<1>2. ASSUME NEW g PROVE Body(g) = Unfolded(p, g, S)
  <2>1. \A s : Taken(p, s) = Max(s)
    BY DEF Taken, PatchingUser
  <2>2. Base(p) = base
    BY DEF Base, PatchingUser
  <2>3. \A i, y : Bump(p, i, y) = UserStep(free, y, patch[i])
    BY DEF Bump, PatchingUser
  <2>4. \A s \in SUBSET S : s # {} => Max(s) \in S
    BY <1>0, <2>1 DEF Foldable
  <2> HIDE DEF p, base
  <2>5. ASSUME NEW s \in SUBSET S, s # {}
        PROVE  ApplyUserOp(x, g[s \ {Max(s)}], patch[Max(s)]) = Bump(p, Taken(p, s), g[Rest(p, s)])
    BY <2>1, <2>3, <2>4, <2>5 DEF Rest
  <2> QED BY <2>2, <2>5 DEF Unfolded
<1>3. \E g : g = Body(g)
  <2>1. Folder(p, S) = Unfolded(p, Folder(p, S), S)
    BY <1>0, FolderExists, S \in SUBSET S
  <2> QED BY <2>1, <1>2
<1>4. iter = Body(iter)
  <2> HIDE DEF Body
  <2> QED BY <1>3
<1>5. iter = Unfolded(p, iter, S)
  BY <1>2, <1>4
<1> HIDE DEF iter, p
<1>6. iter[S] = Folded(p, S)
  BY <1>0, <1>5, FoldUnique
<1> QED BY <1>1, <1>6 DEF p

\* The loop of PatchSCIMGroup is the fold PatchingGroup.
LEMMA GroupPatchIsFold ==
    ASSUME NEW row, NEW patch, NEW n \in Nat, DOMAIN patch = 1..n,
           \A i \in 1..n : \A y : ApplyGroupOp(y, patch[i]) = GroupStep(Present, y, patch[i])
    PROVE  FoldLeft(ApplyGroupOp, [ok |-> TRUE, row |-> row], patch)
             = Folded(PatchingGroup(Present, row, patch), 1..n)
<1> DEFINE S == 1..n
           base == [ok |-> TRUE, row |-> row]
           Body(g) == [s \in SUBSET S |-> IF s = {} THEN base
                          ELSE ApplyGroupOp(g[s \ {Max(s)}], patch[Max(s)])]
           iter == CHOOSE g : g = Body(g)
           p == PatchingGroup(Present, row, patch)
<1>1. FoldLeft(ApplyGroupOp, base, patch) = iter[S]
  BY DEF FoldLeft, MapThenFoldSet
<1>0. Foldable(p, S)
  BY LoopFoldable DEF PatchingGroup
<1>2. ASSUME NEW g PROVE Body(g) = Unfolded(p, g, S)
  <2>1. \A s : Taken(p, s) = Max(s)
    BY DEF Taken, PatchingGroup
  <2>2. Base(p) = base
    BY DEF Base, PatchingGroup
  <2>3. \A i, y : Bump(p, i, y) = GroupStep(Present, y, patch[i])
    BY DEF Bump, PatchingGroup
  <2>4. \A s \in SUBSET S : s # {} => Max(s) \in S
    BY <1>0, <2>1 DEF Foldable
  <2> HIDE DEF p, base
  <2>5. ASSUME NEW s \in SUBSET S, s # {}
        PROVE  ApplyGroupOp(g[s \ {Max(s)}], patch[Max(s)]) = Bump(p, Taken(p, s), g[Rest(p, s)])
    BY <2>1, <2>3, <2>4, <2>5 DEF Rest
  <2> QED BY <2>2, <2>5 DEF Unfolded
<1>3. \E g : g = Body(g)
  <2>1. Folder(p, S) = Unfolded(p, Folder(p, S), S)
    BY <1>0, FolderExists, S \in SUBSET S
  <2> QED BY <2>1, <1>2
<1>4. iter = Body(iter)
  <2> HIDE DEF Body
  <2> QED BY <1>3
<1>5. iter = Unfolded(p, iter, S)
  BY <1>2, <1>4
<1> HIDE DEF iter, p
<1>6. iter[S] = Folded(p, S)
  BY <1>0, <1>5, FoldUnique
<1> QED BY <1>1, <1>6 DEF p

\* A loop over n positions keeps what its steps keep.
LEMMA LoopKeeps ==
    ASSUME NEW p, p[1] # "sum", NEW n \in Nat, NEW Good, Base(p) \in Good,
           \A i \in 1..n : \A y \in Good : Bump(p, i, y) \in Good
    PROVE  Folded(p, 1..n) \in Good
<1> DEFINE T == {i \in 0..n : Folded(p, 1..i) \in Good}
<1>1. 0 \in T
  BY LoopStart
<1>2. ASSUME NEW i \in 0..(n - 1), i \in T PROVE i + 1 \in T
  <2>1. i \in Nat /\ i + 1 \in 0..n /\ i + 1 \in 1..n
    OBVIOUS
  <2>2. Folded(p, 1..(i + 1)) = Bump(p, i + 1, Folded(p, 1..i))
    BY <2>1, LoopNext
  <2> QED BY <1>2, <2>1, <2>2
<1>3. 0..n \subseteq T
  <2> HIDE DEF T
  <2> QED BY <1>1, <1>2, UpTo
<1> QED BY <1>3

\* What a user's row may be after a patch that did not fail.
PatchedUser(x) ==
    {a \in [ok : BOOLEAN, row : UserRows] :
        /\ a.row.customer = scimUsers[x].customer
        /\ a.ok => a.row.email \in Free(x)}

\* A patch of a user ends with a row of that user whose address is free.
LEMMA UserPatchKeeps ==
    ASSUME DirectoryInv, NEW x \in ExternalIds, GetSCIMUserByID(x), NEW patch \in UserPatches
    PROVE  PatchedRow(x, scimUsers[x], patch) \in PatchedUser(x)
<1> DEFINE row == scimUsers[x]
           p == PatchingUser(Free(x), row, patch)
<1>1. PICK n \in Nat : DOMAIN patch = 1..n
  BY PatchAssumption
<1>0. ASSUME NEW i \in 1..n
      PROVE  /\ patch[i].path = "email" => patch[i].value \in Addresses
             /\ patch[i].path = "active" => patch[i].value \in BOOLEAN
  <2>1. i \in DOMAIN patch
    BY <1>1
  <2>2. patch[i].path = "email" => patch[i].value \in Addresses
    BY <2>1, EmailAssumption
  <2>3. patch[i].path = "active" => patch[i].value \in BOOLEAN
    BY <2>1, ActiveAssumption
  <2> QED BY <2>2, <2>3
<1>2. row \in UserRows
  BY DEF DirectoryInv, GetSCIMUserByID
<1>3. row.email \in Free(x)
  <2>1. row.email \in Addresses
    BY <1>2 DEF UserRows
  <2>2. \A y \in ExternalIds \ {x} : scimUsers[y].email # row.email
    BY DEF DirectoryInv, DirectoryConsistent
  <2> QED BY <2>1, <2>2 DEF Free, EmailFree
<1>4. ASSUME NEW i \in 1..n, NEW y
      PROVE  ApplyUserOp(x, y, patch[i]) = UserStep(Free(x), y, patch[i])
  <2> DEFINE o == patch[i]
  <2>1. CASE o.op = "replace" /\ o.path = "active"
    BY <2>1 DEF ApplyUserOp, UserStep
  <2>2. CASE o.op = "replace" /\ o.path = "email"
    <3>1. o.value \in Addresses
      BY <1>0, <2>2, Zenon
    <3>2. EmailFree(x, o.value) = (o.value \in Free(x))
      <4>1. EmailFree(x, o.value) \in BOOLEAN
        BY DEF EmailFree
      <4>2. EmailFree(x, o.value) <=> o.value \in Free(x)
        BY <3>1 DEF Free
      <4> QED BY <4>1, <4>2
    <3>3. PatchSCIMUserEmail(x, y, o.value)
            = [y EXCEPT !.row.email = o.value, !.ok = @ /\ o.value \in Free(x)]
      BY <3>2, Zenon DEF PatchSCIMUserEmail
    <3>4. ApplyUserOp(x, y, o) = PatchSCIMUserEmail(x, y, o.value)
      BY <2>2 DEF ApplyUserOp
    <3>5. UserStep(Free(x), y, o) = [y EXCEPT !.row.email = o.value, !.ok = @ /\ o.value \in Free(x)]
      BY <2>2 DEF UserStep
    <3> QED BY <3>3, <3>4, <3>5
  <2>3. CASE ~(o.op = "replace" /\ o.path \in {"active", "email"})
    BY <2>3 DEF ApplyUserOp, UserStep
  <2> QED BY <2>1, <2>2, <2>3
<1>5. Base(p) \in PatchedUser(x)
  <2>1. Base(p) = [ok |-> TRUE, row |-> row]
    BY DEF Base, PatchingUser
  <2> QED BY <2>1, <1>2, <1>3 DEF PatchedUser
<1>6. ASSUME NEW i \in 1..n, NEW y \in PatchedUser(x) PROVE Bump(p, i, y) \in PatchedUser(x)
  <2> DEFINE o == patch[i]
  <2>0. Bump(p, i, y) = UserStep(Free(x), y, o)
    BY DEF Bump, PatchingUser
  <2>1. CASE o.op = "replace" /\ o.path = "active"
    <3>1. o.value \in BOOLEAN
      BY <1>0, <2>1, Zenon
    <3> QED BY <2>0, <2>1, <3>1 DEF UserStep, PatchSCIMUserActive, PatchedUser, UserRows
  <2>2. CASE o.op = "replace" /\ o.path = "email"
    <3>1. o.value \in Addresses
      BY <1>0, <2>2, Zenon
    <3>2. Bump(p, i, y) = [y EXCEPT !.row.email = o.value, !.ok = @ /\ o.value \in Free(x)]
      BY <2>0, <2>2 DEF UserStep
    <3>3. Bump(p, i, y) = [ok |-> y.ok /\ o.value \in Free(x),
                           row |-> [y.row EXCEPT !.email = o.value]]
      BY <3>2 DEF PatchedUser
    <3>4. [y.row EXCEPT !.email = o.value] \in UserRows
          /\ [y.row EXCEPT !.email = o.value].email = o.value
          /\ [y.row EXCEPT !.email = o.value].customer = y.row.customer
      BY <3>1 DEF PatchedUser, UserRows
    <3>5. (y.ok /\ o.value \in Free(x)) \in BOOLEAN
      OBVIOUS
    <3>6. \A k \in BOOLEAN, r \in UserRows :
             /\ r.customer = scimUsers[x].customer
             /\ k => r.email \in Free(x)
             => [ok |-> k, row |-> r] \in PatchedUser(x)
      BY DEF PatchedUser
    <3>7. y.row.customer = scimUsers[x].customer
      BY DEF PatchedUser
    <3> QED BY <3>3, <3>4, <3>5, <3>6, <3>7, Zenon
  <2>3. CASE ~(o.op = "replace" /\ o.path \in {"active", "email"})
    BY <2>0, <2>3 DEF UserStep
  <2> QED BY <2>1, <2>2, <2>3
<1>7. p[1] # "sum"
  BY DEF PatchingUser
<1>8. Folded(p, 1..n) \in PatchedUser(x)
  <2> HIDE DEF p
  <2> QED BY <1>5, <1>6, <1>7, LoopKeeps
<1>9. \A i \in 1..n : \A y : ApplyUserOp(x, y, patch[i]) = UserStep(Free(x), y, patch[i])
  BY <1>4
<1> QED BY <1>1, <1>8, <1>9, UserPatchIsFold

\* A patch of a group ends with a set of users.
LEMMA GroupPatchKeeps ==
    ASSUME DirectoryInv, NEW g \in GroupIds, GetSCIMGroupByID(g), NEW patch \in GroupPatches
    PROVE  FoldLeft(ApplyGroupOp, [ok |-> TRUE, row |-> scimGroups[g]], patch)
             \in [ok : BOOLEAN, row : SUBSET Present]
<1> DEFINE row == scimGroups[g]
           p == PatchingGroup(Present, row, patch)
           Good == [ok : BOOLEAN, row : SUBSET Present]
<1>0. patch \in Seq({patch[i] : i \in DOMAIN patch})
  BY PatchAssumption
<1>1. PICK n \in Nat : DOMAIN patch = 1..n
  BY <1>0
<1>2. row \in SUBSET Present
  BY DEF DirectoryInv, DirectoryConsistent, Present
<1>3. ASSUME NEW i \in 1..n, NEW y
      PROVE  ApplyGroupOp(y, patch[i]) = GroupStep(Present, y, patch[i])
  <2> DEFINE o == patch[i]
  <2>1. CASE o.op = "add" /\ o.path = "members"
    <3>1. o.value \in ExternalIds
      BY <1>1, <2>1, MemberAssumption
    <3>2. GetSCIMUserByID(o.value) <=> o.value \in Present
      BY <3>1 DEF Present
    <3>3. ApplyGroupOp(y, o) = AddSCIMGroupMember(y, o.value)
      BY <2>1 DEF ApplyGroupOp
    <3> QED BY <2>1, <3>2, <3>3 DEF GroupStep, AddSCIMGroupMember
  <2>2. CASE ~(o.op = "add" /\ o.path = "members")
    BY <2>2 DEF ApplyGroupOp, GroupStep
  <2> QED BY <2>1, <2>2
<1>4. Base(p) \in Good
  <2>1. Base(p) = [ok |-> TRUE, row |-> row]
    BY DEF Base, PatchingGroup
  <2> QED BY <2>1, <1>2
<1>5. ASSUME NEW i \in 1..n, NEW y \in Good PROVE Bump(p, i, y) \in Good
  <2>0. Bump(p, i, y) = GroupStep(Present, y, patch[i])
    BY DEF Bump, PatchingGroup
  <2> QED BY <2>0 DEF GroupStep, RemoveSCIMGroupMember
<1>6. p[1] # "sum"
  BY DEF PatchingGroup
<1>7. Folded(p, 1..n) \in Good
  <2> HIDE DEF p, Good
  <2> QED BY <1>4, <1>5, <1>6, LoopKeeps
<1> QED BY <1>1, <1>3, <1>7, GroupPatchIsFold

\* A user's row changed to one whose address is free, or gone.
LEMMA UserWritten ==
    ASSUME DirectoryInv, NEW x \in ExternalIds, NEW row, UpdateUserRow(x, row),
           row \in UserRows /\ row.email \in Free(x), customers' = customers,
           row.customer => GetCustomerByExternalID(x), scimGroups' = scimGroups
    PROVE  DirectoryInv'
<1>1. scimUsers' \in [ExternalIds -> UserRows \cup {NoUser}] /\ scimUsers'[x] = row
      /\ \A y \in ExternalIds \ {x} : scimUsers'[y] = scimUsers[y]
  BY DEF DirectoryInv, UpdateUserRow
<1>2. row # NoUser /\ \A y \in ExternalIds \ {x} : scimUsers[y].email # row.email
  BY DirectoryRows DEF Free, EmailFree
<1>3. \A y, z \in ExternalIds :
         scimUsers'[y] # NoUser /\ y # z => scimUsers'[y].email # scimUsers'[z].email
  <2> SUFFICES ASSUME NEW y \in ExternalIds, NEW z \in ExternalIds, scimUsers'[y] # NoUser, y # z
               PROVE  scimUsers'[y].email # scimUsers'[z].email
    OBVIOUS
  <2>1. CASE y = x
    BY <1>1, <1>2, <2>1
  <2>2. CASE z = x
    BY <1>1, <1>2, <2>2
  <2>3. CASE y # x /\ z # x
    BY <1>1, <2>3 DEF DirectoryInv, DirectoryConsistent, GetSCIMUserByID
  <2> QED BY <2>1, <2>2, <2>3
<1>4. \A h \in GroupIds : scimGroups'[h] # NoGroup =>
         \A y \in scimGroups'[h] : y \in ExternalIds /\ scimUsers'[y] # NoUser
  BY <1>1, <1>2 DEF DirectoryInv, DirectoryConsistent, GetSCIMUserByID, GetSCIMGroupByID
<1>5. \A y \in ExternalIds : scimUsers'[y] # NoUser /\ scimUsers'[y].customer => y \in customers'
  BY <1>1 DEF DirectoryInv, DirectoryConsistent, GetSCIMUserByID, GetCustomerByExternalID
<1> QED BY <1>1, <1>3, <1>4, <1>5
        DEF DirectoryInv, DirectoryConsistent, GetSCIMUserByID, GetSCIMGroupByID,
            GetCustomerByExternalID

\* A group changed to a set of users, or gone.
LEMMA GroupWritten ==
    ASSUME DirectoryInv, NEW g \in GroupIds, NEW row \in (SUBSET Present) \cup {NoGroup},
           scimGroups' = [scimGroups EXCEPT ![g] = row],
           UNCHANGED <<scimUsers, customers>>
    PROVE  DirectoryInv'
<1>1. scimGroups' \in [GroupIds -> (SUBSET ExternalIds) \cup {NoGroup}]
  BY DEF DirectoryInv, Present
<1>2. \A h \in GroupIds : scimGroups'[h] # NoGroup =>
         \A y \in scimGroups'[h] : y \in ExternalIds /\ scimUsers[y] # NoUser
  BY DEF DirectoryInv, DirectoryConsistent, GetSCIMUserByID, GetSCIMGroupByID, Present
<1> QED BY <1>1, <1>2
        DEF DirectoryInv, DirectoryConsistent, GetSCIMUserByID, GetSCIMGroupByID,
            GetCustomerByExternalID

\* Creating, updating and patching a user.
LEMMA UserStepsKeep ==
    ASSUME DirectoryInv, scimCreateUser \/ scimUpdateUser \/ scimPatchUser
    PROVE  DirectoryInv'
<1>1. CASE scimCreateUser
  <2>1. PICK x \in ExternalIds, m \in Addresses, a \in BOOLEAN : CreateSCIMUser(x, m, a)
    BY <1>1 DEF scimCreateUser
  <2> DEFINE row == [email |-> m, active |-> a, customer |-> SetSCIMUserCustomer(x)]
  <2>2. SetSCIMUserCustomer(x) \in BOOLEAN
    BY DEF SetSCIMUserCustomer, GetCustomerByExternalID
  <2>3. row \in UserRows /\ row.email = m /\ row.customer = SetSCIMUserCustomer(x)
    BY <2>2 DEF UserRows
  <2>4. m \in Free(x) /\ UpdateUserRow(x, row) /\ UNCHANGED <<scimGroups, customers>>
    BY <2>1 DEF CreateSCIMUser, Free
  <2>5. row.customer => GetCustomerByExternalID(x)
    BY <2>3 DEF SetSCIMUserCustomer
  <2> HIDE DEF row
  <2> QED BY <2>3, <2>4, <2>5, UserWritten
<1>2. CASE scimUpdateUser
  <2>1. PICK x \in ExternalIds, m \in Addresses, a \in BOOLEAN : UpdateSCIMUser(x, m, a)
    BY <1>2 DEF scimUpdateUser
  <2> DEFINE row == [scimUsers[x] EXCEPT !.email = m, !.active = a]
  <2>2. scimUsers[x] \in UserRows
    BY <2>1 DEF UpdateSCIMUser, DirectoryInv, GetSCIMUserByID
  <2>3. row \in UserRows /\ row.email = m /\ row.customer = scimUsers[x].customer
    BY <2>2 DEF UserRows
  <2>4. m \in Free(x) /\ UpdateUserRow(x, row) /\ UNCHANGED <<scimGroups, customers>>
    BY <2>1 DEF UpdateSCIMUser, Free
  <2>5. row.customer => GetCustomerByExternalID(x)
    BY <2>1, <2>3 DEF UpdateSCIMUser, DirectoryInv, DirectoryConsistent
  <2> HIDE DEF row
  <2> QED BY <2>3, <2>4, <2>5, UserWritten
<1>3. CASE scimPatchUser
  <2>1. PICK x \in ExternalIds, patch \in UserPatches : PatchSCIMUser(x, patch)
    BY <1>3 DEF scimPatchUser
  <2> DEFINE end == PatchedRow(x, scimUsers[x], patch)
  <2>2. /\ GetSCIMUserByID(x) /\ end.ok /\ UpdateUserRow(x, end.row)
        /\ UNCHANGED <<scimGroups, customers>>
    BY <2>1 DEF PatchSCIMUser, PatchedRow
  <2>3. end \in PatchedUser(x)
    BY <2>2, UserPatchKeeps
  <2> HIDE DEF end
  <2>4. end.row \in UserRows /\ end.row.email \in Free(x) /\ end.row.customer = scimUsers[x].customer
    BY <2>2, <2>3 DEF PatchedUser
  <2>5. end.row.customer => GetCustomerByExternalID(x)
    BY <2>2, <2>4 DEF DirectoryInv, DirectoryConsistent
  <2> QED BY <2>2, <2>4, <2>5, UserWritten
<1> QED BY <1>1, <1>2, <1>3

\* Deleting a user: the cascade takes the user out of every group.
LEMMA UserDeleteKeeps ==
    ASSUME DirectoryInv, scimDeleteUser
    PROVE  DirectoryInv'
<1>1. PICK x \in ExternalIds : DeleteSCIMUser(x)
  BY DEF scimDeleteUser
<1>2. scimUsers' \in [ExternalIds -> UserRows \cup {NoUser}] /\ scimUsers'[x] = NoUser
      /\ \A y \in ExternalIds \ {x} : scimUsers'[y] = scimUsers[y]
  BY <1>1 DEF DirectoryInv, DeleteSCIMUser, UpdateUserRow
<1>3. scimGroups' = [h \in GroupIds |-> scimGroups[h] \ {x}] /\ customers' = customers
  BY <1>1 DEF DeleteSCIMUser
<1>4. ASSUME NEW h \in GroupIds
      PROVE  /\ scimGroups'[h] \in (SUBSET ExternalIds) \cup {NoGroup}
             /\ scimGroups'[h] # NoGroup =>
                   \A y \in scimGroups'[h] : y \in ExternalIds /\ scimUsers'[y] # NoUser
  <2>1. CASE scimGroups[h] = NoGroup
    BY <1>3, <2>1, DirectoryRows
  <2>2. CASE scimGroups[h] # NoGroup
    <3>1. scimGroups[h] \in SUBSET ExternalIds
          /\ \A y \in scimGroups[h] : y \in ExternalIds /\ scimUsers[y] # NoUser
      BY <2>2 DEF DirectoryInv, DirectoryConsistent, GetSCIMUserByID, GetSCIMGroupByID
    <3> QED BY <1>2, <1>3, <3>1
  <2> QED BY <2>1, <2>2
<1>5. \A y, z \in ExternalIds :
         scimUsers'[y] # NoUser /\ y # z => scimUsers'[y].email # scimUsers'[z].email
  <2> SUFFICES ASSUME NEW y \in ExternalIds, NEW z \in ExternalIds, scimUsers'[y] # NoUser, y # z
               PROVE  scimUsers'[y].email # scimUsers'[z].email
    OBVIOUS
  <2>1. y # x /\ scimUsers'[y] = scimUsers[y] /\ scimUsers[y] \in UserRows
    BY <1>2 DEF DirectoryInv
  <2>2. CASE z = x
    BY <1>2, <2>1, <2>2, DirectoryRows DEF UserRows
  <2>3. CASE z # x
    BY <1>2, <2>1, <2>3 DEF DirectoryInv, DirectoryConsistent, GetSCIMUserByID
  <2> QED BY <2>2, <2>3
<1>6. \A y \in ExternalIds : scimUsers'[y] # NoUser /\ scimUsers'[y].customer => y \in customers'
  BY <1>2, <1>3 DEF DirectoryInv, DirectoryConsistent, GetSCIMUserByID, GetCustomerByExternalID
<1>7. scimGroups' \in [GroupIds -> (SUBSET ExternalIds) \cup {NoGroup}]
  BY <1>3, <1>4
<1> QED BY <1>2, <1>4, <1>5, <1>6, <1>7
        DEF DirectoryInv, DirectoryConsistent, GetSCIMUserByID, GetSCIMGroupByID,
            GetCustomerByExternalID

\* The steps on groups.
LEMMA GroupStepsKeep ==
    ASSUME DirectoryInv, scimCreateGroup \/ scimPatchGroup \/ scimDeleteGroup
    PROVE  DirectoryInv'
<1>1. CASE scimCreateGroup
  BY <1>1, GroupWritten, {} \in (SUBSET Present) \cup {NoGroup} DEF scimCreateGroup, CreateSCIMGroup
<1>2. CASE scimDeleteGroup
  BY <1>2, GroupWritten, NoGroup \in (SUBSET Present) \cup {NoGroup}
  DEF scimDeleteGroup, DeleteSCIMGroup
<1>3. CASE scimPatchGroup
  <2>1. PICK g \in GroupIds, patch \in GroupPatches : PatchSCIMGroup(g, patch)
    BY <1>3 DEF scimPatchGroup
  <2> DEFINE end == FoldLeft(ApplyGroupOp, [ok |-> TRUE, row |-> scimGroups[g]], patch)
  <2>2. /\ GetSCIMGroupByID(g) /\ scimGroups' = [scimGroups EXCEPT ![g] = end.row]
        /\ UNCHANGED <<scimUsers, customers>>
    BY <2>1 DEF PatchSCIMGroup
  <2>3. end \in [ok : BOOLEAN, row : SUBSET Present]
    BY <2>2, GroupPatchKeeps
  <2> HIDE DEF end
  <2> QED BY <2>2, <2>3, GroupWritten
<1> QED BY <1>1, <1>2, <1>3

\* Whatever requests create, replace, patch and delete, the directory stays
\* consistent: a PATCH of any length in PatchSCIMUser or PatchSCIMGroup commits only
\* if each of its statements was accepted, and deletions cascade.
THEOREM DirectoryStaysConsistent == DirectorySpec => []DirectoryConsistent
<1> DEFINE dv == <<directoryState, customers, trail>>
<1>1. DirectoryInit => DirectoryInv
  BY DEF DirectoryInit, DirectoryInv, DirectoryConsistent, GetSCIMUserByID, GetSCIMGroupByID
<1>2. DirectoryInv /\ [DirectoryNext]_dv => DirectoryInv'
  <2> SUFFICES ASSUME DirectoryInv, [DirectoryNext]_dv PROVE DirectoryInv'
    OBVIOUS
  <2>1. ASSUME UNCHANGED directoryState, customers \subseteq customers' PROVE DirectoryInv'
    BY <2>1 DEF directoryState, DirectoryInv, DirectoryConsistent, GetSCIMUserByID,
                GetSCIMGroupByID, GetCustomerByExternalID
  <2>2. CASE UNCHANGED dv
    BY <2>1, <2>2
  <2>3. CASE createCustomer /\ UNCHANGED directoryState
    BY <2>1, <2>3 DEF createCustomer, CreateCustomer, InsertCustomerAccount
  <2> QED BY <2>2, <2>3, UserStepsKeep, UserDeleteKeeps, GroupStepsKeep DEF DirectoryNext
<1>3. DirectoryInv => DirectoryConsistent
  BY DEF DirectoryInv
<1> QED BY <1>1, <1>2, <1>3, PTL DEF DirectorySpec
===============================================================================
