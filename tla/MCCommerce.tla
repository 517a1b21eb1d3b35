----------------------------- MODULE MCCommerce -----------------------------
(***************************************************************************)
(* Catalog, ledger, entitlements and quota of one environment.  A          *)
(* behaviour picks one focus and keeps it:                                 *)
(*   catalog       two requests on the versions, one subscription;         *)
(*   usage         three usage requests and the fences, on a published     *)
(*                 version with an active subscription;                    *)
(*   invoices      an ingestion and a reversal, an invoice and two         *)
(*                 synchronisations of it;                                 *)
(*   entitlements  overrides, snapshots and the reconciliation;            *)
(*   rating        one pricing rule of every shape, one budget alert;      *)
(*   quota         two callers and the expiry sweep on three reservations. *)
(***************************************************************************)
EXTENDS Commerce, Rating, QuotaLedger, TLC

CONSTANTS g1, m1, k1, q1, q2, x1, s1, t1, t2, t3, h1, h2, u1, u2, u3, y1, y2, i1, a1,
          c1, c2, r1, r2, r3

VARIABLE focus

MCInvoiceCustomer == [i \in Invoices |-> x1]
MCInvoiceSubscription == [i \in Invoices |-> s1]

Live == [metrics |-> {m1}, plans |-> [p \in PlanCodes |-> [price |-> m1, grants |-> {k1}]]]

\* A published version with one active subscription, reached by the catalog.
Established ==
    /\ versionState = [v \in Versions |-> IF v = 1 THEN "published" ELSE "none"]
    /\ content = [v \in Versions |-> IF v = 1 THEN Live ELSE EmptyContent]
    /\ published = {1}
    /\ catx = [q \in CatalogRequests |-> NoTx]
    /\ subs = [s \in SubscriptionIds |->
                  [status |-> "active", customer |-> x1, version |-> 1, plan |-> g1]]
    /\ providerWritable = TRUE /\ catalogWrites = 0
    /\ customers = {x1} /\ trail = {}

Foci == {"catalog", "usage", "invoices", "entitlements", "rating", "quota"}

MCInit ==
    /\ focus \in Foci
    /\ IF focus = "catalog" THEN CatalogInit ELSE Established
    /\ LedgerInit /\ QuotaInit
    /\ RatingInit

\* u1 ingests t1 and u2 reverses with t2.
OneOfEach ==
    /\ IF urq[u1].at = "none" THEN TRUE ELSE urq[u1].tx = t1 /\ "of" \notin DOMAIN urq[u1]
    /\ IF urq[u2].at = "none" THEN TRUE ELSE urq[u2].tx = t2 /\ "of" \in DOMAIN urq[u2]
    /\ urq[u3].at = "none"

\* Requests, ids and payloads are alike: u1 is the first to ingest, t1 with h1,
\* and u3 is the last to begin.
InOrder ==
    /\ IF urq[u1].at = "none" THEN urq[u2].at = "none"
       ELSE urq[u1].tx = t1 /\ "of" \notin DOMAIN urq[u1]
               /\ ("hash" \in DOMAIN urq[u1] => urq[u1].hash = h1)
    /\ urq[u2].at = "none" => urq[u3].at = "none"

Terminate(q) == terminateSubscription(q) \/ TerminateSubscriptionCommit(q)

catalogPart == <<catalogState, subs, customers>>

MCNext ==
    /\ \/ focus = "catalog" /\ CatalogNext /\ UNCHANGED ledgerState
       \/ /\ focus = "usage"
          /\ \/ (UsageNext \/ MoveFence) /\ InOrder' /\ UNCHANGED catalogPart
             \/ Terminate(q1) /\ UNCHANGED ledgerState
       \/ /\ focus = "invoices" /\ (UsageNext \/ InvoiceNext)
          /\ OneOfEach'
          /\ UNCHANGED catalogPart
       \/ /\ focus = "entitlements"
          /\ \/ EntitlementNext /\ UNCHANGED catalogPart
             \/ (\E q \in CatalogRequests : Terminate(q)) /\ UNCHANGED ledgerState
       \/ focus = "rating" /\ RatingNext /\ UNCHANGED <<catalogPart, ledgerState>>
       \/ focus = "quota" /\ QuotaNext /\ UNCHANGED <<catalogPart, trail, ledgerState>>
    /\ focus # "rating" => UNCHANGED ratingState
    /\ focus # "quota" => UNCHANGED quotaVars
    /\ UNCHANGED focus

MCvars == <<catalogPart, trail, ledgerState, ratingState, quotaVars, focus>>

\* The fairness of the quota ledger, asked of it when it is in focus.
MCSpec ==
    /\ MCInit /\ [][MCNext]_MCvars
    /\ \A c \in Callers : WF_quotaVars(focus = "quota" /\ TxStep(c))
    /\ \A i \in Ids : /\ WF_quotaVars(focus = "quota" /\ Elapse(i))
                      /\ SF_quotaVars(focus = "quota" /\ SweepRow(i))
    /\ WF_quotaVars(focus = "quota" /\ SweepBegin)
    /\ WF_quotaVars(focus = "quota" /\ SweepCommit)
=============================================================================
