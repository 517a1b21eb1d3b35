------------------------------ MODULE Catalog ------------------------------
(***************************************************************************)
(* Catalog versions of one provider environment and the subscriptions that *)
(* are pinned to them.                                                     *)
(*                                                                         *)
(* A state transition, a replacement of the content and the termination of *)
(* a subscription read their row without locking it, so each has a step    *)
(* that reads and checks and a step that commits; `catx' holds the open    *)
(* transactions.  The plan operations hold the draft row FOR UPDATE from   *)
(* their first read to their commit and are one step.  The triggers that   *)
(* require a draft look at the committed state when a row is written, not  *)
(* when its transaction commits.                                           *)
(***************************************************************************)
EXTENDS Naturals, FiniteSets, Customers

CONSTANTS MaxVersions,      \* bound: catalog versions ever created
          PlanCodes, Metrics, GrantKeys, CatalogRequests,
          SubscriptionIds,
          MaxCatalogWrites  \* bound: requests that change a catalog

ASSUME CatalogAssumption == MaxVersions \in Nat /\ MaxCatalogWrites \in Nat

VARIABLES versionState,     \* catalog_versions.state, "none" before insertion
          content,          \* metrics, plans, prices and grants of each version
          published,        \* the versions whose published_at is set
          catx,             \* open transactions
          subs,             \* subscriptions: customer, version, plan, status
          providerWritable, \* CanWrite of the provider's lifecycle state
          catalogWrites

catalogState == <<versionState, content, published, catx, providerWritable, catalogWrites>>

Versions == 1..MaxVersions
NoPlan == [price |-> "absent", grants |-> {}]
Prices == Metrics \cup {"unpriced", "fixed"}
Plans == [price : Prices, grants : SUBSET GrantKeys]
EmptyContent == [metrics |-> {}, plans |-> [p \in PlanCodes |-> NoPlan]]
NoTx == [op |-> "idle"]
NoSub == [status |-> "none"]

CatalogTypeOK ==
    /\ versionState \in [Versions -> {"none", "draft", "validated", "published", "retired"}]
    /\ \A v \in Versions : /\ content[v].metrics \subseteq Metrics
                           /\ content[v].plans \in [PlanCodes -> Plans \cup {NoPlan}]
    /\ \A s \in SubscriptionIds : subs[s].status \in {"none", "active", "terminated"}

-----------------------------------------------------------------------------
(* Content rules *)

\* validatePrice: a metered price names a metric of the version.
validatePrice(price, metrics) == price \in {"unpriced", "fixed"} \cup metrics

\* validateCatalog: structure always, completeness before publication.
validateCatalog(c, requireComplete) ==
    LET present == {p \in PlanCodes : c.plans[p] # NoPlan} IN
    /\ requireComplete => present # {}
    /\ \A p \in present : /\ validatePrice(c.plans[p].price, c.metrics)
                          /\ requireComplete => c.plans[p].price # "unpriced"

ValidateCatalog(c) == validateCatalog(c, TRUE)
ValidateCatalogStructure(c) == validateCatalog(c, FALSE)

catalogTransitions == [draft |-> {"validated"}, validated |-> {"published"},
                       published |-> {"retired"}, retired |-> {}]
TransitionCatalog(from, to) == from # "none" /\ to \in catalogTransitions[from]

CanPublishCatalog == providerWritable

-----------------------------------------------------------------------------
(* Queries *)

\* MAX(version) + 1; versions are never deleted.
NextCatalogVersionNumber ==
    1 + Cardinality({v \in Versions : versionState[v] # "none"})

\* The UNIQUE index on the number refuses a version that is already there.
InsertCatalogVersion(v, c) ==
    /\ v \in Versions /\ versionState[v] = "none"
    /\ versionState' = [versionState EXCEPT ![v] = "draft"]
    /\ content' = [content EXCEPT ![v] = c]

GetDraftCatalogVersionByTenant == {v \in Versions : versionState[v] = "draft"}
GetLatestPublishedCatalogVersionByTenant == {v \in Versions : versionState[v] = "published"}
Latest(vs) == CHOOSE v \in vs : \A w \in vs : w <= v

UpdateCatalogVersionState(v, s) ==
    /\ versionState' = [versionState EXCEPT ![v] = s]
    /\ published' = IF s = "published" THEN published \cup {v} ELSE published

GetPlanByVersionAndCode(v, p) == content[v].plans[p] # NoPlan

\* Reads and writes of a content; a plan's own row keeps only its presence.
ListMetricsByVersion(v) == content[v].metrics
ListPlansByVersion(v) == {p \in PlanCodes : content[v].plans[p] # NoPlan}
ListPricesByVersion(v) == [p \in PlanCodes |-> content[v].plans[p].price]
ListGrantsByVersion(v) == [p \in PlanCodes |-> content[v].plans[p].grants]

InsertPlan(c, p) == [c EXCEPT !.plans[p] = [price |-> "unpriced", grants |-> {}]]
InsertPrice(c, p, price) == [c EXCEPT !.plans[p].price = price]
InsertEntitlementGrant(c, p, ks) == [c EXCEPT !.plans[p].grants = @ \cup ks]
DeletePricesByPlan(c, p) == [c EXCEPT !.plans[p].price = "unpriced"]
DeleteGrantsByPlan(c, p) == [c EXCEPT !.plans[p].grants = {}]
DeletePlanByVersionAndCode(c, p) == [c EXCEPT !.plans[p] = NoPlan]
UpsertEntitlementGrant(c, p, k) == [c EXCEPT !.plans[p].grants = @ \cup {k}]
DeleteEntitlementGrantByKey(c, p, k) == [c EXCEPT !.plans[p].grants = @ \ {k}]

-----------------------------------------------------------------------------
(* Versions *)

CountWrite == catalogWrites < MaxCatalogWrites /\ catalogWrites' = catalogWrites + 1

\* storedContentTx: the content read back, table by table.
storedContentTx(v) ==
    [metrics |-> ListMetricsByVersion(v),
     plans |-> [p \in PlanCodes |->
         IF p \in ListPlansByVersion(v)
         THEN [price |-> ListPricesByVersion(v)[p], grants |-> ListGrantsByVersion(v)[p]]
         ELSE NoPlan]]

\* cloneCatalogContentTx: what the source holds when it is read.
cloneCatalogContentTx(from) == storedContentTx(from)

CreateCatalogVersion(c) ==
    /\ CountWrite
    /\ InsertCatalogVersion(NextCatalogVersionNumber, c)
    /\ AppendRows(emitOutboxTx("catalog.version_created", NextCatalogVersionNumber)
              \cup insertAuditTx("catalog.version_create", NextCatalogVersionNumber))
    /\ UNCHANGED <<published, catx, subs, providerWritable>>

\* A replacement in flight has deleted or inserted the row of plan p, so
\* whoever needs that row waits for its commit.
RowLocked(v, p) ==
    \E q \in CatalogRequests :
        /\ catx[q].op = "replace" /\ catx[q].version = v
        /\ catx[q].old.plans[p] # NoPlan \/ catx[q].new.plans[p] # NoPlan

\* ReplaceCatalogContent up to its last row: the trigger sees a draft.  A
\* second replacement of the version waits for the rows of the first; the
\* rows of a plan with subscriptions cannot be deleted.
ReplaceCatalogContent(q, v, c) ==
    /\ ValidateCatalogStructure(c)
    /\ catx[q] = NoTx /\ CountWrite
    /\ versionState[v] = "draft"
    /\ \A r \in CatalogRequests : catx[r].op = "replace" => catx[r].version # v
    /\ \A s \in SubscriptionIds : subs[s] # NoSub => subs[s].version # v
    /\ catx' = [catx EXCEPT ![q] = [op |-> "replace", version |-> v, old |-> content[v], new |-> c]]
    /\ UNCHANGED <<versionState, content, published, subs, providerWritable, customers, trail>>

\* replaceCatalogContentTx commits: plans that a plan operation added since
\* were not seen by the deletes and stay.
replaceCatalogContentTx(q) ==
    LET t == catx[q] IN
    /\ t.op = "replace"
    /\ content' = [content EXCEPT ![t.version] =
           [metrics |-> t.new.metrics,
            plans |-> [p \in PlanCodes |->
                IF t.old.plans[p] # NoPlan \/ t.new.plans[p] # NoPlan
                THEN t.new.plans[p] ELSE @.plans[p]]]]
    /\ catx' = [catx EXCEPT ![q] = NoTx]
    /\ AppendRows(insertAuditTx("catalog.content_replace", t.version))
    /\ UNCHANGED <<versionState, published, subs, providerWritable, catalogWrites, customers>>

\* transitionCatalogVersion: read, check; the UPDATE follows in another step.
transitionCatalogVersion(q, v, to, check) ==
    /\ catx[q] = NoTx /\ CountWrite
    /\ TransitionCatalog(versionState[v], to)
    /\ check
    /\ catx' = [catx EXCEPT ![q] = [op |-> "transition", version |-> v, to |-> to]]
    /\ UNCHANGED <<versionState, content, published, subs, providerWritable, customers, trail>>

\* UPDATE ... WHERE id = $1, whatever the state has become.
transitionCatalogVersionCommit(q) ==
    LET t == catx[q] IN
    /\ t.op = "transition"
    /\ UpdateCatalogVersionState(t.version, t.to)
    /\ catx' = [catx EXCEPT ![q] = NoTx]
    /\ AppendRows(emitOutboxTx("catalog.version_state", t.version)
              \cup insertAuditTx("catalog.version_state", t.version))
    /\ UNCHANGED <<content, subs, providerWritable, catalogWrites, customers>>

ValidateCatalogVersion(q, v) ==
    transitionCatalogVersion(q, v, "validated", ValidateCatalog(storedContentTx(v)))
PublishCatalogVersion(q, v) == transitionCatalogVersion(q, v, "published", CanPublishCatalog)
RetireCatalogVersion(q, v) == transitionCatalogVersion(q, v, "retired", TRUE)

-----------------------------------------------------------------------------
(* Plans and policies, on the draft *)

\* ensureDraftVersionTx: the latest draft, or a new one cloned from the
\* latest published version.
ensureDraftVersionTx ==
    LET drafts == GetDraftCatalogVersionByTenant
        pub == GetLatestPublishedCatalogVersionByTenant IN
    IF drafts # {} THEN [version |-> Latest(drafts), base |-> content[Latest(drafts)]]
    ELSE [version |-> NextCatalogVersionNumber,
          base |-> IF pub = {} THEN EmptyContent ELSE cloneCatalogContentTx(Latest(pub))]

\* acquireCatalogPlanLock and the FOR UPDATE make a plan operation one step:
\* the draft gets the content c.
acquireCatalogPlanLock(p, c, type) ==
    LET v == ensureDraftVersionTx.version IN
    /\ CountWrite
    /\ v \in Versions
    /\ ~RowLocked(v, p)
    /\ versionState' = [versionState EXCEPT ![v] = "draft"]
    /\ content' = [content EXCEPT ![v] = c]
    /\ AppendRows(emitOutboxTx(type, p) \cup insertAuditTx(type, p))
    /\ UNCHANGED <<published, catx, subs, providerWritable, customers>>

validatePlanStructureTx(c, price) == validatePrice(price, c.metrics)

insertPlanContentTx(c, p, plan) ==
    InsertEntitlementGrant(InsertPrice(c, p, plan.price), p, plan.grants)
replacePlanChildrenTx(c, p, plan) ==
    insertPlanContentTx(DeletePricesByPlan(DeleteGrantsByPlan(c, p), p), p, plan)

CreatePlan(p, plan) ==
    LET c == ensureDraftVersionTx.base IN
    /\ c.plans[p] = NoPlan
    /\ validatePlanStructureTx(c, plan.price)
    /\ acquireCatalogPlanLock(p, insertPlanContentTx(InsertPlan(c, p), p, plan), "catalog.plan_created")

UpdatePlan(p, plan) ==
    LET c == ensureDraftVersionTx.base IN
    /\ c.plans[p] # NoPlan
    /\ validatePlanStructureTx(c, plan.price)
    /\ acquireCatalogPlanLock(p, replacePlanChildrenTx(c, p, plan), "catalog.plan_updated")

DeletePlan(p) ==
    LET c == ensureDraftVersionTx.base IN
    /\ c.plans[p] # NoPlan
    /\ acquireCatalogPlanLock(p, DeletePlanByVersionAndCode(c, p), "catalog.plan_deleted")

SetPlanEntitlement(p, k) ==
    LET c == ensureDraftVersionTx.base IN
    /\ c.plans[p] # NoPlan
    /\ acquireCatalogPlanLock(p, UpsertEntitlementGrant(c, p, k), "catalog.entitlement_set")

DeletePlanEntitlement(p, k) ==
    LET c == ensureDraftVersionTx.base IN
    /\ c.plans[p] # NoPlan /\ k \in c.plans[p].grants
    /\ acquireCatalogPlanLock(p, DeleteEntitlementGrantByKey(c, p, k), "catalog.entitlement_deleted")

-----------------------------------------------------------------------------
(* Subscriptions *)

\* Mutant: the insert does not wait for the plan's row.
InsertUnlocked(s, x, v, p) ==
    /\ subs[s] = NoSub
    /\ subs' = [subs EXCEPT ![s] = [status |-> "active", customer |-> x, version |-> v, plan |-> p]]

\* InsertSubscription: the foreign key on the plan waits for the row's lock.
InsertSubscription(s, x, v, p) ==
    /\ subs[s] = NoSub
    /\ ~RowLocked(v, p)
    /\ subs' = [subs EXCEPT ![s] = [status |-> "active", customer |-> x, version |-> v, plan |-> p]]

\* CreateSubscription after the fences: a published version, a plan of it.
CreateSubscription(s, x, v, p) ==
    /\ x \in customers
    /\ versionState[v] = "published"
    /\ GetPlanByVersionAndCode(v, p)
    /\ InsertSubscription(s, x, v, p)
    /\ AppendRows(emitOutboxTx("subscription.created", s)
              \cup insertAuditTx("subscription.create", s))
    /\ UNCHANGED <<catalogState, customers>>

GetActiveSubscriptionByCustomer(x) ==
    {s \in SubscriptionIds : subs[s].status = "active" /\ subs[s].customer = x}

\* TerminateSubscription: read and check ...
TerminateSubscription(q, s) ==
    /\ catx[q] = NoTx
    /\ subs[s].status = "active"
    /\ catx' = [catx EXCEPT ![q] = [op |-> "terminate", sub |-> s]]
    /\ UNCHANGED <<versionState, content, published, subs, providerWritable, catalogWrites,
                   customers, trail>>

\* ... UPDATE ... WHERE id = $1: of two requests that both read it active, the
\* second terminates it again, and announces it again.
TerminateSubscriptionCommit(q) ==
    LET s == catx[q].sub IN
    /\ catx[q].op = "terminate"
    /\ subs' = [subs EXCEPT ![s].status = "terminated"]
    /\ catx' = [catx EXCEPT ![q] = NoTx]
    /\ AppendRows(emitOutboxTx("subscription.terminated", s)
              \cup insertAuditTx("subscription.terminate", s))
    /\ UNCHANGED <<versionState, content, published, providerWritable, catalogWrites, customers>>

\* The provider is suspended or reinstated by an operator.
ToggleWritable ==
    /\ CountWrite /\ providerWritable' = ~providerWritable
    /\ UNCHANGED <<versionState, content, published, catx, subs, customers, trail>>

-----------------------------------------------------------------------------
(* Handlers and routes *)

Contents == [metrics : SUBSET Metrics, plans : [PlanCodes -> Plans \cup {NoPlan}]]

createCatalogVersion ==
    /\ \/ CreateCatalogVersion(EmptyContent)
       \/ \E v \in Versions :
             versionState[v] # "none" /\ CreateCatalogVersion(cloneCatalogContentTx(v))
    /\ UNCHANGED customers
replaceCatalogContent(q) == \E v \in Versions, c \in Contents : ReplaceCatalogContent(q, v, c)
validateCatalogVersion(q) == \E v \in Versions : ValidateCatalogVersion(q, v)
publishCatalogVersion(q) == \E v \in Versions : PublishCatalogVersion(q, v)
retireCatalogVersion(q) == \E v \in Versions : RetireCatalogVersion(q, v)
createCatalogPlan == \E p \in PlanCodes, plan \in Plans : CreatePlan(p, plan)
updateCatalogPlan == \E p \in PlanCodes, plan \in Plans : UpdatePlan(p, plan)
deleteCatalogPlan == \E p \in PlanCodes : DeletePlan(p)
setPlanEntitlement == \E p \in PlanCodes, k \in GrantKeys : SetPlanEntitlement(p, k)
deletePlanEntitlement == \E p \in PlanCodes, k \in GrantKeys : DeletePlanEntitlement(p, k)
createSubscription ==
    \E s \in SubscriptionIds, x \in ExternalIds, v \in Versions, p \in PlanCodes :
        CreateSubscription(s, x, v, p)
terminateSubscription(q) == \E s \in SubscriptionIds : TerminateSubscription(q, s)

CatalogInit ==
    /\ versionState = [v \in Versions |-> "none"]
    /\ content = [v \in Versions |-> EmptyContent]
    /\ published = {}
    /\ catx = [q \in CatalogRequests |-> NoTx]
    /\ subs = [s \in SubscriptionIds |-> NoSub]
    /\ providerWritable = TRUE
    /\ catalogWrites = 0
    /\ customers \in SUBSET ExternalIds
    /\ trail = {}

CatalogNext ==
    \/ createCatalogVersion
    \/ \E q \in CatalogRequests :
          \/ replaceCatalogContent(q) \/ replaceCatalogContentTx(q)
          \/ validateCatalogVersion(q) \/ publishCatalogVersion(q) \/ retireCatalogVersion(q)
          \/ transitionCatalogVersionCommit(q)
          \/ terminateSubscription(q) \/ TerminateSubscriptionCommit(q)
    \/ createCatalogPlan \/ updateCatalogPlan \/ deleteCatalogPlan
    \/ setPlanEntitlement \/ deletePlanEntitlement
    \/ createSubscription
    \/ ToggleWritable

-----------------------------------------------------------------------------
(* Properties *)

\* The price and the grants of the plan a subscription is pinned to never
\* change, although its version may be replaced, validated, published and
\* retired by requests that overlap: a replacement that began while the
\* version was a draft may commit after it was published, but not between a
\* subscription and its plan.
PinnedPlanStays ==
    [][\A s \in SubscriptionIds : subs[s] # NoSub =>
          content'[subs[s].version].plans[subs[s].plan]
              = content[subs[s].version].plans[subs[s].plan]]_<<catalogState, subs>>
=============================================================================
