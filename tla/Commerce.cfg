SPECIFICATION MCSpec
CONSTANTS
    g1 = g1  m1 = m1  k1 = k1  q1 = q1  q2 = q2  x1 = x1  s1 = s1  t1 = t1  t2 = t2  t3 = t3
    h1 = h1  h2 = h2  u1 = u1  u2 = u2  u3 = u3  y1 = y1  y2 = y2  i1 = i1  a1 = a1
    c1 = c1  c2 = c2  r1 = r1  r2 = r2  r3 = r3
    MaxVersions = 2
    PlanCodes = {g1}
    Metrics = {m1}
    GrantKeys = {k1}
    CatalogRequests = {q1, q2}
    SubscriptionIds = {s1}
    ExternalIds = {x1}
    MaxCatalogWrites = 4
    TxIds = {t1, t2, t3}
    Payloads = {h1, h2}
    UsageRequests = {u1, u2, u3}
    SyncRequests = {y1, y2}
    Invoices = {i1}
    InvoiceCustomer <- MCInvoiceCustomer
    InvoiceSubscription <- MCInvoiceSubscription
    MaxFenceMoves = 1
    RatedMetrics = {m1}
    AlertIds = {a1}
    Bounds = {1, 3}
    TierAmounts = {0, 2}
    BasePrices = {1}
    MaxTiers = 2
    MinimumSpends = {0, 3}
    MaxQuantity = 4
    MaxRatingWrites = 2
    Callers = {c1, c2}
    Ids = {r1, r2, r3}
    Timed = {r1}
    Amounts = {2}
    Limits = {2}
    NoLimit = NoLimit
    NoId = NoId
INVARIANTS RepliesMatchLedger CostMatchesDefinition EventsMatchLedger OverspendBounded
PROPERTIES FinalizedFrozen PinnedPlanStays SettledOnce TimedReservationsEnd
CHECK_DEADLOCK FALSE
