SPECIFICATION MCSpec
CONSTANTS
    c1 = c1  c2 = c2  r1 = r1  r2 = r2  k1 = k1  k2 = k2  p1 = p1  e1 = e1
    w1 = w1  w2 = w2  u1 = u1  u2 = u2  a1 = a1  a2 = a2
    Callers = {c1, c2}
    MaxDrift = 0
    FailureThreshold = 2
    HalfOpenMax = 1
    NoEvent = NoEvent
    Relays = {r1, r2}
    Events = {1, 2, 3}
    Usage = {1, 2}
    Garbled = {2}
    Batch = 2
    MaxAttempts = 2
    MaxCrashes = 1
    MaxFaults = 1
    Workers = {k1, k2}
    Endpoints = {p1}
    HookEvents = {e1}
    Matches <- MCMatches
    MaxDeliveryAttempts = 2
    MaxDeliveryFaults = 1
    MaxWorkerCrashes = 1
    MaxReplays = 1
    MaxSuspensions = 1
    NoDelivery = NoDelivery
    Writers = {w1, w2}
    Purgers = {u1, u2}
    Archivers = {a1, a2}
    MaxId = 3
    MaxStarts = 2
    PurgeBatch = 1
    MaxAnchors = 2
    ArchiveBatch = 1
    MaxArchiveFaults = 1
    NoWriter = NoWriter
    NoAnchor = NoAnchor
INVARIANTS SlotCap NoLeakedSlot OneHolder PublishedWasBilled DeadLetterSpentAttempts DeliveredWasReceived ChainIsLinear BoundaryMissesOnlyStrays PublishedIsArchived
PROPERTIES AlwaysReadmits ImplementsSerial DeadLetterLeftOnlyLate ImplementsDelivery EventuallySettled DeliveriesSettle AnchorsArchived
