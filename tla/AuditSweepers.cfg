SPECIFICATION AuditSpec
CONSTANTS
    Writers = {w1, w2}
    Purgers = {u1, u2}
    Archivers = {a1}
    MaxId = 3
    MaxStarts = 2
    PurgeBatch = 1
    MaxAnchors = 1
    ArchiveBatch = 1
    MaxArchiveFaults = 0
    NoWriter = NoWriter
    NoAnchor = NoAnchor
INVARIANT BoundaryCoversPurged
