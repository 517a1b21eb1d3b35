SPECIFICATION AuditSpec
CONSTANTS
    Writers = {w1, w2}
    Purgers = {u1}
    Archivers = {a1}
    MaxId = 3
    MaxStarts = 3
    PurgeBatch = 1
    MaxAnchors = 1
    ArchiveBatch = 1
    MaxArchiveFaults = 0
    NoWriter = NoWriter
    NoAnchor = NoAnchor
INVARIANT IntactChainVerifies
