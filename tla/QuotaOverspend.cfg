SPECIFICATION QuotaSpec
CONSTANTS
    Callers = {c1, c2}
    Ids = {r1, r2}
    Timed = {r1}
    Amounts = {1, 2}
    Limits = {2}
    NoLimit = NoLimit
    NoId = NoId
INVARIANT UsageWithinLimit
