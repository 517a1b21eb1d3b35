SPECIFICATION MCSpec
CONSTANTS
    c1 = c1  c2 = c2  p1 = p1  p2 = p2  o1 = o1  o2 = o2
    j1 = j1  r1 = r1  r2 = r2  q1 = q1  q2 = q2  x1 = x1  x2 = x2
    op1 = op1  op2 = op2  s1 = s1  s2 = s2  s3 = s3  a1 = a1  a2 = a2  m1 = m1
    e1 = e1  e2 = e2  g1 = g1  u1 = u1  u2 = u2  t1 = t1  t2 = t2  h1 = h1  h2 = h2
    d1 = d1  d2 = d2  n1 = n1  n2 = n2  k1 = k1  k2 = k2
    Cells = {c1, c2}
    NewCells = {c2}
    Providers = {p1, p2}
    CellOperators = {o1, o2}
    MaxFailovers = 2
    MaxCellMigrations = 1
    MaxManual = 1
    RegionOf <- MCRegionOf
    Jobs = {j1}
    Records = {r1, r2}
    Requests = {q1, q2}
    ExternalIds = {x1, x2}
    RecordType <- MCRecordType
    SourceFields <- MCSourceFields
    ExternalCode <- MCExternalCode
    MaxValidations = 2
    MaxFaults = 1
    Operators = {op1, op2}
    MaxReviews = 2
    MaxChanges = 4
    Staff = {s1, s2, s3}
    SupportIds = {1}
    MaxDuration = 2
    EmergencyMaxDuration = 1
    Callers = {a1, a2}
    GrantChoices <- MCGrantChoices
    MaxCreds = 3
    MaxRotations = 1
    Emails = {m1}
    RoleChoices = {"admin", "developer"}
    Addresses = {e1, e2}
    GroupIds = {g1}
    UserPatches <- MCUserPatches
    GroupPatches <- MCGroupPatches
    Subs = {u1, u2}
    slugForWorkspace <- MCslugForWorkspace
    NewSlugs = {"beta"}
    MaxWorkspaces = 2
    MaxWsChanges = 4
    Tenants = {t1, t2}
    Hosts = {h1, h2}
    validateDomain <- MCvalidateDomain
    DomainIds = {1, 2, 3}
    Exports = {d1, d2}
    MaxDataChanges = 2
    Goroutines = {n1, n2}
    Levels <- MCLevels
    Limit <- MCLimit
    Window = 1
    CleanupGrace = 0
    MaxTicks = 3
    MaxAttempts = 3
    Connections = {k1, k2}
    MaxSends = 3
    MaxSwitches = 1
INVARIANTS HistoryIsPath EnvironmentsFollowState StagesInOrder LockFollowsJob ImportsNameDistinctCustomers TwoPersonRule VerifiedWasProven AdmittedBounded DuplicatesHaveACause
PROPERTIES DirectGoLiveApproved BatchEnds AccessEnds KeysLostOnlyByStaleCommit LastAdminLostOnlyByRace ClaimsEnd
CHECK_DEADLOCK FALSE
