SPECIFICATION TeamSpec
CONSTANTS
    a1 = a1  a2 = a2
    Callers = {a1, a2}
    GrantChoices = {{"read", "write"}}
    MaxCreds = 3
    MaxRotations = 1
    m1 = m1
    Emails = {m1}
    RoleChoices = {"admin", "developer"}
INVARIANT KeysFollowMembers
CHECK_DEADLOCK FALSE
