SPECIFICATION WorkspaceSpec
CONSTANTS
    u1 = u1  u2 = u2
    Subs = {u1, u2}
    slugForWorkspace <- MCslugForWorkspace
    NewSlugs = {"beta"}
    MaxWorkspaces = 2
    MaxWsChanges = 4
PROPERTY LastAdminNeverLost
CHECK_DEADLOCK FALSE
