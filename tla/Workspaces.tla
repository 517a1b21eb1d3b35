----------------------------- MODULE Workspaces -----------------------------
(***************************************************************************)
(* Platform workspaces, their members and the provider record created with *)
(* each.  An operation reads memberships (and counts administrators) and   *)
(* then writes, with no lock in between: a step that reads and checks, and *)
(* a step that commits.  These calls write no outbox or audit row.         *)
(***************************************************************************)
EXTENDS Naturals, Sequences, FiniteSets

CONSTANTS Subs,             \* platform users
          slugForWorkspace, \* the base of each user's slug
          NewSlugs,         \* slugs that administrators choose
          MaxWorkspaces,    \* bound: workspaces ever provisioned
          MaxWsChanges      \* bound: operations begun

ASSUME WorkspaceAssumption == IsFiniteSet(Subs)

VARIABLES workspaces,   \* [slug: <<base, suffix>>, provider: its provider's slug or <<>>, members: sub -> role]
          wtx,          \* the open transaction of each user
          wsChanges

workspaceState == <<workspaces, wtx, wsChanges>>

NoTransaction == [op |-> "idle"]
NotMember == "none"
NoProvider == <<>>
Plain(base) == <<base, 0>>
PlatformRoles == {"provider_admin", "provider_developer", "provider_billing"}
ValidPlatformRole(r) == r \in PlatformRoles

-----------------------------------------------------------------------------
(* Queries *)

GetWorkspaceMember(w, u) == workspaces[w].members[u]

CountWorkspaceAdmins(w) ==
    Cardinality({u \in Subs : GetWorkspaceMember(w, u) = "provider_admin"})

ListWorkspacesByUser(u) ==
    {w \in DOMAIN workspaces : GetWorkspaceMember(w, u) # NotMember}

ProviderSlugs == {workspaces[w].provider : w \in DOMAIN workspaces}
WorkspaceSlugs == {workspaces[w].slug : w \in DOMAIN workspaces}

SetMember(w, u, role) == workspaces' = [workspaces EXCEPT ![w].members[u] = role]

UpsertWorkspaceMember(w, u, role) == SetMember(w, u, role)

\* UPDATE ... WHERE status = 'active': no row, and an error, for a member who left.
UpdateMemberRoleRow(w, u, role) == GetWorkspaceMember(w, u) # NotMember /\ SetMember(w, u, role)

\* DELETE, without complaint when the row is gone.
DeleteMemberRow(w, u) == SetMember(w, u, NotMember)

CreateWorkspaceIfFree(slug) == slug \notin WorkspaceSlugs

CreateProviderRow(slug) == slug \notin ProviderSlugs

-----------------------------------------------------------------------------
(* Checks *)

requireWorkspaceMember(w, u) == GetWorkspaceMember(w, u) # NotMember
requireWorkspaceAdmin(w, u) ==
    requireWorkspaceMember(w, u) /\ GetWorkspaceMember(w, u) = "provider_admin"

\* Mutant: the last administrator is not counted.
guardNoAdmin(w) == CountWorkspaceAdmins(w) > 0

guardLastWorkspaceAdmin(w) == CountWorkspaceAdmins(w) > 1

BeginWorkspaceTx(u, t) ==
    /\ wtx[u] = NoTransaction
    /\ wsChanges < MaxWsChanges
    /\ wsChanges' = wsChanges + 1
    /\ wtx' = [wtx EXCEPT ![u] = t]
    /\ UNCHANGED workspaces

EndWorkspaceTx(u, op) ==
    /\ wtx[u].op = op
    /\ wtx' = [wtx EXCEPT ![u] = NoTransaction]
    /\ UNCHANGED wsChanges

-----------------------------------------------------------------------------
(* Signup *)

\* ProvisionWorkspace finds no membership; or finds one and heals its provider.
ProvisionWorkspace(u) ==
    \/ /\ ListWorkspacesByUser(u) = {}
       /\ BeginWorkspaceTx(u, [op |-> "signup"])
    \/ /\ ListWorkspacesByUser(u) # {}
       /\ wtx[u] = NoTransaction
       /\ LET w == CHOOSE v \in ListWorkspacesByUser(u) :
                      \A v2 \in ListWorkspacesByUser(u) : v <= v2 IN
          /\ workspaces[w].provider = NoProvider
          /\ CreateProviderRow(workspaces[w].slug)
          /\ workspaces' = [workspaces EXCEPT ![w].provider = workspaces[w].slug]
       /\ UNCHANGED <<wtx, wsChanges>>

\* The base slug, or the base with a random suffix when it is taken.
createWorkspaceWithFreeSlug(u) ==
    IF CreateWorkspaceIfFree(Plain(slugForWorkspace[u]))
    THEN Plain(slugForWorkspace[u])
    ELSE <<slugForWorkspace[u], Len(workspaces)>>

ProvisionWorkspaceCommit(u) ==
    LET slug == createWorkspaceWithFreeSlug(u) IN
    /\ EndWorkspaceTx(u, "signup")
    /\ IF CreateProviderRow(slug) /\ Len(workspaces) < MaxWorkspaces
       THEN workspaces' = Append(workspaces,
                [slug |-> slug, provider |-> slug,
                 members |-> [v \in Subs |-> IF v = u THEN "provider_admin" ELSE NotMember]])
       ELSE UNCHANGED workspaces    \* providers.slug is taken: the signup rolls back

-----------------------------------------------------------------------------
(* Administration *)

\* The provider keeps the slug it was created with.
UpdateWorkspace(u, w, slug) ==
    /\ requireWorkspaceAdmin(w, u)
    /\ BeginWorkspaceTx(u, [op |-> "rename", ws |-> w, slug |-> slug])

UpdateWorkspaceCommit(u) ==
    /\ EndWorkspaceTx(u, "rename")
    /\ IF CreateWorkspaceIfFree(wtx[u].slug)
       THEN workspaces' = [workspaces EXCEPT ![wtx[u].ws].slug = wtx[u].slug]
       ELSE UNCHANGED workspaces

\* No look at who the invited user is: an invitation may rewrite any role.
InviteWorkspaceMember(u, w, v, role) ==
    /\ ValidPlatformRole(role)
    /\ requireWorkspaceAdmin(w, u)
    /\ BeginWorkspaceTx(u, [op |-> "invite", ws |-> w, user |-> v, role |-> role])

InviteWorkspaceMemberCommit(u) ==
    EndWorkspaceTx(u, "invite") /\ UpsertWorkspaceMember(wtx[u].ws, wtx[u].user, wtx[u].role)

UpdateWorkspaceMemberRole(u, w, v, role) ==
    /\ ValidPlatformRole(role)
    /\ requireWorkspaceAdmin(w, u)
    /\ GetWorkspaceMember(w, v) # NotMember
    /\ GetWorkspaceMember(w, v) = "provider_admin" /\ role # "provider_admin"
       => guardLastWorkspaceAdmin(w)
    /\ BeginWorkspaceTx(u, [op |-> "role", ws |-> w, user |-> v, role |-> role,
                            counted |-> CountWorkspaceAdmins(w),
                            read |-> GetWorkspaceMember(w, v)])

UpdateWorkspaceMemberRoleCommit(u) ==
    /\ EndWorkspaceTx(u, "role")
    /\ IF requireWorkspaceMember(wtx[u].ws, wtx[u].user)
       THEN UpdateMemberRoleRow(wtx[u].ws, wtx[u].user, wtx[u].role)
       ELSE UNCHANGED workspaces

RemoveWorkspaceMember(u, w, v) ==
    /\ requireWorkspaceAdmin(w, u)
    /\ GetWorkspaceMember(w, v) # NotMember
    /\ GetWorkspaceMember(w, v) = "provider_admin" => guardLastWorkspaceAdmin(w)
    /\ BeginWorkspaceTx(u, [op |-> "remove", ws |-> w, user |-> v,
                            counted |-> CountWorkspaceAdmins(w),
                            read |-> GetWorkspaceMember(w, v)])

RemoveWorkspaceMemberCommit(u) ==
    EndWorkspaceTx(u, "remove") /\ DeleteMemberRow(wtx[u].ws, wtx[u].user)

-----------------------------------------------------------------------------
(* Handlers *)

signup(u) == ProvisionWorkspace(u)
updateWorkspace(u) == \E w \in DOMAIN workspaces, s \in NewSlugs : UpdateWorkspace(u, w, Plain(s))
inviteWorkspaceMember(u) ==
    \E w \in DOMAIN workspaces, v \in Subs, r \in PlatformRoles : InviteWorkspaceMember(u, w, v, r)
updateWorkspaceMemberRole(u) ==
    \E w \in DOMAIN workspaces, v \in Subs, r \in PlatformRoles :
        UpdateWorkspaceMemberRole(u, w, v, r)
removeWorkspaceMember(u) ==
    \E w \in DOMAIN workspaces, v \in Subs : RemoveWorkspaceMember(u, w, v)

\* No workspace yet, or one from before workspaces had providers.
WorkspaceInit ==
    /\ workspaces \in {<<>>} \cup
           {<<[slug |-> Plain(slugForWorkspace[u]), provider |-> NoProvider,
               members |-> [v \in Subs |-> IF v = u THEN "provider_admin" ELSE NotMember]]>>
              : u \in Subs}
    /\ wtx = [u \in Subs |-> NoTransaction]
    /\ wsChanges = 0

WorkspaceNext ==
    \E u \in Subs :
        \/ signup(u) \/ updateWorkspace(u) \/ inviteWorkspaceMember(u)
        \/ updateWorkspaceMemberRole(u) \/ removeWorkspaceMember(u)
        \/ ProvisionWorkspaceCommit(u) \/ UpdateWorkspaceCommit(u)
        \/ InviteWorkspaceMemberCommit(u) \/ UpdateWorkspaceMemberRoleCommit(u)
        \/ RemoveWorkspaceMemberCommit(u)

WorkspaceSpec == WorkspaceInit /\ [][WorkspaceNext]_workspaceState

-----------------------------------------------------------------------------
(* Properties *)

\* What the comments of workspace.go claim of UpdateWorkspaceMemberRole and
\* RemoveWorkspaceMember: "the last active provider_admin can never be demoted"
\* or "removed".
LastAdminNeverLost ==
    [][\A w \in DOMAIN workspaces, u \in Subs :
         wtx[u].op \in {"role", "remove"} /\ wtx'[u] # wtx[u] =>
         (CountWorkspaceAdmins(w) > 0 => CountWorkspaceAdmins(w)' > 0)]_workspaceState

\* What the guard does give: a workspace loses its last administrator only
\* through an invitation, which rewrites a role without a look at it, or through
\* a change whose target, or whose count of administrators, another transaction
\* changed after the guard had read it (the count takes no lock).
LastAdminLostOnlyByRace ==
    [][\A w \in DOMAIN workspaces :
         CountWorkspaceAdmins(w) > 0 /\ CountWorkspaceAdmins(w)' = 0 =>
         \E u \in Subs :
            /\ wtx[u] # wtx'[u]
            /\ \/ wtx[u].op = "invite"
               \/ /\ wtx[u].op \in {"role", "remove"}
                  /\ \/ wtx[u].counted # CountWorkspaceAdmins(w)
                     \/ wtx[u].read # GetWorkspaceMember(w, wtx[u].user)
      ]_workspaceState

=============================================================================
