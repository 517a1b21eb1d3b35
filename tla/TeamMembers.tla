---------------------------- MODULE TeamMembers ----------------------------
(***************************************************************************)
(* Team members of a provider environment, each with one linked API key    *)
(* whose scopes come from the member's role.  An operation reads the       *)
(* member's row, checks its status, and then updates the row again WHERE   *)
(* its status still allows it; but the key it revokes or rescopes, and the *)
(* role it issues a key for, are those of the row it read.                 *)
(***************************************************************************)
EXTENDS Credentials

CONSTANTS Emails,       \* normalised addresses, unique in the environment
          RoleChoices   \* the roles that requests ask for

VARIABLE members        \* team_members by e-mail: [status, role, cred]

teamVars == <<members, credState, trail>>

NoMember == [status |-> "none"]
TeamRoles == {"admin", "billing_admin", "developer", "support_agent"}
ValidTeamRole(r) == r \in TeamRoles
TeamOps == {"role", "suspend", "remove", "reactivate"}

RoleScopes(r) ==
    CASE r = "admin" -> AllScopes
      [] r = "billing_admin" -> {"read", "write", "audit:read"}
      [] r = "developer" -> {"read", "write"}
      [] r = "support_agent" -> {"read", "audit:read", "support:approve"}

\* The caller must hold every scope of the role it hands out.
Covers(a, role) == RoleScopes(role) \subseteq atx[a].scopes

-----------------------------------------------------------------------------
(* Queries *)

CreateTeamMember(m, role, c) ==
    /\ members[m] = NoMember
    /\ members' = [members EXCEPT ![m] = [status |-> "active", role |-> role, cred |-> c]]

SetStatus(m, from, to) ==
    members[m].status \in from /\ members' = [members EXCEPT ![m].status = to]

SetTeamMemberRole(m, role) ==
    members[m].status = "active" /\ members' = [members EXCEPT ![m].role = role]

\* ReactivateTeamMember and SetTeamMemberCredential.
ReactivateWith(m, c) ==
    /\ members[m].status = "suspended"
    /\ members' = [members EXCEPT ![m].status = "active", ![m].cred = c]

GetTeamMemberByID(a, op, m, role) ==
    /\ requireScope(a, "credentials:manage")
    /\ atx' = [atx EXCEPT ![a] = [op |-> op, member |-> m, row |-> members[m], role |-> role]]
    /\ UNCHANGED <<members, creds, rotations, trail>>

\* The writes of an operation become visible, with their two rows of the trail.
TeamCommit(a, op, event, action) ==
    /\ atx[a].op = op
    /\ atx' = [atx EXCEPT ![a] = NoRequestYet]
    /\ AppendRows(emitOutboxTx(event, atx[a].member) \cup insertAuditTx(action, atx[a].member))
    /\ UNCHANGED rotations

\* A guarded UPDATE that matches no row, or a key that may not be rescoped,
\* fails the transaction.
TeamRollback(a) ==
    /\ LET t == atx[a]
           now == IF t.op \in TeamOps
                  THEN members[t.member].status ELSE "none" IN
       \/ t.op \in {"role", "suspend"} /\ now # "active"
       \/ t.op = "role" /\ ~ScopesUpdatable(t.row.cred)
       \/ t.op = "remove" /\ now = "removed"
       \/ t.op = "reactivate" /\ now # "suspended"
    /\ atx' = [atx EXCEPT ![a] = NoRequestYet]
    /\ UNCHANGED <<members, creds, rotations, trail>>

-----------------------------------------------------------------------------
(* Service *)

\* Nothing is read: the member, the key and the link are one transaction.
InviteTeamMember(a, m, role) ==
    /\ requireScope(a, "credentials:manage")
    /\ ValidTeamRole(role) /\ Covers(a, role)
    /\ HasRoom
    /\ CreateTeamMember(m, role, NewCredential)
    /\ creds' = InsertCredential(RoleScopes(role))
    /\ atx' = [atx EXCEPT ![a] = NoRequestYet]
    /\ AppendRows(emitOutboxTx("team.member_invited", m) \cup insertAuditTx("team.member_invite", m))
    /\ UNCHANGED rotations

UpdateTeamMemberRole(a, m, role) ==
    /\ members[m].status = "active"
    /\ requireScope(a, "credentials:manage")
    /\ ValidTeamRole(role) /\ Covers(a, role)
    /\ GetTeamMemberByID(a, "role", m, role)

\* Mutant: the linked key keeps the scopes of the old role.
RoleWithoutScopes(a) ==
    /\ TeamCommit(a, "role", "team.member_role_changed", "team.member_role_change")
    /\ SetTeamMemberRole(atx[a].member, atx[a].role)
    /\ UNCHANGED creds

UpdateTeamMemberRoleCommit(a) ==
    /\ TeamCommit(a, "role", "team.member_role_changed", "team.member_role_change")
    /\ SetTeamMemberRole(atx[a].member, atx[a].role)
    /\ ScopesUpdatable(atx[a].row.cred)
    /\ creds' = UpdateCredentialScopes(atx[a].row.cred, RoleScopes(atx[a].role))

SuspendTeamMember(a, m) ==
    members[m].status = "active" /\ GetTeamMemberByID(a, "suspend", m, "null")

SuspendTeamMemberCommit(a) ==
    /\ TeamCommit(a, "suspend", "team.member_suspended", "team.member_suspend")
    /\ SetStatus(atx[a].member, {"active"}, "suspended")
    /\ creds' = RevokeRowIn(creds, atx[a].row.cred)

RemoveTeamMember(a, m) ==
    members[m].status \in {"active", "suspended"} /\ GetTeamMemberByID(a, "remove", m, "null")

RemoveTeamMemberCommit(a) ==
    /\ TeamCommit(a, "remove", "team.member_removed", "team.member_remove")
    /\ SetStatus(atx[a].member, {"active", "suspended"}, "removed")
    /\ creds' = RevokeRowIn(creds, atx[a].row.cred)

ReactivateTeamMember(a, m) ==
    members[m].status = "suspended" /\ GetTeamMemberByID(a, "reactivate", m, "null")

ReactivateTeamMemberCommit(a) ==
    /\ TeamCommit(a, "reactivate", "team.member_reactivated", "team.member_reactivate")
    /\ HasRoom
    /\ ReactivateWith(atx[a].member, NewCredential)
    /\ creds' = InsertCredential(RoleScopes(atx[a].row.role))

-----------------------------------------------------------------------------
(* Handlers *)

inviteTeamMember(a) == \E m \in Emails, r \in RoleChoices : InviteTeamMember(a, m, r)
updateTeamMemberRole(a) == \E m \in Emails, r \in RoleChoices : UpdateTeamMemberRole(a, m, r)
suspendTeamMember(a) == \E m \in Emails : SuspendTeamMember(a, m)
removeTeamMember(a) == \E m \in Emails : RemoveTeamMember(a, m)
reactivateTeamMember(a) == \E m \in Emails : ReactivateTeamMember(a, m)

TeamInit == members = [m \in Emails |-> NoMember] /\ CredentialInit

TeamNext ==
    \/ CredentialNext /\ UNCHANGED members
    \/ \E a \in Callers :
          \/ inviteTeamMember(a) \/ updateTeamMemberRole(a) \/ suspendTeamMember(a)
          \/ removeTeamMember(a) \/ reactivateTeamMember(a)
          \/ UpdateTeamMemberRoleCommit(a) \/ SuspendTeamMemberCommit(a)
          \/ RemoveTeamMemberCommit(a) \/ ReactivateTeamMemberCommit(a)
          \/ TeamRollback(a)

TeamSpec == TeamInit /\ trail = {} /\ [][TeamNext]_teamVars

-----------------------------------------------------------------------------
(* Properties *)

\* The key follows the member: it is live only while the member is active, and
\* then it has the scopes of the member's role.
LinkedKeyFollows(m) ==
    members[m] # NoMember =>
        LET key == creds[members[m].cred] IN
        key.revoked \/ (members[m].status = "active" /\ key.scopes = RoleScopes(members[m].role))

\* What the comments of team.go claim: SuspendTeamMember "suspends an active team
\* member and revokes their credential", RemoveTeamMember "permanently removes a
\* team member and revokes their credential".
KeysFollowMembers == \A m \in Emails : LinkedKeyFollows(m)

\* A commit for m that acts on the key, or issues a key for the role, of a row
\* that has changed since the request read it.
OvertakenCommit(a, m) ==
    /\ atx[a].op \in TeamOps /\ atx[a].member = m /\ atx'[a] # atx[a]
    /\ IF atx[a].op = "reactivate" THEN atx[a].row.role # members[m].role
                                   ELSE atx[a].row.cred # members[m].cred

\* No other step loses the claim: whatever two administrators and the operator
\* console do at the same time, a key that follows its member goes on doing so
\* unless the commit of a request acts on a row that another request changed
\* between the read and the commit.
KeysLostOnlyByStaleCommit ==
    [][\A m \in Emails :
          LinkedKeyFollows(m) => LinkedKeyFollows(m)' \/ \E a \in Callers : OvertakenCommit(a, m)]_teamVars
=============================================================================
