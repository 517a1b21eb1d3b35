----------------------------- MODULE Directory -----------------------------
(***************************************************************************)
(* The SCIM directory of one provider environment: users, groups and       *)
(* memberships.  A create that finds the external id taken returns the     *)
(* existing row; one that loses a race fails on the unique index.  Either  *)
(* way nothing changes, so every call is one step.  Display names are left *)
(* out.  A PATCH is a sequence of operations applied in order in one       *)
(* transaction.                                                            *)
(***************************************************************************)
EXTENDS Naturals, SequencesExt, Customers

CONSTANTS Addresses,    \* normalised e-mail addresses
          GroupIds,     \* external ids of groups
          UserPatches,  \* the PATCH bodies that requests carry, sequences of operations
          GroupPatches

\* "none" marks a missing row, so it is no e-mail address and no external id.
ASSUME DirectoryAssumption == "none" \notin Addresses /\ "none" \notin ExternalIds

\* The code skips an operation whose value has the wrong JSON type, so the patches
\* list the others only.
ASSUME PatchAssumption == \A p \in UserPatches \cup GroupPatches : p \in Seq({p[i] : i \in DOMAIN p})
ASSUME EmailAssumption ==
    \A p \in UserPatches : \A i \in DOMAIN p : p[i].path = "email" => p[i].value \in Addresses
ASSUME ActiveAssumption ==
    \A p \in UserPatches : \A i \in DOMAIN p : p[i].path = "active" => p[i].value \in BOOLEAN
ASSUME MemberAssumption ==
    \A p \in GroupPatches : \A i \in DOMAIN p :
        p[i].op = "add" /\ p[i].path = "members" => p[i].value \in ExternalIds

VARIABLES scimUsers,    \* scim_users by external id: [email, active, customer]
          scimGroups    \* scim_groups by external id: the set of member users, or NoGroup

directoryState == <<scimUsers, scimGroups>>

NoUser == [email |-> "none"]
NoGroup == {"none"}

-----------------------------------------------------------------------------
(* Queries *)

GetSCIMUserByID(x) == scimUsers[x] # NoUser
GetSCIMUserByExternalID(x) == scimUsers[x] # NoUser
GetSCIMGroupByID(g) == scimGroups[g] # NoGroup
GetSCIMGroupByExternalID(g) == scimGroups[g] # NoGroup

\* UNIQUE (provider_id, environment_id, email).
EmailFree(x, mail) == \A y \in ExternalIds \ {x} : scimUsers[y].email # mail

\* SetSCIMUserCustomer: linked when the customer exists at creation, never later.
SetSCIMUserCustomer(x) == GetCustomerByExternalID(x)

UpdateUserRow(x, row) == scimUsers' = [scimUsers EXCEPT ![x] = row]

PatchSCIMUserActive(acc, v) == [acc EXCEPT !.row.active = v]
PatchSCIMUserEmail(x, acc, mail) ==
    [acc EXCEPT !.row.email = mail, !.ok = @ /\ EmailFree(x, mail)]

\* A member that is no user breaks the foreign key, and PostgreSQL then
\* rejects the rest of the transaction although the Go code drops the error.
AddSCIMGroupMember(acc, x) ==
    IF GetSCIMUserByID(x) THEN [acc EXCEPT !.row = @ \cup {x}] ELSE [acc EXCEPT !.ok = FALSE]
RemoveSCIMGroupMember(acc, x) == [acc EXCEPT !.row = @ \ {x}]

-----------------------------------------------------------------------------
(* Users *)

CreateSCIMUser(x, mail, active) ==
    /\ ~GetSCIMUserByExternalID(x)
    /\ EmailFree(x, mail)
    /\ UpdateUserRow(x, [email |-> mail, active |-> active, customer |-> SetSCIMUserCustomer(x)])
    /\ AppendRows(emitOutboxTx("scim.user_created", x) \cup insertAuditTx("scim.user_create", x))
    /\ UNCHANGED <<scimGroups, customers>>

UpdateSCIMUser(x, mail, active) ==
    /\ GetSCIMUserByID(x)
    /\ EmailFree(x, mail)
    /\ UpdateUserRow(x, [scimUsers[x] EXCEPT !.email = mail, !.active = active])
    /\ AppendRows(emitOutboxTx("scim.user_updated", x) \cup insertAuditTx("scim.user_update", x))
    /\ UNCHANGED <<scimGroups, customers>>

\* One operation of a PATCH: only "replace" of a known path does anything.
ApplyUserOp(x, acc, op) ==
    CASE op.op = "replace" /\ op.path = "active" -> PatchSCIMUserActive(acc, op.value)
      [] op.op = "replace" /\ op.path = "email"  -> PatchSCIMUserEmail(x, acc, op.value)
      [] OTHER                                   -> acc

PatchSCIMUser(x, patch) ==
    LET end == FoldLeft(LAMBDA acc, op : ApplyUserOp(x, acc, op),
                        [ok |-> TRUE, row |-> scimUsers[x]], patch) IN
    /\ GetSCIMUserByID(x)
    /\ end.ok
    /\ UpdateUserRow(x, end.row)
    /\ AppendRows(emitOutboxTx("scim.user_patched", x) \cup insertAuditTx("scim.user_patch", x))
    /\ UNCHANGED <<scimGroups, customers>>

\* ON DELETE CASCADE removes the memberships.
DeleteSCIMUser(x) ==
    /\ GetSCIMUserByID(x)
    /\ UpdateUserRow(x, NoUser)
    /\ scimGroups' = [g \in GroupIds |-> scimGroups[g] \ {x}]
    /\ AppendRows(emitOutboxTx("scim.user_deleted", x) \cup insertAuditTx("scim.user_delete", x))
    /\ UNCHANGED customers

-----------------------------------------------------------------------------
(* Groups *)

CreateSCIMGroup(g) ==
    /\ ~GetSCIMGroupByExternalID(g)
    /\ scimGroups' = [scimGroups EXCEPT ![g] = {}]
    /\ AppendRows(emitOutboxTx("scim.group_created", g) \cup insertAuditTx("scim.group_create", g))
    /\ UNCHANGED <<scimUsers, customers>>

DeleteSCIMGroup(g) ==
    /\ GetSCIMGroupByID(g)
    /\ scimGroups' = [scimGroups EXCEPT ![g] = NoGroup]
    /\ AppendRows(emitOutboxTx("scim.group_deleted", g) \cup insertAuditTx("scim.group_delete", g))
    /\ UNCHANGED <<scimUsers, customers>>

ApplyGroupOp(acc, op) ==
    CASE op.op = "add" /\ op.path = "members" -> AddSCIMGroupMember(acc, op.value)
      [] op.op = "remove"                     -> RemoveSCIMGroupMember(acc, op.value)
      [] OTHER                                -> acc

PatchSCIMGroup(g, patch) ==
    LET end == FoldLeft(ApplyGroupOp, [ok |-> TRUE, row |-> scimGroups[g]], patch) IN
    /\ GetSCIMGroupByID(g)
    /\ end.ok
    /\ scimGroups' = [scimGroups EXCEPT ![g] = end.row]
    /\ AppendRows(emitOutboxTx("scim.group_patched", g) \cup insertAuditTx("scim.group_patch", g))
    /\ UNCHANGED <<scimUsers, customers>>

-----------------------------------------------------------------------------
(* Handlers *)

scimCreateUser == \E x \in ExternalIds, e \in Addresses, a \in BOOLEAN : CreateSCIMUser(x, e, a)
scimUpdateUser == \E x \in ExternalIds, e \in Addresses, a \in BOOLEAN : UpdateSCIMUser(x, e, a)
scimPatchUser == \E x \in ExternalIds, p \in UserPatches : PatchSCIMUser(x, p)
scimDeleteUser == \E x \in ExternalIds : DeleteSCIMUser(x)
scimCreateGroup == \E g \in GroupIds : CreateSCIMGroup(g)
scimPatchGroup == \E g \in GroupIds, p \in GroupPatches : PatchSCIMGroup(g, p)
scimDeleteGroup == \E g \in GroupIds : DeleteSCIMGroup(g)

DirectoryInit ==
    /\ scimUsers = [x \in ExternalIds |-> NoUser]
    /\ scimGroups = [g \in GroupIds |-> NoGroup]

DirectoryNext ==
    \/ scimCreateUser \/ scimUpdateUser \/ scimPatchUser \/ scimDeleteUser
    \/ scimCreateGroup \/ scimPatchGroup \/ scimDeleteGroup
    \/ createCustomer /\ UNCHANGED directoryState

DirectorySpec ==
    /\ DirectoryInit /\ customers \in SUBSET ExternalIds /\ trail = {}
    /\ [][DirectoryNext]_<<directoryState, customers, trail>>

-----------------------------------------------------------------------------
(* Properties *)

\* Whatever a patch does in the middle, what it commits names nobody who is not
\* there: no two users share an address, every member of a group is a user (the
\* cascade of DeleteSCIMUser and the operations of PatchSCIMGroup), and a user who
\* was linked to a customer has one.
DirectoryConsistent ==
    /\ \A x, y \in ExternalIds :
          GetSCIMUserByID(x) /\ x # y => scimUsers[x].email # scimUsers[y].email
    /\ \A g \in GroupIds : GetSCIMGroupByID(g) =>
          \A x \in scimGroups[g] : x \in ExternalIds /\ GetSCIMUserByID(x)
    /\ \A x \in ExternalIds :
          GetSCIMUserByID(x) /\ scimUsers[x].customer => GetCustomerByExternalID(x)
=============================================================================
