---------------------------- MODULE Credentials ----------------------------
(***************************************************************************)
(* API keys of one provider environment.  A tenant request authenticates   *)
(* once; what it read of its key then (its scopes) serves for the rest of  *)
(* the request.  RevokeCredential updates WHERE id = $1 only, so an        *)
(* operation that first checks that a key is live reads in one step and    *)
(* commits in another.  Plaintexts, hashes, names and CIDR lists are left  *)
(* out: `permitted' stands for the outcome of the CIDR check.              *)
(***************************************************************************)
EXTENDS Naturals, Sequences, Trail

CONSTANTS Callers,      \* requests in flight
          GrantChoices, \* the scope sets that requests ask for
          MaxCreds,     \* bound: credentials ever created
          MaxRotations  \* bound: keys created, rotated or revoked on their own

VARIABLES creds,        \* credentials, in creation order: [scopes, revoked, expired]
          atx,          \* what each request in flight has read
          rotations

credState == <<creds, atx, rotations>>

AllScopes == {"read", "write", "credentials:manage", "audit:read", "support:approve",
              "scim:manage"}
ValidScope(sc) == sc \in AllScopes
NoRequestYet == [op |-> "idle"]
ASSUME CredentialAssumption ==
    GrantChoices \subseteq SUBSET AllScopes /\ MaxCreds \in Nat \ {0} /\ MaxRotations \in Nat

-----------------------------------------------------------------------------
(* Queries *)

InsertCredential(scopes) == Append(creds, [scopes |-> scopes, revoked |-> FALSE, expired |-> FALSE])

\* RevokeCredential, unguarded.
RevokeRowIn(rows, c) == [rows EXCEPT ![c].revoked = TRUE]

ScopesUpdatable(c) == ~creds[c].revoked
UpdateCredentialScopes(c, scopes) == [creds EXCEPT ![c].scopes = scopes]

GetCredentialByID(c) == creds[c]
GetCredentialByProvider(c) == creds[c]

\* ResolveCredentialByKeyHash and the checks of apiKeyAuth.
ResolveCredentialByKeyHash(c) == creds[c]

-----------------------------------------------------------------------------
(* Authentication *)

cidrAllowed(permitted) == permitted

\* The scopes go into the tenant context, HasScope reads them from there.
apiKeyAuth(a, c, permitted) ==
    /\ atx[a] = NoRequestYet
    /\ LET row == ResolveCredentialByKeyHash(c) IN
       /\ ~row.revoked /\ ~row.expired
       /\ cidrAllowed(permitted)
       /\ atx' = [atx EXCEPT ![a] = [op |-> "authenticated", scopes |-> row.scopes]]
    /\ UNCHANGED <<creds, rotations, trail>>

requireScope(a, sc) == atx[a].op = "authenticated" /\ sc \in atx[a].scopes

\* A request that was refused, or that has nothing left to do, ends.
EndRequest(a) ==
    /\ atx[a].op = "authenticated"
    /\ atx' = [atx EXCEPT ![a] = NoRequestYet]
    /\ UNCHANGED <<creds, rotations, trail>>

-----------------------------------------------------------------------------
(* The provider's own keys *)

CredentialAction(rows) == rotations < MaxRotations /\ rotations' = rotations + 1 /\ AppendRows(rows)
NewCredential == Len(creds) + 1
HasRoom == Len(creds) < MaxCreds

\* Scope attenuation: a key mints keys within its own scopes.
CreateCredential(a, scopes) ==
    /\ requireScope(a, "credentials:manage")
    /\ scopes # {} /\ \A sc \in scopes : ValidScope(sc) /\ sc \in atx[a].scopes
    /\ HasRoom
    /\ creds' = InsertCredential(scopes)
    /\ atx' = [atx EXCEPT ![a] = NoRequestYet]
    /\ CredentialAction(emitOutboxTx("credential.created", NewCredential)
                   \cup insertAuditTx("credential.create", NewCredential))

\* The read of a revocation or a rotation: an already revoked key is refused.
ReadForChange(a, op, c) ==
    /\ ~creds[c].revoked
    /\ rotations < MaxRotations
    /\ atx' = [atx EXCEPT ![a] = [op |-> op, cred |-> c, scopes |-> creds[c].scopes]]
    /\ UNCHANGED <<creds, rotations, trail>>

RevokeCredential(a, c) == requireScope(a, "credentials:manage") /\ ReadForChange(a, "revoke", c)

\* The commit of RevokeCredential and of RevokeProviderCredential.
RevokeCommit(a) ==
    /\ atx[a].op = "revoke"
    /\ creds' = RevokeRowIn(creds, atx[a].cred)
    /\ atx' = [atx EXCEPT ![a] = NoRequestYet]
    /\ CredentialAction(emitOutboxTx("credential.revoked", atx[a].cred)
                   \cup insertAuditTx("credential.revoke", atx[a].cred))

-----------------------------------------------------------------------------
(* The operator console *)

validateCredentialInput(scopes, inFuture) ==
    scopes # {} /\ (\A sc \in scopes : ValidScope(sc)) /\ inFuture

CreateProviderCredential(a, scopes, inFuture) ==
    /\ atx[a] = NoRequestYet
    /\ validateCredentialInput(scopes, inFuture)
    /\ HasRoom
    /\ creds' = InsertCredential(scopes)
    /\ CredentialAction(emitOutboxTx("credential.created", NewCredential)
                   \cup insertAuditTx("credential.create", NewCredential))
    /\ UNCHANGED atx

RevokeProviderCredential(a, c) == atx[a] = NoRequestYet /\ ReadForChange(a, "revoke", c)

RotateProviderCredential(a, c) == atx[a] = NoRequestYet /\ ReadForChange(a, "rotate", c)

\* The replacement gets the scopes that were read; the old key is revoked
\* whether or not it still was live.  The replacement belongs to no member.
RotateCommit(a) ==
    /\ atx[a].op = "rotate"
    /\ HasRoom
    /\ creds' = RevokeRowIn(InsertCredential(atx[a].scopes), atx[a].cred)
    /\ atx' = [atx EXCEPT ![a] = NoRequestYet]
    /\ CredentialAction(emitOutboxTx("credential.created", NewCredential)
                   \cup emitOutboxTx("credential.revoked", atx[a].cred)
                   \cup insertAuditTx("credential.rotate", atx[a].cred))

\* expires_at passes.  The first key never expires.
KeyExpires ==
    \E c \in DOMAIN creds \ {1} :
        /\ ~creds[c].expired /\ rotations < MaxRotations
        /\ creds' = [creds EXCEPT ![c].expired = TRUE]
        /\ rotations' = rotations + 1
        /\ UNCHANGED <<atx, trail>>

-----------------------------------------------------------------------------
(* Handlers *)

createCredential(a) == \E scopes \in GrantChoices : CreateCredential(a, scopes)
revokeCredential(a) == \E c \in DOMAIN creds : RevokeCredential(a, c)
operatorCreateCredential(a) ==
    \E scopes \in GrantChoices, f \in BOOLEAN : CreateProviderCredential(a, scopes, f)
operatorRotateCredential(a) == \E c \in DOMAIN creds : RotateProviderCredential(a, c)
revokeProviderCredential(a) == \E c \in DOMAIN creds : RevokeProviderCredential(a, c)

\* The provider starts with the key that CreateProvider returned.
CredentialInit ==
    /\ creds = <<[scopes |-> AllScopes, revoked |-> FALSE, expired |-> FALSE]>>
    /\ atx = [a \in Callers |-> NoRequestYet]
    /\ rotations = 0

CredentialNext ==
    \/ \E a \in Callers :
          \/ \E c \in DOMAIN creds, permitted \in BOOLEAN : apiKeyAuth(a, c, permitted)
          \/ EndRequest(a)
          \/ createCredential(a) \/ revokeCredential(a) \/ operatorCreateCredential(a)
          \/ operatorRotateCredential(a) \/ revokeProviderCredential(a)
          \/ RevokeCommit(a) \/ RotateCommit(a)
    \/ KeyExpires
=============================================================================
