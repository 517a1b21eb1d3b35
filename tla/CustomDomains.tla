--------------------------- MODULE CustomDomains ---------------------------
(***************************************************************************)
(* Custom auth domains and the proof, by DNS, that a provider controls     *)
(* one.  DNS is external: the set of tokens published under each host.  A  *)
(* registration that is deleted frees its host, and whatever it published  *)
(* may stay behind in DNS for the next provider that registers the host.   *)
(***************************************************************************)
EXTENDS Naturals, Trail

CONSTANTS Tenants, Hosts,
          validateDomain(_),    \* the syntactic check of a host name
          DomainIds             \* bound: registrations ever made, 1..n

VARIABLES domains,      \* id -> NoDomain or [host, tenant, status, token]
          txt,          \* host -> tokens in its TXT record
          proofs,       \* history: <<tenant, token>> published by the tenant itself
          lookups       \* ids whose verification has read DNS and found the token

domainState == <<domains, txt, proofs, lookups>>
domainVars == <<domainState, trail>>

NoDomain == [status |-> "none"]

\* Mutant: the token is a digest of the host, the same for every registration.
hostToken(d, host) == host

\* 128 random bits: no other registration has this token.
generateVerificationToken(d, host) == d

-----------------------------------------------------------------------------
(* Queries *)

\* custom_domains.domain is UNIQUE over all providers, whatever the status.
CreateCustomDomain(d, t, h) ==
    /\ \A e \in DomainIds : domains[e] # NoDomain => domains[e].host # h
    /\ domains' = [domains EXCEPT ![d] =
           [host |-> h, tenant |-> t, status |-> "pending",
            token |-> generateVerificationToken(d, h)]]

SetDomainStatus(d, status) == domains' = [domains EXCEPT ![d].status = status]

VerifyCustomDomainRow(d) == domains[d].status = "pending" /\ SetDomainStatus(d, "verified")

RevokeCustomDomainRow(d) ==
    domains[d].status \in {"pending", "verified"} /\ SetDomainStatus(d, "revoked")

DeleteCustomDomainRow(d, t) ==
    /\ domains[d].status # "verified" /\ domains[d].tenant = t
    /\ domains' = [domains EXCEPT ![d] = NoDomain]

GetCustomDomainByID(d) == domains[d] # NoDomain

checkTenantOwnership(d, t) == domains[d].tenant = t

DomainRows(d, event, action) ==
    AppendRows(emitOutboxTx(event, <<"domain", d>>) \cup insertAuditTx(action, <<"domain", d>>))

-----------------------------------------------------------------------------
(* Service *)

RegisterCustomDomain(t, h) ==
    /\ validateDomain(h)
    /\ \E d \in DomainIds :
          /\ ~Audited("custom_domain.register", <<"domain", d>>)
          /\ \A e \in DomainIds : e < d => Audited("custom_domain.register", <<"domain", e>>)
          /\ CreateCustomDomain(d, t, h)
          /\ DomainRows(d, "custom_domain.registered", "custom_domain.register")
    /\ UNCHANGED <<txt, proofs, lookups>>

\* The transaction reads the row and asks DNS ...
dnsResolver(d) == domains[d].token \in txt[domains[d].host]

LookupDomainToken(t, d) ==
    /\ GetCustomDomainByID(d) /\ checkTenantOwnership(d, t)
    /\ domains[d].status = "pending"
    /\ dnsResolver(d)
    /\ d \notin lookups /\ lookups' = lookups \cup {d}
    /\ UNCHANGED <<domains, txt, proofs, trail>>

\* ... and by the time it writes, the row may have been revoked or deleted.
VerifyCustomDomain(d) ==
    /\ d \in lookups /\ lookups' = lookups \ {d}
    /\ \/ /\ VerifyCustomDomainRow(d)
          /\ DomainRows(d, "custom_domain.verified", "custom_domain.verify")
       \/ domains[d].status # "pending" /\ UNCHANGED <<domains, trail>>
    /\ UNCHANGED <<txt, proofs>>

RevokeCustomDomain(t, d) ==
    /\ GetCustomDomainByID(d) /\ checkTenantOwnership(d, t)
    /\ RevokeCustomDomainRow(d)
    /\ DomainRows(d, "custom_domain.revoked", "custom_domain.revoke")
    /\ UNCHANGED <<txt, proofs, lookups>>

DeleteCustomDomain(t, d) ==
    /\ GetCustomDomainByID(d) /\ checkTenantOwnership(d, t)
    /\ DeleteCustomDomainRow(d, t)
    /\ DomainRows(d, "custom_domain.deleted", "custom_domain.delete")
    /\ UNCHANGED <<txt, proofs, lookups>>

\* Request routing: the provider that owns a host.
GetCustomDomainByHostname(h) ==
    {d \in DomainIds : domains[d].status = "verified" /\ domains[d].host = h}

GetDomainByHostname(h) == {domains[d].tenant : d \in GetCustomDomainByHostname(h)}

-----------------------------------------------------------------------------
(* Handlers, and DNS *)

registerCustomDomain(t) == \E h \in Hosts : RegisterCustomDomain(t, h)
verifyCustomDomain(t) == \E d \in DomainIds : LookupDomainToken(t, d) \/ VerifyCustomDomain(d)
revokeCustomDomain(t) == \E d \in DomainIds : RevokeCustomDomain(t, d)
deleteCustomDomain(t) == \E d \in DomainIds : DeleteCustomDomain(t, d)

\* A provider is shown the token of its own registrations and publishes it.
PublishToken(t) ==
    \E d \in DomainIds :
        /\ GetCustomDomainByID(d) /\ checkTenantOwnership(d, t)
        /\ txt' = [txt EXCEPT ![domains[d].host] = @ \cup {domains[d].token}]
        /\ proofs' = proofs \cup {<<t, domains[d].token>>}
        /\ UNCHANGED <<domains, lookups, trail>>

WithdrawTokens(h) == txt' = [txt EXCEPT ![h] = {}] /\ UNCHANGED <<domains, proofs, lookups, trail>>

DomainInit ==
    /\ domains = [d \in DomainIds |-> NoDomain]
    /\ txt = [h \in Hosts |-> {}]
    /\ proofs = {} /\ lookups = {}

DomainNext ==
    \/ \E t \in Tenants :
          \/ registerCustomDomain(t) \/ verifyCustomDomain(t) \/ revokeCustomDomain(t)
          \/ deleteCustomDomain(t) \/ PublishToken(t)
    \/ \E h \in Hosts : WithdrawTokens(h)

DomainSpec == DomainInit /\ trail = {} /\ [][DomainNext]_domainVars

-----------------------------------------------------------------------------
(* Properties *)

\* A host routes to a provider only if that provider itself published the
\* token of its registration: nothing left in DNS by an earlier owner of the
\* host verifies for the next one (custom_domains.go: takeover protection).
VerifiedWasProven ==
    \A h \in Hosts : \A t \in GetDomainByHostname(h) :
        \E d \in DomainIds :
            /\ domains[d].status = "verified" /\ domains[d].host = h
            /\ <<t, domains[d].token>> \in proofs
=============================================================================
