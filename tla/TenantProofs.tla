---------------------------- MODULE TenantProofs ----------------------------
(***************************************************************************)
(* Theorems about what a tenant's administrators do: exports, custom       *)
(* domains, workspaces, and team members with their keys.  They hold for   *)
(* any number of them and of requests in flight.                           *)
(***************************************************************************)
EXTENDS DataExports, CustomDomains, Workspaces, TeamMembers, SequenceTheorems, FiniteSetTheorems,
        TLAPS

-----------------------------------------------------------------------------
(***************************************************************************)
(* Data exports and deletion proofs                                        *)
(***************************************************************************)

Hashes == Nat \cup {NoHash}
ExportRows ==
    [status : {"requested", "completed", "failed"}, type : ExportTypes, hash : Hashes]
ExportSteps == {"idle", "export", "delete", "fail", "sign", "done"}

ExportsTyped ==
    /\ exports \in [Exports -> ExportRows \cup {NoExport}]
    /\ exporting \in [Exports -> ExportSteps]
    /\ deletions \subseteq [export : Exports, hash : Hashes]
    /\ dataVersion \in Nat

\* A request past its first transaction has a row; it signs only what it has
\* completed; and once it has signed, nothing will write its row again.
ExportInv ==
    /\ ExportsTyped
    /\ \A e \in Exports :
          /\ exporting[e] # "idle" => exports[e] \in ExportRows
          /\ exporting[e] = "idle" => exports[e] = NoExport
          /\ exporting[e] = "sign" => exports[e].status = "completed"
    /\ \A p \in deletions :
          /\ exporting[p.export] = "done"
          /\ exports[p.export].status = "completed" /\ exports[p.export].hash = p.hash

\* A request writes its own row and step, and nothing that was signed.
LEMMA OwnRowOnly ==
    ASSUME ExportInv, NEW e \in Exports, NEW row \in ExportRows, NEW at \in ExportSteps \ {"idle"},
           exporting[e] # "done",
           exports' = [exports EXCEPT ![e] = row], exporting' = [exporting EXCEPT ![e] = at],
           UNCHANGED <<deletions, dataVersion>>,
           at = "sign" => row.status = "completed"
    PROVE  ExportInv'
<1>1. ExportsTyped' BY DEF ExportInv, ExportsTyped
<1>2. ASSUME NEW x \in Exports
      PROVE  /\ exporting'[x] # "idle" => exports'[x] \in ExportRows
             /\ exporting'[x] = "idle" => exports'[x] = NoExport
             /\ exporting'[x] = "sign" => exports'[x].status = "completed"
  <2>1. CASE x = e BY <2>1 DEF ExportInv, ExportsTyped
  <2>2. CASE x # e
    <3>1. exporting'[x] = exporting[x] /\ exports'[x] = exports[x]
      BY <2>2 DEF ExportInv, ExportsTyped
    <3> QED BY <3>1 DEF ExportInv
  <2> QED BY <2>1, <2>2
<1>3. ASSUME NEW p \in deletions'
      PROVE  /\ exporting'[p.export] = "done"
             /\ exports'[p.export].status = "completed" /\ exports'[p.export].hash = p.hash
  <2>1. p \in deletions /\ p.export \in Exports BY DEF ExportInv, ExportsTyped
  <2>2. p.export # e BY <2>1 DEF ExportInv
  <2>3. exporting'[p.export] = exporting[p.export] /\ exports'[p.export] = exports[p.export]
    BY <2>1, <2>2 DEF ExportInv, ExportsTyped
  <2> QED BY <2>1, <2>3 DEF ExportInv
<1> QED BY <1>1, <1>2, <1>3 DEF ExportInv

\* Every step of an export request keeps the invariant.
LEMMA RequestStepsKeepInv ==
    ASSUME ExportInv, NEW e \in Exports,
           \/ requestDataExport(e) \/ requestDeletion(e) \/ processDataExport(e)
           \/ markExportFailed(e) \/ RequestDeletionProof(e) \/ StopExport(e)
    PROVE  ExportInv'
<1>0. exports[e] \in ExportRows \cup {NoExport} /\ exporting[e] \in ExportSteps
  BY DEF ExportInv, ExportsTyped
<1>1. CASE requestDataExport(e) \/ requestDeletion(e)
  <2>1. PICK type \in ExportTypes, then \in {"export", "delete"} : RequestDataExport(e, type, then)
    BY <1>1 DEF requestDataExport, requestDeletion, RequestDeletion, ExportTypes
  <2> DEFINE row == [status |-> "requested", type |-> type, hash |-> NoHash]
  <2>2. row \in ExportRows BY DEF ExportRows, Hashes
  <2>3. /\ exports' = [exports EXCEPT ![e] = row] /\ exporting' = [exporting EXCEPT ![e] = then]
        /\ UNCHANGED <<deletions, dataVersion>> /\ exports[e] = NoExport
    BY <2>1 DEF RequestDataExport, CreateDataExport
  <2>4. NoExport \notin ExportRows
    <3>1. ASSUME NEW r \in ExportRows PROVE r.status # "none" BY DEF ExportRows
    <3> QED BY <3>1 DEF NoExport
  <2>5. exporting[e] # "done" BY <2>3, <2>4 DEF ExportInv
  <2> QED BY <2>2, <2>3, <2>5, OwnRowOnly DEF ExportSteps
<1>2. CASE processDataExport(e)
  <2>1. exports[e] \in ExportRows /\ exporting[e] # "done"
    BY <1>2 DEF processDataExport, ExportInv
  <2>2. CASE CompleteDataExport(e, dataVersion)
             /\ exporting' = [exporting EXCEPT ![e] = IF @ = "delete" THEN "sign" ELSE "done"]
    <3> DEFINE begun == [exports[e] EXCEPT !.status = "processing"]
    <3> DEFINE row == [begun EXCEPT !.status = "completed", !.hash = dataVersion]
    <3> DEFINE at == IF exporting[e] = "delete" THEN "sign" ELSE "done"
    <3>1. exports' = [exports EXCEPT ![e] = row]
      BY <2>2 DEF CompleteDataExport, SetDataExportProcessing, ExportInv, ExportsTyped
    <3>2. begun \in [status : {"processing"}, type : ExportTypes, hash : Hashes]
      BY <2>1 DEF ExportRows
    <3>3. row \in ExportRows /\ row.status = "completed"
      <4> HIDE DEF begun
      <4> QED BY <3>2 DEF ExportRows, Hashes, ExportInv, ExportsTyped
    <3>4. exporting' = [exporting EXCEPT ![e] = at] /\ at \in ExportSteps \ {"idle"}
      BY <2>2 DEF ExportSteps, ExportInv, ExportsTyped
    <3>5. UNCHANGED <<deletions, dataVersion>> BY <1>2 DEF processDataExport
    <3> HIDE DEF row, at
    <3> QED BY <2>1, <3>1, <3>3, <3>4, <3>5, OwnRowOnly
  <2>3. CASE exporting' = [exporting EXCEPT ![e] = "fail"] /\ UNCHANGED exports
    <3>1. exports' = [exports EXCEPT ![e] = exports[e]] BY <2>3 DEF ExportInv, ExportsTyped
    <3>2. UNCHANGED <<deletions, dataVersion>> BY <1>2 DEF processDataExport
    <3> QED BY <2>1, <2>3, <3>1, <3>2, OwnRowOnly DEF ExportSteps
  <2> QED BY <1>2, <2>2, <2>3 DEF processDataExport
<1>3. CASE markExportFailed(e)
  <2>1. exports[e] \in ExportRows /\ exporting[e] # "done"
    BY <1>3 DEF markExportFailed, ExportInv
  <2> DEFINE failed == [exports[e] EXCEPT !.status = "failed"]
  <2>2. failed \in ExportRows BY <2>1 DEF ExportRows
  <2>3. \/ exports' = [exports EXCEPT ![e] = failed]
        \/ exports' = [exports EXCEPT ![e] = exports[e]]
    BY <1>3 DEF markExportFailed, FailDataExport, ExportInv, ExportsTyped
  <2>4. exporting' = [exporting EXCEPT ![e] = "done"] /\ UNCHANGED <<deletions, dataVersion>>
    BY <1>3 DEF markExportFailed
  <2> HIDE DEF failed
  <2> QED BY <2>1, <2>2, <2>3, <2>4, OwnRowOnly DEF ExportSteps
<1>4. CASE RequestDeletionProof(e)
  <2> DEFINE proof == [export |-> e, hash |-> exports[e].hash]
  <2>1. /\ exporting[e] = "sign" /\ exporting' = [exporting EXCEPT ![e] = "done"]
        /\ deletions' = deletions \cup {proof} /\ UNCHANGED <<exports, dataVersion>>
    BY <1>4 DEF RequestDeletionProof, CreateDeletionProof, GetDataExportByID
  <2>2. exports[e] \in ExportRows /\ exports[e].status = "completed" BY <2>1 DEF ExportInv
  <2>3. exports[e].hash \in Hashes BY <2>2 DEF ExportRows
  <2>4. ExportsTyped' BY <2>1, <2>3 DEF ExportInv, ExportsTyped, ExportSteps
  <2>5. \A x \in Exports : exporting'[x] = IF x = e THEN "done" ELSE exporting[x]
    BY <2>1 DEF ExportInv, ExportsTyped
  <2>6. \A x \in Exports :
          /\ exporting'[x] # "idle" => exports'[x] \in ExportRows
          /\ exporting'[x] = "idle" => exports'[x] = NoExport
          /\ exporting'[x] = "sign" => exports'[x].status = "completed"
    BY <2>1, <2>2, <2>5 DEF ExportInv
  <2>7. ASSUME NEW p \in deletions'
        PROVE  /\ exporting'[p.export] = "done"
               /\ exports'[p.export].status = "completed" /\ exports'[p.export].hash = p.hash
    <3>1. CASE p = proof BY <2>1, <2>2, <2>5, <3>1
    <3>2. CASE p \in deletions
      <4>1. p.export \in Exports BY <3>2 DEF ExportInv, ExportsTyped
      <4> QED BY <2>1, <2>5, <3>2, <4>1 DEF ExportInv
    <3> QED BY <2>1, <3>1, <3>2
  <2> QED BY <2>4, <2>6, <2>7 DEF ExportInv
<1>5. CASE StopExport(e)
  <2>1. exports[e] \in ExportRows /\ exporting[e] # "done" BY <1>5 DEF StopExport, ExportInv
  <2>2. exports' = [exports EXCEPT ![e] = exports[e]] BY <1>5 DEF StopExport, ExportInv, ExportsTyped
  <2> QED BY <1>5, <2>1, <2>2, OwnRowOnly DEF StopExport, ExportSteps
<1> QED BY <1>1, <1>2, <1>3, <1>4, <1>5

\* A deletion proof names the snapshot its own export stored, however the
\* request of data_export.go was interrupted and whatever else was exported or
\* changed meanwhile.
THEOREM DeletionProofsNameTheirExport == ExportSpec => []ProofNamesExport
<1>1. ExportInit => ExportInv
  BY DEF ExportInit, ExportInv, ExportsTyped, ExportSteps
<1>2. ExportInv /\ [ExportNext]_exportVars => ExportInv'
  <2> SUFFICES ASSUME ExportInv, [ExportNext]_exportVars PROVE ExportInv'
    OBVIOUS
  <2>1. CASE ChangeTenantData
    BY <2>1 DEF ChangeTenantData, ExportInv, ExportsTyped
  <2>2. CASE UNCHANGED exportVars
    BY <2>2 DEF exportVars, exportState, ExportInv, ExportsTyped
  <2> QED BY <2>1, <2>2, RequestStepsKeepInv DEF ExportNext
<1>3. ExportInv => ProofNamesExport BY DEF ExportInv, ProofNamesExport
<1> QED BY <1>1, <1>2, <1>3, PTL DEF ExportSpec

-----------------------------------------------------------------------------
(***************************************************************************)
(* Custom domains                                                          *)
(***************************************************************************)

DomainRowSet ==
    [host : Hosts, tenant : Tenants, status : {"pending", "verified", "revoked"}, token : DomainIds]

DomainsTyped ==
    /\ domains \in [DomainIds -> DomainRowSet \cup {NoDomain}]
    /\ txt \in [Hosts -> SUBSET DomainIds]
    /\ lookups \subseteq DomainIds

Registered(d) == Audited("custom_domain.register", <<"domain", d>>)

\* The registration d was made, and its present owner, if it has one, is who
\* published its token.
OwnerPublished(d) ==
    /\ Registered(d)
    /\ domains[d] # NoDomain => <<domains[d].tenant, d>> \in proofs

\* A token names one registration for ever; wherever it turns up, in DNS, in a
\* verification that has read DNS or in a verified row, the owner published it.
DomainInv ==
    /\ DomainsTyped
    /\ \A d \in DomainIds : domains[d] # NoDomain => domains[d].token = d /\ Registered(d)
    /\ \A h \in Hosts : \A k \in txt[h] : OwnerPublished(k)
    /\ \A d \in lookups : OwnerPublished(d)
    /\ \A d \in DomainIds : domains[d].status = "verified" => OwnerPublished(d)

\* What the invariant says of one registered domain.
LEMMA DomainRow ==
    ASSUME DomainInv, NEW d \in DomainIds, domains[d] # NoDomain
    PROVE  domains[d] \in DomainRowSet /\ domains[d].token = d /\ Registered(d)
           /\ domains[d].host \in Hosts /\ domains[d].tenant \in Tenants
BY DEF DomainInv, DomainsTyped, DomainRowSet

\* A step that takes no row away from its owner and withdraws no publication.
LEMMA PublishedStays ==
    ASSUME trail \subseteq trail', proofs \subseteq proofs', NEW d, OwnerPublished(d),
           domains'[d] # NoDomain => domains[d] # NoDomain /\ domains'[d].tenant = domains[d].tenant
    PROVE  OwnerPublished(d)'
BY DEF OwnerPublished, Registered, Audited

\* A row of the table changes status, or is deleted.
LEMMA RowUpdateKeepsInv ==
    ASSUME DomainInv, NEW d \in DomainIds, domains[d] # NoDomain,
           NEW row \in DomainRowSet \cup {NoDomain},
           domains' = [domains EXCEPT ![d] = row], trail \subseteq trail',
           row # NoDomain => row.tenant = domains[d].tenant /\ row.token = domains[d].token,
           row.status = "verified" => OwnerPublished(d),
           UNCHANGED <<txt, proofs>>, lookups' \subseteq lookups
    PROVE  DomainInv'
<1>1. DomainsTyped' BY DEF DomainInv, DomainsTyped
<1>2. ASSUME NEW k \in DomainIds
      PROVE  domains'[k] # NoDomain =>
               domains[k] # NoDomain /\ domains'[k].tenant = domains[k].tenant /\ domains'[k].token = domains[k].token
  BY DEF DomainInv, DomainsTyped
<1>3. ASSUME NEW k \in DomainIds, domains'[k] # NoDomain
      PROVE  domains'[k].token = k /\ Registered(k)'
  BY <1>2, <1>3, DomainRow DEF Registered, Audited
<1>4. ASSUME NEW k \in DomainIds, OwnerPublished(k) PROVE OwnerPublished(k)'
  BY <1>2, <1>4, PublishedStays
<1>5. ASSUME NEW k \in DomainIds, domains'[k].status = "verified" PROVE OwnerPublished(k)'
  <2>1. CASE k = d
    <3>1. domains'[k] = row BY <2>1 DEF DomainInv, DomainsTyped
    <3> QED BY <1>4, <1>5, <2>1, <3>1
  <2>2. CASE k # d
    <3>1. domains'[k] = domains[k] BY <2>2 DEF DomainInv, DomainsTyped
    <3> QED BY <1>4, <1>5, <3>1 DEF DomainInv
  <2> QED BY <2>1, <2>2
<1>6. \A h \in Hosts : \A k \in txt'[h] : OwnerPublished(k)'
  <2>1. ASSUME NEW h \in Hosts, NEW k \in txt'[h] PROVE OwnerPublished(k)'
    <3>1. k \in DomainIds /\ OwnerPublished(k) BY DEF DomainInv, DomainsTyped
    <3> QED BY <1>4, <3>1
  <2> QED BY <2>1
<1>7. \A k \in lookups' : OwnerPublished(k)' BY <1>4 DEF DomainInv, DomainsTyped
<1> QED BY <1>1, <1>3, <1>5, <1>6, <1>7 DEF DomainInv

\* A new registration has a token that is nowhere yet.
LEMMA RegisterKeepsInv ==
    ASSUME DomainInv, NEW t \in Tenants, registerCustomDomain(t)
    PROVE  DomainInv'
<1>1. PICK h \in Hosts, d \in DomainIds :
          /\ ~Registered(d)
          /\ domains' = [domains EXCEPT ![d] = [host |-> h, tenant |-> t, status |-> "pending", token |-> d]]
          /\ trail' = trail \cup {<<"outbox", "custom_domain.registered", <<"domain", d>>>>,
                                  <<"audit", "custom_domain.register", <<"domain", d>>>>}
          /\ UNCHANGED <<txt, proofs, lookups>>
  BY DEF registerCustomDomain, RegisterCustomDomain, CreateCustomDomain, generateVerificationToken,
         DomainRows, AppendRows, emitOutboxTx, insertAuditTx, Registered
<1> DEFINE row == [host |-> h, tenant |-> t, status |-> "pending", token |-> d]
<1>2. row \in DomainRowSet /\ row.status = "pending" /\ row.token = d BY DEF DomainRowSet
<1>3. domains' = [domains EXCEPT ![d] = row] BY <1>1
<1> HIDE DEF row
<1>4. DomainsTyped' BY <1>1, <1>2, <1>3 DEF DomainInv, DomainsTyped
<1>5. domains'[d] = row /\ \A k \in DomainIds \ {d} : domains'[k] = domains[k]
  BY <1>3 DEF DomainInv, DomainsTyped
<1>6. trail \subseteq trail' /\ Registered(d)' BY <1>1 DEF Registered, Audited
<1>7. ASSUME NEW k \in DomainIds, OwnerPublished(k) PROVE OwnerPublished(k)'
  <2>1. k # d BY <1>1, <1>7 DEF OwnerPublished
  <2> QED BY <1>1, <1>5, <1>6, <1>7, <2>1, PublishedStays
<1>8. ASSUME NEW k \in DomainIds, domains'[k] # NoDomain PROVE domains'[k].token = k /\ Registered(k)'
  BY <1>2, <1>5, <1>6, <1>8, DomainRow DEF Registered, Audited
<1>9. ASSUME NEW k \in DomainIds, domains'[k].status = "verified" PROVE OwnerPublished(k)'
  <2>1. k # d BY <1>2, <1>5, <1>9
  <2> QED BY <1>5, <1>7, <1>9, <2>1 DEF DomainInv
<1>10. \A g \in Hosts : \A k \in txt'[g] : OwnerPublished(k)'
  <2>1. ASSUME NEW g \in Hosts, NEW k \in txt'[g] PROVE OwnerPublished(k)'
    <3>1. k \in DomainIds /\ OwnerPublished(k) BY <1>1 DEF DomainInv, DomainsTyped
    <3> QED BY <1>7, <3>1
  <2> QED BY <2>1
<1>11. \A k \in lookups' : OwnerPublished(k)' BY <1>1, <1>7 DEF DomainInv, DomainsTyped
<1> QED BY <1>4, <1>8, <1>9, <1>10, <1>11 DEF DomainInv

\* A missing row is no domain.
LEMMA NoDomainStatus == NoDomain.status = "none" /\ NoDomain \notin DomainRowSet
<1>1. NoDomain.status = "none" BY DEF NoDomain
<1>2. ASSUME NEW r \in DomainRowSet PROVE r.status # "none" BY DEF DomainRowSet
<1> QED BY <1>1, <1>2

\* Verification: the look-up in DNS and the mark that follows it.
LEMMA VerifyKeepsInv ==
    ASSUME DomainInv, NEW t \in Tenants, verifyCustomDomain(t)
    PROVE  DomainInv'
<1>1. PICK d \in DomainIds : LookupDomainToken(t, d) \/ VerifyCustomDomain(d) BY DEF verifyCustomDomain
<1>2. CASE LookupDomainToken(t, d)
  <2>1. /\ domains[d] # NoDomain /\ domains[d].token \in txt[domains[d].host]
        /\ lookups' = lookups \cup {d} /\ UNCHANGED <<domains, txt, proofs, trail>>
    BY <1>2 DEF LookupDomainToken, GetCustomDomainByID, dnsResolver
  <2>2. OwnerPublished(d) BY <2>1, DomainRow DEF DomainInv
  <2> QED BY <2>1, <2>2 DEF DomainInv, DomainsTyped, OwnerPublished, Registered, Audited
<1>3. CASE VerifyCustomDomain(d) /\ UNCHANGED <<domains, trail>>
  <2>1. lookups' \subseteq lookups /\ UNCHANGED <<domains, txt, proofs, trail>>
    BY <1>3 DEF VerifyCustomDomain
  <2> QED BY <2>1 DEF DomainInv, DomainsTyped, OwnerPublished, Registered, Audited
<1>4. CASE VerifyCustomDomain(d) /\ VerifyCustomDomainRow(d) /\ trail \subseteq trail'
  <2> DEFINE row == [domains[d] EXCEPT !.status = "verified"]
  <2>1. /\ d \in lookups /\ lookups' \subseteq lookups /\ domains[d].status = "pending"
        /\ UNCHANGED <<txt, proofs>> /\ domains' = [domains EXCEPT ![d] = row]
    BY <1>4 DEF VerifyCustomDomain, VerifyCustomDomainRow, SetDomainStatus, DomainInv, DomainsTyped
  <2>2. domains[d] # NoDomain BY <2>1, NoDomainStatus
  <2>3. row \in DomainRowSet /\ row.tenant = domains[d].tenant /\ row.token = domains[d].token
    BY <2>2, DomainRow DEF DomainRowSet
  <2>4. OwnerPublished(d) BY <2>1 DEF DomainInv
  <2> HIDE DEF row
  <2> QED BY <1>4, <2>1, <2>2, <2>3, <2>4, RowUpdateKeepsInv
<1> QED BY <1>1, <1>2, <1>3, <1>4 DEF VerifyCustomDomain, DomainRows, AppendRows

\* Revoking and deleting a domain.
LEMMA RevokeKeepsInv ==
    ASSUME DomainInv, NEW t \in Tenants, revokeCustomDomain(t) \/ deleteCustomDomain(t)
    PROVE  DomainInv'
<1>1. CASE revokeCustomDomain(t)
  <2>1. PICK d \in DomainIds : RevokeCustomDomain(t, d) BY <1>1 DEF revokeCustomDomain
  <2> DEFINE row == [domains[d] EXCEPT !.status = "revoked"]
  <2>2. /\ domains[d] # NoDomain /\ domains' = [domains EXCEPT ![d] = row] /\ trail \subseteq trail'
        /\ UNCHANGED <<txt, proofs, lookups>>
    BY <2>1 DEF RevokeCustomDomain, GetCustomDomainByID, RevokeCustomDomainRow, SetDomainStatus,
                DomainRows, AppendRows, DomainInv, DomainsTyped
  <2>3. row \in DomainRowSet /\ row.tenant = domains[d].tenant /\ row.token = domains[d].token
        /\ row.status = "revoked"
    BY <2>2, DomainRow DEF DomainRowSet
  <2> HIDE DEF row
  <2> QED BY <2>2, <2>3, RowUpdateKeepsInv
<1>2. CASE deleteCustomDomain(t)
  <2>1. PICK d \in DomainIds : DeleteCustomDomain(t, d) BY <1>2 DEF deleteCustomDomain
  <2>2. /\ domains[d] # NoDomain /\ domains' = [domains EXCEPT ![d] = NoDomain] /\ trail \subseteq trail'
        /\ UNCHANGED <<txt, proofs, lookups>>
    BY <2>1 DEF DeleteCustomDomain, GetCustomDomainByID, DeleteCustomDomainRow, DomainRows, AppendRows
  <2> QED BY <2>2, NoDomainStatus, RowUpdateKeepsInv
<1> QED BY <1>1, <1>2

\* What owners do with the TXT records of their hosts.
LEMMA DnsKeepsInv ==
    ASSUME DomainInv, (\E t \in Tenants : PublishToken(t)) \/ (\E h \in Hosts : WithdrawTokens(h))
    PROVE  DomainInv'
<1>1. CASE \E t \in Tenants : PublishToken(t)
  <2>1. PICK t \in Tenants, d \in DomainIds :
            /\ domains[d] # NoDomain /\ domains[d].tenant = t
            /\ txt' = [txt EXCEPT ![domains[d].host] = @ \cup {domains[d].token}]
            /\ proofs' = proofs \cup {<<t, domains[d].token>>}
            /\ UNCHANGED <<domains, lookups, trail>>
    BY <1>1 DEF PublishToken, GetCustomDomainByID, checkTenantOwnership
  <2>2. domains[d].token = d /\ Registered(d) /\ domains[d].host \in Hosts BY <2>1, DomainRow
  <2>3. OwnerPublished(d)' BY <2>1, <2>2 DEF OwnerPublished, Registered, Audited
  <2>4. ASSUME NEW k, OwnerPublished(k) PROVE OwnerPublished(k)'
    BY <2>1, <2>4, PublishedStays
  <2>5. DomainsTyped' BY <2>1, <2>2 DEF DomainInv, DomainsTyped
  <2>6. ASSUME NEW h \in Hosts, NEW k \in txt'[h] PROVE OwnerPublished(k)'
    <3>1. k = d \/ k \in txt[h] BY <2>1, <2>2 DEF DomainInv, DomainsTyped
    <3> QED BY <2>3, <2>4, <3>1 DEF DomainInv
  <2>7. \A k \in DomainIds : domains'[k] # NoDomain => domains'[k].token = k /\ Registered(k)'
    BY <2>1 DEF DomainInv, Registered, Audited
  <2>8. \A k \in DomainIds : domains'[k].status = "verified" => OwnerPublished(k)'
    BY <2>1, <2>4 DEF DomainInv
  <2>9. \A k \in lookups' : OwnerPublished(k)' BY <2>1, <2>4 DEF DomainInv
  <2> QED BY <2>5, <2>6, <2>7, <2>8, <2>9 DEF DomainInv
<1>2. CASE \E h \in Hosts : WithdrawTokens(h)
  <2>1. PICK h \in Hosts : txt' = [txt EXCEPT ![h] = {}] /\ UNCHANGED <<domains, proofs, lookups, trail>>
    BY <1>2 DEF WithdrawTokens
  <2>2. txt' \in [Hosts -> SUBSET DomainIds] /\ \A g \in Hosts : txt'[g] \subseteq txt[g]
    BY <2>1 DEF DomainInv, DomainsTyped
  <2> QED BY <2>1, <2>2 DEF DomainInv, DomainsTyped, OwnerPublished, Registered, Audited
<1> QED BY <1>1, <1>2

\* A host routes to a provider only if that provider published the token of its
\* own registration: nothing an earlier owner of the host left in DNS, and no
\* verification that read DNS before a row was revoked or deleted, verifies for
\* the next owner (custom_domains.go).
THEOREM DomainsAreProven == DomainSpec => []VerifiedWasProven
<1>1. DomainInit => DomainInv
  <2> SUFFICES ASSUME DomainInit PROVE DomainInv
    OBVIOUS
  <2>1. \A d \in DomainIds : domains[d] = NoDomain /\ domains[d].status = "none"
    BY NoDomainStatus DEF DomainInit
  <2> QED BY <2>1 DEF DomainInit, DomainInv, DomainsTyped
<1>2. DomainInv /\ [DomainNext]_domainVars => DomainInv'
  <2> SUFFICES ASSUME DomainInv, [DomainNext]_domainVars PROVE DomainInv'
    OBVIOUS
  <2>1. CASE UNCHANGED domainVars
    BY <2>1 DEF domainVars, domainState, DomainInv, DomainsTyped, OwnerPublished, Registered, Audited
  <2>2. CASE DomainNext
    BY <2>2, RegisterKeepsInv, VerifyKeepsInv, RevokeKeepsInv, DnsKeepsInv DEF DomainNext
  <2> QED BY <2>1, <2>2
<1>3. DomainInv => VerifiedWasProven
  <2> SUFFICES ASSUME DomainInv, NEW h \in Hosts, NEW t \in GetDomainByHostname(h)
               PROVE  \E d \in DomainIds :
                          /\ domains[d].status = "verified" /\ domains[d].host = h
                          /\ <<t, domains[d].token>> \in proofs
    BY DEF VerifiedWasProven
  <2>1. PICK d \in DomainIds : domains[d].status = "verified" /\ domains[d].host = h /\ t = domains[d].tenant
    BY DEF GetDomainByHostname, GetCustomDomainByHostname
  <2>2. domains[d] # NoDomain BY <2>1, NoDomainStatus
  <2>3. domains[d].token = d /\ <<domains[d].tenant, d>> \in proofs
    BY <2>1, <2>2 DEF DomainInv, OwnerPublished
  <2> QED BY <2>1, <2>3
<1> QED BY <1>1, <1>2, <1>3, PTL DEF DomainSpec

-----------------------------------------------------------------------------
(***************************************************************************)
(* Workspaces                                                              *)
(***************************************************************************)

Slugs == ({slugForWorkspace[u] : u \in Subs} \cup NewSlugs) \X Nat
WorkspaceRows ==
    [slug : Slugs, provider : Slugs \cup {NoProvider}, members : [Subs -> PlatformRoles \cup {NotMember}]]

\* An open transaction names a workspace and a user; one that takes an
\* administrator's role away has counted another administrator.
WorkspaceTxSound(t) ==
    /\ t.op \in {"idle", "signup", "rename", "invite", "role", "remove"}
    /\ t.op \in {"rename", "invite", "role", "remove"} => t.ws \in DOMAIN workspaces
    /\ t.op = "rename" => t.slug \in Slugs
    /\ t.op \in {"invite", "role", "remove"} => t.user \in Subs
    /\ t.op \in {"invite", "role"} => t.role \in PlatformRoles
    /\ t.op = "role" /\ t.read = "provider_admin" /\ t.role # "provider_admin" => t.counted > 1
    /\ t.op = "remove" /\ t.read = "provider_admin" => t.counted > 1

WorkspaceInv ==
    /\ workspaces \in Seq(WorkspaceRows)
    /\ DOMAIN wtx = Subs
    /\ \A u \in Subs : WorkspaceTxSound(wtx[u])

\* A user without an open change has read nothing that could be stale.
LEMMA NoTransactionSound == WorkspaceTxSound(NoTransaction) /\ NoTransaction.op = "idle"
BY DEF WorkspaceTxSound, NoTransaction

\* Workspaces are never deleted: an open transaction keeps being sound.
LEMMA WorkspacesOnlyGrow ==
    ASSUME WorkspaceInv, NEW u \in Subs, NEW t, WorkspaceTxSound(t),
           wtx' = wtx \/ wtx' = [wtx EXCEPT ![u] = t],
           workspaces' \in Seq(WorkspaceRows), DOMAIN workspaces \subseteq DOMAIN workspaces'
    PROVE  WorkspaceInv'
<1>1. DOMAIN wtx' = Subs /\ \A v \in Subs : wtx'[v] \in {t, wtx[v]} BY DEF WorkspaceInv
<1>2. ASSUME NEW v \in Subs PROVE WorkspaceTxSound(wtx[v])'
  <2> DEFINE s == wtx'[v]
  <2>1. WorkspaceTxSound(s) BY <1>1 DEF WorkspaceInv
  <2> HIDE DEF s
  <2>2. /\ s.op \in {"idle", "signup", "rename", "invite", "role", "remove"}
        /\ s.op \in {"rename", "invite", "role", "remove"} => s.ws \in DOMAIN workspaces'
        /\ s.op = "rename" => s.slug \in Slugs
        /\ s.op \in {"invite", "role", "remove"} => s.user \in Subs
        /\ s.op \in {"invite", "role"} => s.role \in PlatformRoles
        /\ s.op = "role" /\ s.read = "provider_admin" /\ s.role # "provider_admin" => s.counted > 1
        /\ s.op = "remove" /\ s.read = "provider_admin" => s.counted > 1
    BY <2>1 DEF WorkspaceTxSound
  <2> QED BY <2>2 DEF s, WorkspaceTxSound
<1> QED BY <1>1, <1>2 DEF WorkspaceInv

\* What the invariant says of one workspace.
LEMMA WorkspaceRow ==
    ASSUME WorkspaceInv, NEW w \in DOMAIN workspaces
    PROVE  /\ workspaces[w] \in WorkspaceRows /\ w \in 1..Len(workspaces)
           /\ workspaces[w].members \in [Subs -> PlatformRoles \cup {NotMember}]
           /\ workspaces[w].slug \in Slugs
<1>1. w \in 1..Len(workspaces) /\ workspaces[w] \in WorkspaceRows
  BY LenProperties, ElementOfSeq DEF WorkspaceInv
<1> QED BY <1>1 DEF WorkspaceRows

\* One row of the table is rewritten.
LEMMA WorkspaceRowWritten ==
    ASSUME WorkspaceInv, NEW w \in DOMAIN workspaces, NEW row \in WorkspaceRows,
           workspaces' = [workspaces EXCEPT ![w] = row]
    PROVE  /\ workspaces' \in Seq(WorkspaceRows) /\ DOMAIN workspaces' = DOMAIN workspaces
           /\ \A v \in DOMAIN workspaces : workspaces'[v] = IF v = w THEN row ELSE workspaces[v]
<1>1. workspaces \in Seq(WorkspaceRows) /\ w \in 1..Len(workspaces) BY WorkspaceRow DEF WorkspaceInv
<1>2. workspaces' \in Seq(WorkspaceRows) BY <1>1, ExceptSeq
<1> QED BY <1>2

\* What the write of one membership does.
LEMMA WorkspaceMemberWritten ==
    ASSUME WorkspaceInv, NEW w \in DOMAIN workspaces, NEW u \in Subs,
           NEW role \in PlatformRoles \cup {NotMember}, SetMember(w, u, role)
    PROVE  /\ workspaces' \in Seq(WorkspaceRows) /\ DOMAIN workspaces' = DOMAIN workspaces
           /\ \A v \in DOMAIN workspaces \ {w} : workspaces'[v] = workspaces[v]
           /\ \A x \in Subs : workspaces'[w].members[x] = IF x = u THEN role ELSE workspaces[w].members[x]
<1> DEFINE row == [workspaces[w] EXCEPT !.members[u] = role]
<1>1. workspaces[w] \in WorkspaceRows BY WorkspaceRow
<1>2. row \in WorkspaceRows
      /\ \A x \in Subs : row.members[x] = IF x = u THEN role ELSE workspaces[w].members[x]
  BY <1>1 DEF WorkspaceRows
<1>3. workspaces' = [workspaces EXCEPT ![w] = row] BY DEF SetMember
<1> HIDE DEF row
<1> QED BY <1>2, <1>3, WorkspaceRowWritten

\* The requests of workspace.go read, check and begin.
LEMMA BeginKeepsWorkspaces ==
    ASSUME WorkspaceInv, NEW u \in Subs, NEW t, BeginWorkspaceTx(u, t), WorkspaceTxSound(t)
    PROVE  WorkspaceInv'
<1>1. wtx' = [wtx EXCEPT ![u] = t] /\ workspaces' = workspaces BY DEF BeginWorkspaceTx
<1>2. workspaces' \in Seq(WorkspaceRows) /\ DOMAIN workspaces \subseteq DOMAIN workspaces' BY <1>1 DEF WorkspaceInv
<1> QED BY <1>1, <1>2, WorkspacesOnlyGrow

\* A request that reads and checks changes no workspace.
LEMMA WorkspaceRequestsKeepInv ==
    ASSUME WorkspaceInv, NEW u \in Subs,
           \/ updateWorkspace(u) \/ inviteWorkspaceMember(u)
           \/ updateWorkspaceMemberRole(u) \/ removeWorkspaceMember(u)
    PROVE  WorkspaceInv'
<1>1. CASE updateWorkspace(u)
  <2>1. PICK w \in DOMAIN workspaces, s \in NewSlugs :
            BeginWorkspaceTx(u, [op |-> "rename", ws |-> w, slug |-> Plain(s)])
    BY <1>1 DEF updateWorkspace, UpdateWorkspace
  <2>2. WorkspaceTxSound([op |-> "rename", ws |-> w, slug |-> Plain(s)])
    BY DEF WorkspaceTxSound, Slugs, Plain
  <2> QED BY <2>1, <2>2, BeginKeepsWorkspaces
<1>2. CASE inviteWorkspaceMember(u)
  <2>1. PICK w \in DOMAIN workspaces, v \in Subs, r \in PlatformRoles :
            BeginWorkspaceTx(u, [op |-> "invite", ws |-> w, user |-> v, role |-> r])
    BY <1>2 DEF inviteWorkspaceMember, InviteWorkspaceMember
  <2>2. WorkspaceTxSound([op |-> "invite", ws |-> w, user |-> v, role |-> r]) BY DEF WorkspaceTxSound
  <2> QED BY <2>1, <2>2, BeginKeepsWorkspaces
<1>3. CASE updateWorkspaceMemberRole(u)
  <2>1. PICK w \in DOMAIN workspaces, v \in Subs, r \in PlatformRoles : UpdateWorkspaceMemberRole(u, w, v, r)
    BY <1>3 DEF updateWorkspaceMemberRole
  <2> DEFINE t == [op |-> "role", ws |-> w, user |-> v, role |-> r,
                   counted |-> CountWorkspaceAdmins(w), read |-> GetWorkspaceMember(w, v)]
  <2>2. BeginWorkspaceTx(u, t) BY <2>1 DEF UpdateWorkspaceMemberRole
  <2>3. GetWorkspaceMember(w, v) = "provider_admin" /\ r # "provider_admin" => CountWorkspaceAdmins(w) > 1
    BY <2>1 DEF UpdateWorkspaceMemberRole, guardLastWorkspaceAdmin
  <2>4. WorkspaceTxSound(t) BY <2>3 DEF WorkspaceTxSound
  <2> HIDE DEF t
  <2> QED BY <2>2, <2>4, BeginKeepsWorkspaces
<1>4. CASE removeWorkspaceMember(u)
  <2>1. PICK w \in DOMAIN workspaces, v \in Subs : RemoveWorkspaceMember(u, w, v) BY <1>4 DEF removeWorkspaceMember
  <2> DEFINE t == [op |-> "remove", ws |-> w, user |-> v,
                   counted |-> CountWorkspaceAdmins(w), read |-> GetWorkspaceMember(w, v)]
  <2>2. BeginWorkspaceTx(u, t) BY <2>1 DEF RemoveWorkspaceMember
  <2>3. GetWorkspaceMember(w, v) = "provider_admin" => CountWorkspaceAdmins(w) > 1
    BY <2>1 DEF RemoveWorkspaceMember, guardLastWorkspaceAdmin
  <2>4. WorkspaceTxSound(t) BY <2>3 DEF WorkspaceTxSound
  <2> HIDE DEF t
  <2> QED BY <2>2, <2>4, BeginKeepsWorkspaces
<1> QED BY <1>1, <1>2, <1>3, <1>4

\* Signing up, and giving an older workspace its provider; no membership changes.
LEMMA SignupEffect ==
    ASSUME WorkspaceInv, NEW u \in Subs, signup(u) \/ ProvisionWorkspaceCommit(u) \/ UpdateWorkspaceCommit(u)
    PROVE  /\ WorkspaceInv'
           /\ \A w \in DOMAIN workspaces : workspaces'[w].members = workspaces[w].members
<1>0. /\ WorkspaceTxSound(wtx[u]) /\ Len(workspaces) \in Nat
  BY LenProperties DEF WorkspaceInv
<1>1. CASE signup(u) /\ workspaces' = workspaces
  <2>1. CASE ListWorkspacesByUser(u) = {} /\ BeginWorkspaceTx(u, [op |-> "signup"])
    <3>1. WorkspaceTxSound([op |-> "signup"]) BY DEF WorkspaceTxSound
    <3> QED BY <1>1, <2>1, <3>1, BeginKeepsWorkspaces
  <2>2. CASE wtx' = wtx
    BY <1>0, <1>1, <2>2, WorkspacesOnlyGrow DEF WorkspaceInv
  <2> QED BY <1>1, <2>1, <2>2 DEF signup, ProvisionWorkspace
<1>2. CASE signup(u) /\ workspaces' # workspaces
  <2>1. ListWorkspacesByUser(u) # {} /\ wtx' = wtx
    BY <1>2 DEF signup, ProvisionWorkspace, BeginWorkspaceTx
  <2> DEFINE w == CHOOSE v \in ListWorkspacesByUser(u) : \A v2 \in ListWorkspacesByUser(u) : v <= v2
             row == [workspaces[w] EXCEPT !.provider = workspaces[w].slug]
  <2>2. workspaces' = [workspaces EXCEPT ![w] = row] BY <1>2 DEF signup, ProvisionWorkspace, BeginWorkspaceTx
  <2> HIDE DEF w
  <2>3. w \in DOMAIN workspaces
    <3> SUFFICES ASSUME w \notin DOMAIN workspaces PROVE workspaces' = workspaces
      BY <1>2
    <3>1. workspaces \in [1..Len(workspaces) -> WorkspaceRows] BY LenProperties DEF WorkspaceInv
    <3> QED BY <2>2, <3>1
  <2>4. row \in WorkspaceRows /\ row.members = workspaces[w].members
    BY <2>3, WorkspaceRow DEF WorkspaceRows
  <2> HIDE DEF row
  <2>5. /\ workspaces' \in Seq(WorkspaceRows) /\ DOMAIN workspaces' = DOMAIN workspaces
        /\ \A v \in DOMAIN workspaces : workspaces'[v] = IF v = w THEN row ELSE workspaces[v]
    BY <2>2, <2>3, <2>4, WorkspaceRowWritten
  <2>6. WorkspaceInv' BY <1>0, <2>1, <2>5, WorkspacesOnlyGrow
  <2> QED BY <2>4, <2>5, <2>6
<1>3. CASE ProvisionWorkspaceCommit(u) \/ UpdateWorkspaceCommit(u)
  <2>1. wtx' = [wtx EXCEPT ![u] = NoTransaction]
    BY <1>3 DEF ProvisionWorkspaceCommit, UpdateWorkspaceCommit, EndWorkspaceTx
  <2>2. CASE workspaces' = workspaces
    BY <2>1, <2>2, NoTransactionSound, WorkspacesOnlyGrow DEF WorkspaceInv
  <2>3. CASE ProvisionWorkspaceCommit(u) /\ workspaces' # workspaces
    <3> DEFINE slug == createWorkspaceWithFreeSlug(u)
               row == [slug |-> slug, provider |-> slug,
                       members |-> [v \in Subs |-> IF v = u THEN "provider_admin" ELSE NotMember]]
    <3>1. workspaces' = Append(workspaces, row) BY <2>3 DEF ProvisionWorkspaceCommit
    <3>2. slug \in Slugs BY <1>0 DEF createWorkspaceWithFreeSlug, Slugs, Plain
    <3> HIDE DEF slug
    <3>3. row \in WorkspaceRows BY <3>2 DEF WorkspaceRows, PlatformRoles
    <3> HIDE DEF row
    <3>4. /\ workspaces' \in Seq(WorkspaceRows) /\ Len(workspaces') = Len(workspaces) + 1
          /\ \A w \in 1..Len(workspaces) : workspaces'[w] = workspaces[w]
      BY <3>1, <3>3, AppendProperties DEF WorkspaceInv
    <3>5. DOMAIN workspaces = 1..Len(workspaces) /\ DOMAIN workspaces' = 1..Len(workspaces')
      BY <3>4, LenProperties DEF WorkspaceInv
    <3>6. DOMAIN workspaces \subseteq DOMAIN workspaces' BY <1>0, <3>4, <3>5
    <3>7. WorkspaceInv' BY <2>1, <3>4, <3>6, NoTransactionSound, WorkspacesOnlyGrow
    <3> QED BY <3>4, <3>5, <3>7
  <2>4. CASE UpdateWorkspaceCommit(u) /\ workspaces' # workspaces
    <3> DEFINE w == wtx[u].ws
               row == [workspaces[w] EXCEPT !.slug = wtx[u].slug]
    <3>1. wtx[u].op = "rename" /\ workspaces' = [workspaces EXCEPT ![w] = row]
      BY <2>4 DEF UpdateWorkspaceCommit, EndWorkspaceTx
    <3>2. w \in DOMAIN workspaces /\ wtx[u].slug \in Slugs BY <1>0, <3>1 DEF WorkspaceTxSound
    <3>3. row \in WorkspaceRows /\ row.members = workspaces[w].members
      BY <3>2, WorkspaceRow DEF WorkspaceRows
    <3> HIDE DEF row, w
    <3>4. /\ workspaces' \in Seq(WorkspaceRows) /\ DOMAIN workspaces' = DOMAIN workspaces
          /\ \A v \in DOMAIN workspaces : workspaces'[v] = IF v = w THEN row ELSE workspaces[v]
      BY <3>1, <3>2, <3>3, WorkspaceRowWritten
    <3>5. WorkspaceInv' BY <2>1, <3>4, NoTransactionSound, WorkspacesOnlyGrow
    <3> QED BY <3>3, <3>4, <3>5
  <2> QED BY <1>3, <2>2, <2>3, <2>4
<1> QED BY <1>1, <1>2, <1>3

\* The three commits that write a membership.
MemberCommit(u, role) ==
    /\ wtx[u].op \in {"invite", "role", "remove"} /\ wtx[u].ws \in DOMAIN workspaces /\ wtx[u].user \in Subs
    /\ wtx[u].op \in {"invite", "role"} => role = wtx[u].role
    /\ wtx[u].op = "remove" => role = NotMember
    /\ wtx' = [wtx EXCEPT ![u] = NoTransaction]
    /\ SetMember(wtx[u].ws, wtx[u].user, role)

\* A commit changes at most the role of one member.
LEMMA MembershipCommitEffect ==
    ASSUME WorkspaceInv, NEW u \in Subs,
           \/ InviteWorkspaceMemberCommit(u) \/ UpdateWorkspaceMemberRoleCommit(u)
           \/ RemoveWorkspaceMemberCommit(u)
    PROVE  /\ WorkspaceInv'
           /\ \/ workspaces' = workspaces
              \/ \E role \in PlatformRoles \cup {NotMember} : MemberCommit(u, role)
<1>0. WorkspaceTxSound(wtx[u]) BY DEF WorkspaceInv
<1>1. /\ wtx[u].op \in {"invite", "role", "remove"} /\ wtx' = [wtx EXCEPT ![u] = NoTransaction]
  BY DEF InviteWorkspaceMemberCommit, UpdateWorkspaceMemberRoleCommit, RemoveWorkspaceMemberCommit, EndWorkspaceTx
<1>2. wtx[u].ws \in DOMAIN workspaces /\ wtx[u].user \in Subs BY <1>0, <1>1 DEF WorkspaceTxSound
<1>3. workspaces' = workspaces \/ \E role \in PlatformRoles \cup {NotMember} : MemberCommit(u, role)
  <2>1. CASE InviteWorkspaceMemberCommit(u) \/ UpdateWorkspaceMemberRoleCommit(u)
    <3>1. /\ wtx[u].op \in {"invite", "role"}
          /\ workspaces' = workspaces \/ SetMember(wtx[u].ws, wtx[u].user, wtx[u].role)
      BY <2>1 DEF InviteWorkspaceMemberCommit, UpdateWorkspaceMemberRoleCommit, UpsertWorkspaceMember,
                  UpdateMemberRoleRow, EndWorkspaceTx
    <3>2. wtx[u].role \in PlatformRoles BY <1>0, <3>1 DEF WorkspaceTxSound
    <3> QED BY <1>1, <1>2, <3>1, <3>2 DEF MemberCommit
  <2>2. CASE RemoveWorkspaceMemberCommit(u)
    <3>1. wtx[u].op = "remove" /\ SetMember(wtx[u].ws, wtx[u].user, NotMember)
      BY <2>2 DEF RemoveWorkspaceMemberCommit, DeleteMemberRow, EndWorkspaceTx
    <3> QED BY <1>1, <1>2, <3>1 DEF MemberCommit
  <2> QED BY <2>1, <2>2
<1>4. CASE workspaces' = workspaces
  BY <1>1, <1>4, NoTransactionSound, WorkspacesOnlyGrow DEF WorkspaceInv
<1>5. CASE \E role \in PlatformRoles \cup {NotMember} : MemberCommit(u, role)
  <2>1. PICK role \in PlatformRoles \cup {NotMember} : MemberCommit(u, role) BY <1>5
  <2>2. workspaces' \in Seq(WorkspaceRows) /\ DOMAIN workspaces' = DOMAIN workspaces
    BY <1>2, <2>1, WorkspaceMemberWritten DEF MemberCommit
  <2> QED BY <1>1, <2>1, <2>2, NoTransactionSound, WorkspacesOnlyGrow
<1> QED BY <1>3, <1>4, <1>5

\* The invariant of workspaces.
LEMMA WorkspaceInvariant == WorkspaceSpec => []WorkspaceInv
<1>1. WorkspaceInit => WorkspaceInv
  <2> SUFFICES ASSUME WorkspaceInit PROVE WorkspaceInv
    OBVIOUS
  <2>1. CASE workspaces = <<>>
    BY <2>1, NoTransactionSound, EmptySeq DEF WorkspaceInit, WorkspaceInv
  <2>2. CASE workspaces # <<>>
    <3>1. PICK u \in Subs : workspaces =
             <<[slug |-> Plain(slugForWorkspace[u]), provider |-> NoProvider,
                members |-> [v \in Subs |-> IF v = u THEN "provider_admin" ELSE NotMember]]>>
      BY <2>2 DEF WorkspaceInit
    <3> DEFINE row == [slug |-> Plain(slugForWorkspace[u]), provider |-> NoProvider,
                       members |-> [v \in Subs |-> IF v = u THEN "provider_admin" ELSE NotMember]]
    <3>2. row \in WorkspaceRows BY DEF WorkspaceRows, Slugs, Plain, PlatformRoles
    <3>3. workspaces = <<row>> BY <3>1
    <3> HIDE DEF row
    <3>4. workspaces \in Seq(WorkspaceRows) BY <3>2, <3>3
    <3> QED BY <3>4, NoTransactionSound DEF WorkspaceInit, WorkspaceInv
  <2> QED BY <2>1, <2>2
<1>2. WorkspaceInv /\ [WorkspaceNext]_workspaceState => WorkspaceInv'
  <2> SUFFICES ASSUME WorkspaceInv, [WorkspaceNext]_workspaceState PROVE WorkspaceInv'
    OBVIOUS
  <2>1. CASE UNCHANGED workspaceState BY <2>1 DEF workspaceState, WorkspaceInv, WorkspaceTxSound
  <2>2. CASE WorkspaceNext
    BY <2>2, WorkspaceRequestsKeepInv, SignupEffect, MembershipCommitEffect DEF WorkspaceNext
  <2> QED BY <2>1, <2>2
<1> QED BY <1>1, <1>2, PTL DEF WorkspaceSpec

\* Taking one administrator away leaves one fewer.
LEMMA AdminCount ==
    ASSUME WorkspaceInv, NEW w \in DOMAIN workspaces, NEW u \in Subs,
           NEW role \in PlatformRoles \cup {NotMember}, SetMember(w, u, role),
           GetWorkspaceMember(w, u) = "provider_admin" /\ role # "provider_admin" => CountWorkspaceAdmins(w) > 1,
           CountWorkspaceAdmins(w) > 0
    PROVE  CountWorkspaceAdmins(w)' # 0
<1> DEFINE A == {v \in Subs : workspaces[w].members[v] = "provider_admin"}
           B == {v \in Subs : workspaces'[w].members[v] = "provider_admin"}
<1>1. IsFiniteSet(A) /\ IsFiniteSet(B) BY WorkspaceAssumption, FS_Subset
<1>2. \A x \in Subs : workspaces'[w].members[x] = IF x = u THEN role ELSE workspaces[w].members[x]
  BY WorkspaceMemberWritten
<1>3. B = IF role = "provider_admin" THEN A \cup {u} ELSE A \ {u} BY <1>2
<1>4. u \in A <=> GetWorkspaceMember(w, u) = "provider_admin" BY DEF GetWorkspaceMember
<1>5. CountWorkspaceAdmins(w) = Cardinality(A) /\ CountWorkspaceAdmins(w)' = Cardinality(B)
  BY DEF CountWorkspaceAdmins, GetWorkspaceMember
<1> HIDE DEF A, B
<1>6. Cardinality(A) \in Nat BY <1>1, FS_CardinalityType
<1>7. CASE role = "provider_admin"
  BY <1>1, <1>3, <1>5, <1>6, <1>7, FS_AddElement
<1>8. CASE role # "provider_admin"
  BY <1>1, <1>3, <1>4, <1>5, <1>6, <1>8, FS_RemoveElement
<1> QED BY <1>7, <1>8

\* A workspace loses its last administrator only through an invitation, or a
\* change whose target or whose count of administrators was stale when it
\* committed: the guard of workspace.go holds wherever its reads still do.
THEOREM LastAdminGuarded == WorkspaceSpec => LastAdminLostOnlyByRace
<1> DEFINE Raced(w) ==
         \E u \in Subs :
            /\ wtx[u] # wtx'[u]
            /\ \/ wtx[u].op = "invite"
               \/ /\ wtx[u].op \in {"role", "remove"}
                  /\ \/ wtx[u].counted # CountWorkspaceAdmins(w)
                     \/ wtx[u].read # GetWorkspaceMember(w, wtx[u].user)
<1>1. ASSUME WorkspaceInv, WorkspaceNext, NEW w \in DOMAIN workspaces,
             CountWorkspaceAdmins(w) > 0, CountWorkspaceAdmins(w)' = 0
      PROVE  Raced(w)
  <2>0. workspaces'[w].members # workspaces[w].members
    <3> SUFFICES ASSUME workspaces'[w].members = workspaces[w].members PROVE FALSE
      OBVIOUS
    <3>1. CountWorkspaceAdmins(w)' = CountWorkspaceAdmins(w) BY DEF CountWorkspaceAdmins, GetWorkspaceMember
    <3> QED BY <1>1, <3>1
  <2>1. PICK u \in Subs, role \in PlatformRoles \cup {NotMember} : MemberCommit(u, role)
    <3>1. ASSUME NEW u \in Subs, \/ updateWorkspace(u) \/ inviteWorkspaceMember(u)
                                 \/ updateWorkspaceMemberRole(u) \/ removeWorkspaceMember(u)
          PROVE  workspaces' = workspaces
      BY <3>1 DEF updateWorkspace, UpdateWorkspace, inviteWorkspaceMember, InviteWorkspaceMember,
                  updateWorkspaceMemberRole, UpdateWorkspaceMemberRole, removeWorkspaceMember,
                  RemoveWorkspaceMember, BeginWorkspaceTx
    <3> QED BY <1>1, <2>0, <3>1, SignupEffect, MembershipCommitEffect DEF WorkspaceNext
  <2>2. wtx[u] # wtx'[u]
    <3>1. wtx'[u] = NoTransaction BY <1>1, <2>1 DEF MemberCommit, WorkspaceInv
    <3> QED BY <2>1, <3>1, NoTransactionSound DEF MemberCommit
  <2>3. w = wtx[u].ws
    <3> SUFFICES ASSUME w # wtx[u].ws PROVE FALSE
      OBVIOUS
    <3>1. workspaces'[w] = workspaces[w] BY <1>1, <2>1, WorkspaceMemberWritten DEF MemberCommit
    <3> QED BY <2>0, <3>1
  <2>4. SUFFICES ASSUME wtx[u].op \in {"role", "remove"}, wtx[u].counted = CountWorkspaceAdmins(w),
                        wtx[u].read = GetWorkspaceMember(w, wtx[u].user)
                 PROVE  FALSE
    BY <2>1, <2>2 DEF MemberCommit
  <2>5. GetWorkspaceMember(w, wtx[u].user) = "provider_admin" /\ role # "provider_admin"
          => CountWorkspaceAdmins(w) > 1
    BY <1>1, <2>1, <2>4 DEF MemberCommit, WorkspaceInv, WorkspaceTxSound
  <2> QED BY <1>1, <2>1, <2>3, <2>5, AdminCount DEF MemberCommit
<1>2. WorkspaceInv /\ [WorkspaceNext]_workspaceState =>
        [\A w \in DOMAIN workspaces :
            CountWorkspaceAdmins(w) > 0 /\ CountWorkspaceAdmins(w)' = 0 => Raced(w)]_workspaceState
  BY <1>1
<1> QED BY <1>2, WorkspaceInvariant, PTL DEF WorkspaceSpec, LastAdminLostOnlyByRace

-----------------------------------------------------------------------------
(***************************************************************************)
(* Team members and their keys                                             *)
(***************************************************************************)

KeyRows == [scopes : SUBSET AllScopes, revoked : BOOLEAN, expired : BOOLEAN]
MemberRows == [status : {"active", "suspended", "removed"}, role : TeamRoles, cred : Nat]
AuthRows == [op : {"authenticated"}, scopes : SUBSET AllScopes]
ChangeRows == [op : {"revoke", "rotate"}, cred : Nat, scopes : SUBSET AllScopes]
TeamRows == [op : TeamOps, member : Emails, row : MemberRows, role : TeamRoles \cup {"null"}]

TeamTyped ==
    /\ creds \in Seq(KeyRows)
    /\ members \in [Emails -> MemberRows \cup {NoMember}]
    /\ atx \in [Callers -> {NoRequestYet} \cup AuthRows \cup ChangeRows \cup TeamRows]

\* LinkedKeyFollows for a row and its key.
KeyFollows(row, key) ==
    key.revoked \/ (row.status = "active" /\ key.scopes = RoleScopes(row.role))

KeysInv == \A m \in Emails : members[m] # NoMember => members[m].cred \in 1..Len(creds)

\* No key is linked to two members.
OwnKeys ==
    \A m, n \in Emails : m # n /\ members[m] # NoMember /\ members[n] # NoMember
                         => members[m].cred # members[n].cred

ChangesInv == \A a \in Callers : atx[a].op \in {"revoke", "rotate"} => atx[a].cred \in 1..Len(creds)

\* The key that a request read is, or was, its member's and nobody else's.
ReadsInv ==
    \A a \in Callers : atx[a].op \in TeamOps =>
        /\ members[atx[a].member] # NoMember
        /\ atx[a].row.cred \in 1..Len(creds)
        /\ \A n \in Emails \ {atx[a].member} : members[n] # NoMember => members[n].cred # atx[a].row.cred
        /\ atx[a].op = "role" => atx[a].role \in TeamRoles

TeamInv == TeamTyped /\ KeysInv /\ OwnKeys /\ ChangesInv /\ ReadsInv

\* What KeysLostOnlyByStaleCommit says of one step.
OnlyStaleLoses ==
    \A m \in Emails : LinkedKeyFollows(m) => LinkedKeyFollows(m)' \/ \E a \in Callers : OvertakenCommit(a, m)

\* The scopes of a role are scopes.
LEMMA RoleScopesTyped == \A r \in TeamRoles : RoleScopes(r) \in SUBSET AllScopes
BY DEF TeamRoles, RoleScopes, AllScopes

\* A missing row is no member.
LEMMA NoMemberRow == NoMember.status = "none" /\ NoMember \notin MemberRows
<1>1. NoMember.status = "none" BY DEF NoMember
<1>2. ASSUME NEW r \in MemberRows PROVE r.status # "none" BY DEF MemberRows
<1> QED BY <1>1, <1>2

\* A key keeps its scopes and is never un-revoked.
Aged(old, key) == key.scopes = old.scopes /\ (old.revoked => key.revoked)

\* A key that only got older still follows its member.
LEMMA AgedFollows ==
    ASSUME NEW row, NEW old, NEW key, KeyFollows(row, old), Aged(old, key)
    PROVE  KeyFollows(row, key)
BY DEF KeyFollows, Aged

\* Requests move and keys age; the members stay as they are.
FreshRead(t) ==
    \/ t.op \in {"idle", "authenticated"}
    \/ t.op \in {"revoke", "rotate"} /\ t.cred \in 1..Len(creds)
    \/ /\ t.op \in TeamOps /\ t.member \in Emails /\ t.row = members[t.member]
       /\ members[t.member] # NoMember /\ (t.op = "role" => t.role \in TeamRoles)

\* A step that writes no member, and lets keys only get older, keeps the invariant.
LEMMA RequestsMove ==
    ASSUME TeamInv, TeamTyped', members' = members, trail \subseteq trail', Len(creds') >= Len(creds),
           \A c \in 1..Len(creds) : Aged(creds[c], creds'[c]),
           \A a \in Callers : atx'[a] = atx[a] \/ FreshRead(atx'[a])
    PROVE  TeamInv' /\ OnlyStaleLoses
<1> USE DEF TeamInv
<1>1. /\ Len(creds) \in Nat /\ Len(creds') \in Nat
      /\ \A c : c \in 1..Len(creds) => c \in 1..Len(creds')
  <2>1. creds \in Seq(KeyRows) /\ creds' \in Seq(KeyRows) BY DEF TeamTyped
  <2>2. Len(creds) \in Nat /\ Len(creds') \in Nat BY <2>1, LenProperties
  <2> QED BY <2>2
<1>2. KeysInv' BY <1>1 DEF KeysInv
<1>0. OnlyStaleLoses
  <2>1. ASSUME NEW m \in Emails, LinkedKeyFollows(m), members[m] # NoMember
        PROVE  KeyFollows(members[m], creds'[members[m].cred])
    <3>1. members[m].cred \in 1..Len(creds) /\ KeyFollows(members[m], creds[members[m].cred])
      BY <2>1 DEF KeysInv, LinkedKeyFollows, KeyFollows
    <3>2. Aged(creds[members[m].cred], creds'[members[m].cred]) BY <3>1
    <3> QED BY <3>1, <3>2, AgedFollows
  <2>2. ASSUME NEW m \in Emails, LinkedKeyFollows(m) PROVE LinkedKeyFollows(m)'
    BY <2>1, <2>2 DEF LinkedKeyFollows, KeyFollows
  <2> QED BY <2>2 DEF OnlyStaleLoses
<1>3. OwnKeys' BY DEF OwnKeys
<1>4. ChangesInv'
  <2>1. ASSUME NEW a \in Callers, atx'[a].op \in {"revoke", "rotate"} PROVE atx'[a].cred \in 1..Len(creds)
    <3>1. CASE atx'[a] = atx[a] BY <2>1, <3>1 DEF ChangesInv
    <3>2. CASE FreshRead(atx'[a]) BY <2>1, <3>2 DEF FreshRead, TeamOps
    <3> QED BY <3>1, <3>2
  <2> QED BY <1>1, <2>1 DEF ChangesInv
<1>5. ReadsInv'
  <2> SUFFICES ASSUME NEW a \in Callers, atx'[a].op \in TeamOps
               PROVE  /\ members[atx'[a].member] # NoMember
                      /\ atx'[a].row.cred \in 1..Len(creds')
                      /\ \A n \in Emails \ {atx'[a].member} :
                             members[n] # NoMember => members[n].cred # atx'[a].row.cred
                      /\ atx'[a].op = "role" => atx'[a].role \in TeamRoles
    BY DEF ReadsInv
  <2>1. CASE atx'[a] = atx[a] BY <1>1, <2>1 DEF ReadsInv
  <2>2. CASE FreshRead(atx'[a])
    <3> DEFINE t == atx'[a]
    <3>1. /\ t.member \in Emails /\ t.row = members[t.member] /\ members[t.member] # NoMember
          /\ t.op = "role" => t.role \in TeamRoles
      BY <2>2 DEF FreshRead, TeamOps
    <3>2. t.row.cred \in 1..Len(creds') BY <1>1, <3>1 DEF KeysInv
    <3>4. \A n \in Emails \ {t.member} : members[n] # NoMember => members[n].cred # t.row.cred
      BY <3>1 DEF OwnKeys
    <3> QED BY <3>1, <3>2, <3>4
  <2> QED BY <2>1, <2>2
<1> QED BY <1>0, <1>2, <1>3, <1>4, <1>5

\* One member's row is written, and its request ends.
LEMMA MemberWritten ==
    ASSUME TeamInv, TeamTyped', NEW m \in Emails, NEW row \in MemberRows,
           members' = [members EXCEPT ![m] = row], trail \subseteq trail', Len(creds') >= Len(creds),
           row.cred \in 1..Len(creds'), (row.cred = members[m].cred /\ members[m] # NoMember) \/ row.cred > Len(creds),
           \A n \in Emails \ {m} : members[n] # NoMember => Aged(creds[members[n].cred], creds'[members[n].cred]),
           KeyFollows(row, creds'[row.cred]) \/ \E a \in Callers : OvertakenCommit(a, m),
           \A b \in Callers : atx'[b] = atx[b] \/ atx'[b].op = "idle"
    PROVE  TeamInv' /\ OnlyStaleLoses
<1> USE DEF TeamInv
<1>1. /\ Len(creds) \in Nat /\ Len(creds') \in Nat
      /\ \A c : c \in 1..Len(creds) => c \in 1..Len(creds') /\ c <= Len(creds)
  <2>1. creds \in Seq(KeyRows) /\ creds' \in Seq(KeyRows) BY DEF TeamTyped
  <2>2. Len(creds) \in Nat /\ Len(creds') \in Nat BY <2>1, LenProperties
  <2> QED BY <2>2
<1>2. members'[m] = row /\ row # NoMember /\ \A n \in Emails \ {m} : members'[n] = members[n]
  BY NoMemberRow DEF TeamTyped
<1>3. \A n \in Emails : members[n] # NoMember => members[n].cred \in 1..Len(creds) BY DEF KeysInv
<1>4. \A n \in Emails \ {m} : members[n] # NoMember => members[n].cred # row.cred
  <2>1. CASE row.cred > Len(creds) BY <1>1, <1>3, <2>1
  <2>2. CASE row.cred = members[m].cred /\ members[m] # NoMember BY <2>2 DEF OwnKeys
  <2> QED BY <2>1, <2>2
<1>5. KeysInv' BY <1>1, <1>2, <1>3 DEF KeysInv
<1>0. OnlyStaleLoses
  <2>1. ASSUME NEW n \in Emails \ {m}, LinkedKeyFollows(n), members[n] # NoMember
        PROVE  KeyFollows(members[n], creds'[members[n].cred])
    <3>1. KeyFollows(members[n], creds[members[n].cred]) BY <2>1 DEF LinkedKeyFollows, KeyFollows
    <3>2. Aged(creds[members[n].cred], creds'[members[n].cred]) BY <2>1
    <3> QED BY <3>1, <3>2, AgedFollows
  <2>2. ASSUME NEW n \in Emails \ {m}, LinkedKeyFollows(n) PROVE LinkedKeyFollows(n)'
    BY <1>2, <2>1, <2>2 DEF LinkedKeyFollows, KeyFollows
  <2>3. KeyFollows(row, creds'[row.cred]) => LinkedKeyFollows(m)'
    BY <1>2 DEF LinkedKeyFollows, KeyFollows
  <2> QED BY <2>2, <2>3 DEF OnlyStaleLoses
<1>6. OwnKeys' BY <1>2, <1>4 DEF OwnKeys
<1>7. ChangesInv' BY <1>1 DEF ChangesInv
<1>8. ReadsInv'
  <2> SUFFICES ASSUME NEW a \in Callers, atx'[a].op \in TeamOps
               PROVE  /\ members'[atx'[a].member] # NoMember
                      /\ atx'[a].row.cred \in 1..Len(creds')
                      /\ \A n \in Emails \ {atx'[a].member} :
                             members'[n] # NoMember => members'[n].cred # atx'[a].row.cred
                      /\ atx'[a].op = "role" => atx'[a].role \in TeamRoles
    BY DEF ReadsInv
  <2> DEFINE t == atx[a]
             k == atx[a].member
  <2>1. atx'[a] = atx[a] BY DEF TeamOps
  <2>2. /\ members[k] # NoMember /\ t.row.cred \in 1..Len(creds)
        /\ \A n \in Emails \ {k} : members[n] # NoMember => members[n].cred # t.row.cred
        /\ t.op = "role" => t.role \in TeamRoles
    BY <2>1 DEF ReadsInv
  <2>3. k \in Emails
    <3>1. t \in TeamRows BY <2>1 DEF TeamTyped, NoRequestYet, AuthRows, ChangeRows, TeamOps
    <3> QED BY <3>1 DEF TeamRows
  <2>4. members'[k] # NoMember BY <1>2, <2>2, <2>3
  <2>6. \A n \in Emails \ {k} : members'[n] # NoMember => members'[n].cred # t.row.cred
    <3>1. ASSUME NEW n \in Emails \ {k}, members'[n] # NoMember, n = m PROVE row.cred # t.row.cred
      <4>1. CASE row.cred > Len(creds) BY <1>1, <2>2, <4>1
      <4>2. CASE row.cred = members[m].cred /\ members[m] # NoMember BY <2>2, <3>1, <4>2
      <4> QED BY <4>1, <4>2
    <3> QED BY <1>2, <2>2, <3>1
  <2> QED BY <1>1, <2>1, <2>2, <2>4, <2>6
<1> QED BY <1>0, <1>5, <1>6, <1>7, <1>8

-----------------------------------------------------------------------------
(* The table of keys *)

\* Writing one key leaves the others alone.
LEMMA KeyWritten ==
    ASSUME NEW s \in Seq(KeyRows), NEW c \in 1..Len(s), NEW key \in KeyRows
    PROVE  /\ [s EXCEPT ![c] = key] \in Seq(KeyRows) /\ Len([s EXCEPT ![c] = key]) = Len(s)
           /\ [s EXCEPT ![c] = key][c] = key
           /\ \A d \in 1..Len(s) : d # c => [s EXCEPT ![c] = key][d] = s[d]
BY ExceptSeq

\* A new key is the last one and leaves the others alone.
LEMMA KeyInserted ==
    ASSUME creds \in Seq(KeyRows), NEW scopes \in SUBSET AllScopes
    PROVE  /\ InsertCredential(scopes) \in Seq(KeyRows) /\ Len(InsertCredential(scopes)) = Len(creds) + 1
           /\ NewCredential = Len(creds) + 1 /\ Len(creds) \in Nat
           /\ NewCredential \in 1..Len(InsertCredential(scopes))
           /\ InsertCredential(scopes)[NewCredential].scopes = scopes
           /\ \A d \in 1..Len(creds) : InsertCredential(scopes)[d] = creds[d]
<1> DEFINE key == [scopes |-> scopes, revoked |-> FALSE, expired |-> FALSE]
<1>1. key \in KeyRows /\ key.scopes = scopes BY DEF KeyRows
<1> HIDE DEF key
<1>2. /\ Append(creds, key) \in Seq(KeyRows) /\ Len(Append(creds, key)) = Len(creds) + 1
      /\ \A d \in 1..Len(creds) : Append(creds, key)[d] = creds[d]
      /\ Append(creds, key)[Len(creds) + 1] = key
  BY <1>1, AppendProperties
<1>3. InsertCredential(scopes) = Append(creds, key) BY DEF InsertCredential, key
<1>4. Len(creds) \in Nat BY LenProperties
<1> QED BY <1>1, <1>2, <1>3, <1>4 DEF NewCredential

\* Revoking, unguarded.
LEMMA KeyRevoked ==
    ASSUME NEW s \in Seq(KeyRows), NEW c \in 1..Len(s)
    PROVE  /\ RevokeRowIn(s, c) \in Seq(KeyRows) /\ Len(RevokeRowIn(s, c)) = Len(s)
           /\ RevokeRowIn(s, c)[c].revoked
           /\ \A d \in 1..Len(s) : Aged(s[d], RevokeRowIn(s, c)[d])
<1> DEFINE key == [s[c] EXCEPT !.revoked = TRUE]
<1>1. s[c] \in KeyRows BY ElementOfSeq
<1>2. key \in KeyRows /\ key.scopes = s[c].scopes BY <1>1 DEF KeyRows
<1>3. key.revoked = TRUE BY <1>1 DEF KeyRows
<1>4. RevokeRowIn(s, c) = [s EXCEPT ![c] = key] BY DEF RevokeRowIn
<1> HIDE DEF key
<1> DEFINE w == [s EXCEPT ![c] = key]
<1>5. /\ w \in Seq(KeyRows) /\ Len(w) = Len(s) /\ w[c] = key /\ \A d \in 1..Len(s) : d # c => w[d] = s[d]
  BY <1>2, KeyWritten
<1> HIDE DEF w
<1>6. ASSUME NEW d \in 1..Len(s) PROVE Aged(s[d], w[d])
  <2>1. CASE d = c BY <1>2, <1>3, <1>5, <2>1 DEF Aged
  <2>2. CASE d # c BY <1>5, <2>2 DEF Aged
  <2> QED BY <2>1, <2>2
<1>7. w[c].revoked BY <1>3, <1>5
<1> QED BY <1>4, <1>5, <1>6, <1>7 DEF w

\* An expiry makes a key older.
LEMMA KeyExpired ==
    ASSUME NEW s \in Seq(KeyRows), NEW c \in 1..Len(s)
    PROVE  LET w == [s EXCEPT ![c].expired = TRUE] IN
           w \in Seq(KeyRows) /\ Len(w) = Len(s) /\ \A d \in 1..Len(s) : Aged(s[d], w[d])
<1> DEFINE key == [s[c] EXCEPT !.expired = TRUE]
           w == [s EXCEPT ![c] = key]
<1>1. s[c] \in KeyRows BY ElementOfSeq
<1>2. key \in KeyRows /\ key.scopes = s[c].scopes BY <1>1 DEF KeyRows
<1>3. key.revoked = s[c].revoked BY <1>1 DEF KeyRows
<1>4. w = [s EXCEPT ![c].expired = TRUE] OBVIOUS
<1> HIDE DEF key
<1>5. /\ w \in Seq(KeyRows) /\ Len(w) = Len(s) /\ w[c] = key /\ \A d \in 1..Len(s) : d # c => w[d] = s[d]
  BY <1>2, KeyWritten
<1> HIDE DEF w
<1>6. ASSUME NEW d \in 1..Len(s) PROVE Aged(s[d], w[d])
  <2>1. CASE d = c BY <1>2, <1>3, <1>5, <2>1 DEF Aged
  <2>2. CASE d # c BY <1>5, <2>2 DEF Aged
  <2> QED BY <2>1, <2>2
<1> QED BY <1>4, <1>5, <1>6

\* New scopes for one key leave the others, and every key's revocation, alone.
LEMMA KeyRescoped ==
    ASSUME creds \in Seq(KeyRows), NEW c \in 1..Len(creds), NEW scopes \in SUBSET AllScopes
    PROVE  LET w == UpdateCredentialScopes(c, scopes) IN
           /\ w \in Seq(KeyRows) /\ Len(w) = Len(creds) /\ w[c].scopes = scopes
           /\ \A d \in 1..Len(creds) : d # c => w[d] = creds[d]
           /\ \A d \in 1..Len(creds) : w[d].revoked = creds[d].revoked
<1> DEFINE key == [creds[c] EXCEPT !.scopes = scopes]
           w == [creds EXCEPT ![c] = key]
<1>1. creds[c] \in KeyRows BY ElementOfSeq
<1>2. key \in KeyRows /\ key.scopes = scopes BY <1>1 DEF KeyRows
<1>3. key.revoked = creds[c].revoked BY <1>1 DEF KeyRows
<1>4. w = UpdateCredentialScopes(c, scopes) BY DEF UpdateCredentialScopes
<1> HIDE DEF key
<1>5. /\ w \in Seq(KeyRows) /\ Len(w) = Len(creds) /\ w[c] = key
      /\ \A d \in 1..Len(creds) : d # c => w[d] = creds[d]
  BY <1>2, KeyWritten
<1> HIDE DEF w
<1>6. \A d \in 1..Len(creds) : w[d].revoked = creds[d].revoked BY <1>3, <1>5
<1> QED BY <1>2, <1>4, <1>5, <1>6

-----------------------------------------------------------------------------
(* The steps *)

\* What the types say of one request in flight.
LEMMA RequestRow ==
    ASSUME TeamTyped, NEW a \in Callers
    PROVE  /\ atx[a].op = "authenticated" => atx[a].scopes \in SUBSET AllScopes
           /\ atx[a].op \in {"revoke", "rotate"} => atx[a].scopes \in SUBSET AllScopes
           /\ atx[a].op \in TeamOps => /\ atx[a].member \in Emails /\ atx[a].row \in MemberRows
                                       /\ atx[a].role \in TeamRoles \cup {"null"}
<1>1. atx[a] \in {NoRequestYet} \cup AuthRows \cup ChangeRows \cup TeamRows BY DEF TeamTyped
<1>2. ASSUME atx[a] = NoRequestYet PROVE atx[a].op = "idle" BY <1>2 DEF NoRequestYet
<1>3. ASSUME atx[a] \in AuthRows PROVE atx[a].op = "authenticated" /\ atx[a].scopes \in SUBSET AllScopes
  BY <1>3 DEF AuthRows
<1>4. ASSUME atx[a] \in ChangeRows PROVE atx[a].op \in {"revoke", "rotate"} /\ atx[a].scopes \in SUBSET AllScopes
  BY <1>4 DEF ChangeRows
<1>5. ASSUME atx[a] \in TeamRows
      PROVE  /\ atx[a].op \in TeamOps /\ atx[a].member \in Emails /\ atx[a].row \in MemberRows
             /\ atx[a].role \in TeamRoles \cup {"null"}
  BY <1>5 DEF TeamRows
<1> QED BY <1>1, <1>2, <1>3, <1>4, <1>5 DEF TeamOps

\* One request moves on.
LEMMA RequestMoves ==
    ASSUME TeamTyped, NEW a \in Callers, NEW t \in {NoRequestYet} \cup AuthRows \cup ChangeRows \cup TeamRows,
           atx' = [atx EXCEPT ![a] = t]
    PROVE  /\ atx' \in [Callers -> {NoRequestYet} \cup AuthRows \cup ChangeRows \cup TeamRows]
           /\ atx'[a] = t /\ \A b \in Callers \ {a} : atx'[b] = atx[b]
BY DEF TeamTyped

\* The keys did not change, or only aged; one request moves on.
LEMMA RequestStep ==
    ASSUME TeamInv, NEW a \in Callers, NEW t \in {NoRequestYet} \cup AuthRows \cup ChangeRows \cup TeamRows,
           atx' = [atx EXCEPT ![a] = t], FreshRead(t) \/ t = atx[a],
           members' = members, trail \subseteq trail', creds' \in Seq(KeyRows), Len(creds') >= Len(creds),
           \A c \in 1..Len(creds) : Aged(creds[c], creds'[c])
    PROVE  TeamInv' /\ OnlyStaleLoses
<1>1. TeamTyped BY DEF TeamInv
<1>2. /\ atx' \in [Callers -> {NoRequestYet} \cup AuthRows \cup ChangeRows \cup TeamRows]
      /\ atx'[a] = t /\ \A b \in Callers \ {a} : atx'[b] = atx[b]
  BY <1>1, RequestMoves
<1>3. TeamTyped' BY <1>1, <1>2 DEF TeamTyped
<1>4. \A b \in Callers : atx'[b] = atx[b] \/ FreshRead(atx'[b]) BY <1>2
<1> QED BY <1>3, <1>4, RequestsMove

\* Keys that are not written are as old as they were.
LEMMA SameKeys ==
    ASSUME TeamInv, creds' = creds
    PROVE  /\ creds' \in Seq(KeyRows) /\ Len(creds') >= Len(creds) /\ creds \in Seq(KeyRows)
           /\ \A c \in 1..Len(creds) : Aged(creds[c], creds'[c])
<1>1. creds \in Seq(KeyRows) BY DEF TeamInv, TeamTyped
<1>2. Len(creds) \in Nat BY <1>1, LenProperties
<1> QED BY <1>1, <1>2 DEF Aged

\* A caller without a request has read nothing.
LEMMA NoRequestIsIdle == NoRequestYet.op = "idle" /\ FreshRead(NoRequestYet)
BY DEF NoRequestYet, FreshRead

\* A step that reads: nothing but the request changes.
LEMMA ReadStep ==
    ASSUME TeamInv, NEW a \in Callers, NEW t \in {NoRequestYet} \cup AuthRows \cup ChangeRows \cup TeamRows,
           atx' = [atx EXCEPT ![a] = t], FreshRead(t), UNCHANGED <<members, creds, trail>>
    PROVE  TeamInv' /\ OnlyStaleLoses
<1>1. trail \subseteq trail' /\ members' = members /\ creds' = creds OBVIOUS
<1> QED BY <1>1, SameKeys, RequestStep

\* Authentication with a key.
LEMMA AuthKeepsInv ==
    ASSUME TeamInv, NEW a \in Callers, NEW c \in DOMAIN creds, NEW permitted, apiKeyAuth(a, c, permitted),
           members' = members
    PROVE  TeamInv' /\ OnlyStaleLoses
<1> DEFINE t == [op |-> "authenticated", scopes |-> creds[c].scopes]
<1>1. creds \in Seq(KeyRows) BY DEF TeamInv, TeamTyped
<1>2. creds[c] \in KeyRows BY <1>1, ElementOfSeq, LenProperties
<1>3. t \in AuthRows /\ FreshRead(t) BY <1>2 DEF KeyRows, AuthRows, FreshRead
<1>4. atx' = [atx EXCEPT ![a] = t] /\ creds' = creds /\ trail' = trail
  BY DEF apiKeyAuth, ResolveCredentialByKeyHash
<1> HIDE DEF t
<1> QED BY <1>3, <1>4, ReadStep

\* The read before a key is revoked or rotated.
LEMMA ChangeReadKeepsInv ==
    ASSUME TeamInv, NEW a \in Callers, NEW op \in {"revoke", "rotate"}, NEW c \in DOMAIN creds,
           ReadForChange(a, op, c), members' = members
    PROVE  TeamInv' /\ OnlyStaleLoses
<1> DEFINE t == [op |-> op, cred |-> c, scopes |-> creds[c].scopes]
<1>1. creds \in Seq(KeyRows) BY DEF TeamInv, TeamTyped
<1>2. creds[c] \in KeyRows /\ c \in 1..Len(creds) /\ c \in Nat BY <1>1, ElementOfSeq, LenProperties
<1>3. t \in ChangeRows /\ FreshRead(t) BY <1>2 DEF KeyRows, ChangeRows, FreshRead
<1>4. atx' = [atx EXCEPT ![a] = t] /\ creds' = creds /\ trail' = trail BY DEF ReadForChange
<1> HIDE DEF t
<1> QED BY <1>3, <1>4, ReadStep

\* A request that ends without a write.
LEMMA EndKeepsInv ==
    ASSUME TeamInv, NEW a \in Callers, atx' = [atx EXCEPT ![a] = NoRequestYet],
           UNCHANGED <<members, creds, trail>>
    PROVE  TeamInv' /\ OnlyStaleLoses
<1>1. NoRequestYet \in {NoRequestYet} \cup AuthRows \cup ChangeRows \cup TeamRows OBVIOUS
<1> QED BY <1>1, NoRequestIsIdle, ReadStep

\* A key is created, for nobody.
LEMMA InsertKeepsInv ==
    ASSUME TeamInv, NEW a \in Callers, NEW scopes \in SUBSET AllScopes, creds' = InsertCredential(scopes),
           NEW t \in {NoRequestYet, atx[a]}, atx' = [atx EXCEPT ![a] = t], members' = members,
           trail \subseteq trail'
    PROVE  TeamInv' /\ OnlyStaleLoses
<1>1. creds \in Seq(KeyRows) BY DEF TeamInv, TeamTyped
<1>2. /\ creds' \in Seq(KeyRows) /\ Len(creds') = Len(creds) + 1 /\ Len(creds) \in Nat
      /\ \A d \in 1..Len(creds) : creds'[d] = creds[d]
  BY <1>1, KeyInserted
<1>3. Len(creds') >= Len(creds) /\ \A c \in 1..Len(creds) : Aged(creds[c], creds'[c]) BY <1>2 DEF Aged
<1>4. t \in {NoRequestYet} \cup AuthRows \cup ChangeRows \cup TeamRows BY DEF TeamInv, TeamTyped
<1> QED BY <1>2, <1>3, <1>4, NoRequestIsIdle, RequestStep

\* Revoking a key.
LEMMA RevokeCommitKeepsInv ==
    ASSUME TeamInv, NEW a \in Callers, RevokeCommit(a), members' = members
    PROVE  TeamInv' /\ OnlyStaleLoses
<1>1. creds \in Seq(KeyRows) /\ atx[a].cred \in 1..Len(creds)
  BY DEF TeamInv, TeamTyped, ChangesInv, RevokeCommit
<1>2. /\ creds' = RevokeRowIn(creds, atx[a].cred) /\ atx' = [atx EXCEPT ![a] = NoRequestYet]
      /\ trail \subseteq trail'
  BY DEF RevokeCommit, CredentialAction, AppendRows
<1>3. /\ creds' \in Seq(KeyRows) /\ Len(creds') = Len(creds)
      /\ \A c \in 1..Len(creds) : Aged(creds[c], creds'[c])
  BY <1>1, <1>2, KeyRevoked
<1>4. Len(creds) \in Nat BY <1>1, LenProperties
<1>5. NoRequestYet \in {NoRequestYet} \cup AuthRows \cup ChangeRows \cup TeamRows OBVIOUS
<1>6. Len(creds') >= Len(creds) BY <1>3, <1>4
<1> QED BY <1>2, <1>3, <1>5, <1>6, NoRequestIsIdle, RequestStep

\* Rotating a key: the old one is revoked, the new one belongs to no member.
LEMMA RotateCommitKeepsInv ==
    ASSUME TeamInv, NEW a \in Callers, RotateCommit(a), members' = members
    PROVE  TeamInv' /\ OnlyStaleLoses
<1> DEFINE s == InsertCredential(atx[a].scopes)
<1>1. creds \in Seq(KeyRows) /\ atx[a].cred \in 1..Len(creds)
  BY DEF TeamInv, TeamTyped, ChangesInv, RotateCommit
<1>2. atx[a].scopes \in SUBSET AllScopes BY RequestRow DEF TeamInv, RotateCommit
<1>3. /\ creds' = RevokeRowIn(s, atx[a].cred) /\ atx' = [atx EXCEPT ![a] = NoRequestYet]
      /\ trail \subseteq trail'
  BY DEF RotateCommit, CredentialAction, AppendRows
<1>4. /\ s \in Seq(KeyRows) /\ Len(s) = Len(creds) + 1 /\ Len(creds) \in Nat
      /\ \A d \in 1..Len(creds) : s[d] = creds[d]
  BY <1>1, <1>2, KeyInserted
<1> HIDE DEF s
<1>5. atx[a].cred \in 1..Len(s) BY <1>1, <1>4
<1>6. /\ creds' \in Seq(KeyRows) /\ Len(creds') = Len(s)
      /\ \A d \in 1..Len(s) : Aged(s[d], creds'[d])
  BY <1>3, <1>4, <1>5, KeyRevoked
<1>7. Len(creds') >= Len(creds) /\ \A c \in 1..Len(creds) : Aged(creds[c], creds'[c]) BY <1>4, <1>6
<1>8. NoRequestYet \in {NoRequestYet} \cup AuthRows \cup ChangeRows \cup TeamRows OBVIOUS
<1> QED BY <1>3, <1>6, <1>7, <1>8, NoRequestIsIdle, RequestStep

\* The clock: a key expires.
LEMMA ExpiryKeepsInv ==
    ASSUME TeamInv, KeyExpires, members' = members
    PROVE  TeamInv' /\ OnlyStaleLoses
<1>1. creds \in Seq(KeyRows) /\ TeamTyped BY DEF TeamInv, TeamTyped
<1>2. PICK c \in DOMAIN creds : creds' = [creds EXCEPT ![c].expired = TRUE] BY DEF KeyExpires
<1>3. c \in 1..Len(creds) /\ Len(creds) \in Nat BY <1>1, LenProperties
<1>4. creds' \in Seq(KeyRows) /\ Len(creds') = Len(creds) /\ \A d \in 1..Len(creds) : Aged(creds[d], creds'[d])
  BY <1>1, <1>2, <1>3, KeyExpired
<1>5. atx' = atx /\ trail' = trail BY DEF KeyExpires
<1>6. TeamTyped' BY <1>1, <1>4, <1>5 DEF TeamTyped
<1>7. trail \subseteq trail' /\ Len(creds') >= Len(creds) BY <1>3, <1>4, <1>5
<1>8. \A a \in Callers : atx'[a] = atx[a] \/ FreshRead(atx'[a]) BY <1>5
<1> QED BY <1>4, <1>6, <1>7, <1>8, RequestsMove

\* Every operation on keys keeps the invariant of the team.
LEMMA CredentialKeepsInv ==
    ASSUME TeamInv, CredentialNext, members' = members
    PROVE  TeamInv' /\ OnlyStaleLoses
<1>1. CASE KeyExpires BY <1>1, ExpiryKeepsInv
<1>2. ASSUME NEW a \in Callers, NEW c \in DOMAIN creds, NEW permitted \in BOOLEAN, apiKeyAuth(a, c, permitted)
      PROVE TeamInv' /\ OnlyStaleLoses
  BY <1>2, AuthKeepsInv
<1>3. ASSUME NEW a \in Callers, EndRequest(a) PROVE TeamInv' /\ OnlyStaleLoses BY <1>3, EndKeepsInv DEF EndRequest
<1>4. ASSUME NEW a \in Callers, createCredential(a) PROVE TeamInv' /\ OnlyStaleLoses
  <2>1. PICK scopes \in GrantChoices : CreateCredential(a, scopes) BY <1>4 DEF createCredential
  <2>2. scopes \in SUBSET AllScopes BY CredentialAssumption
  <2>3. /\ creds' = InsertCredential(scopes) /\ atx' = [atx EXCEPT ![a] = NoRequestYet]
        /\ trail \subseteq trail'
    BY <2>1 DEF CreateCredential, CredentialAction, AppendRows
  <2> QED BY <2>2, <2>3, InsertKeepsInv
<1>5. ASSUME NEW a \in Callers, operatorCreateCredential(a) PROVE TeamInv' /\ OnlyStaleLoses
  <2>1. PICK scopes \in GrantChoices, f \in BOOLEAN : CreateProviderCredential(a, scopes, f)
    BY <1>5 DEF operatorCreateCredential
  <2>2. scopes \in SUBSET AllScopes BY CredentialAssumption
  <2>3. creds' = InsertCredential(scopes) /\ atx' = atx /\ trail \subseteq trail'
    BY <2>1 DEF CreateProviderCredential, CredentialAction, AppendRows
  <2>4. atx' = [atx EXCEPT ![a] = atx[a]] BY <2>3 DEF TeamInv, TeamTyped
  <2> QED BY <2>2, <2>3, <2>4, InsertKeepsInv
<1>6. ASSUME NEW a \in Callers, NEW op \in {"revoke", "rotate"}, NEW c \in DOMAIN creds, ReadForChange(a, op, c)
      PROVE TeamInv' /\ OnlyStaleLoses
  BY <1>6, ChangeReadKeepsInv
<1>7. ASSUME NEW a \in Callers, revokeCredential(a) \/ revokeProviderCredential(a) PROVE TeamInv' /\ OnlyStaleLoses
  BY <1>6, <1>7 DEF revokeCredential, revokeProviderCredential, RevokeCredential, RevokeProviderCredential
<1>8. ASSUME NEW a \in Callers, operatorRotateCredential(a) PROVE TeamInv' /\ OnlyStaleLoses
  BY <1>6, <1>8 DEF operatorRotateCredential, RotateProviderCredential
<1>9. ASSUME NEW a \in Callers, RevokeCommit(a) \/ RotateCommit(a) PROVE TeamInv' /\ OnlyStaleLoses
  BY <1>9, RevokeCommitKeepsInv, RotateCommitKeepsInv
<1> QED BY <1>1, <1>2, <1>3, <1>4, <1>5, <1>7, <1>8, <1>9 DEF CredentialNext

\* The read of an operation on a member.
LEMMA MemberReadKeepsInv ==
    ASSUME TeamInv, NEW a \in Callers, NEW op \in TeamOps, NEW m \in Emails,
           NEW role \in TeamRoles \cup {"null"}, op = "role" => role \in TeamRoles,
           members[m].status # "none", GetTeamMemberByID(a, op, m, role)
    PROVE  TeamInv' /\ OnlyStaleLoses
<1> DEFINE t == [op |-> op, member |-> m, row |-> members[m], role |-> role]
<1>1. members[m] # NoMember BY NoMemberRow
<1>2. members[m] \in MemberRows BY <1>1 DEF TeamInv, TeamTyped
<1>3. t \in TeamRows BY <1>2 DEF TeamRows
<1>4. FreshRead(t) BY <1>1 DEF FreshRead
<1>5. atx' = [atx EXCEPT ![a] = t] /\ UNCHANGED <<members, creds, trail>> BY DEF GetTeamMemberByID
<1> HIDE DEF t
<1> QED BY <1>3, <1>4, <1>5, ReadStep

\* A member is invited: a new row with a new key.
LEMMA InviteKeepsInv ==
    ASSUME TeamInv, NEW a \in Callers, NEW m \in Emails, NEW role, InviteTeamMember(a, m, role)
    PROVE  TeamInv' /\ OnlyStaleLoses
<1> DEFINE row == [status |-> "active", role |-> role, cred |-> NewCredential]
<1>1. TeamTyped /\ creds \in Seq(KeyRows) BY DEF TeamInv, TeamTyped
<1>2. role \in TeamRoles /\ members[m] = NoMember BY DEF InviteTeamMember, ValidTeamRole, CreateTeamMember
<1>3. RoleScopes(role) \in SUBSET AllScopes BY <1>2, RoleScopesTyped
<1>4. /\ creds' = InsertCredential(RoleScopes(role)) /\ members' = [members EXCEPT ![m] = row]
      /\ atx' = [atx EXCEPT ![a] = NoRequestYet] /\ trail \subseteq trail'
  BY DEF InviteTeamMember, CreateTeamMember, AppendRows
<1>5. /\ creds' \in Seq(KeyRows) /\ Len(creds') = Len(creds) + 1
      /\ NewCredential = Len(creds) + 1 /\ Len(creds) \in Nat /\ NewCredential \in 1..Len(creds')
      /\ creds'[NewCredential].scopes = RoleScopes(role)
      /\ \A d \in 1..Len(creds) : creds'[d] = creds[d]
  BY <1>1, <1>3, <1>4, KeyInserted
<1>6. /\ row \in MemberRows /\ row.cred = NewCredential /\ row.role = role /\ row.status = "active"
  BY <1>2, <1>5 DEF MemberRows
<1> HIDE DEF row
<1>7. atx' \in [Callers -> {NoRequestYet} \cup AuthRows \cup ChangeRows \cup TeamRows]
      /\ \A b \in Callers : atx'[b] = atx[b] \/ atx'[b].op = "idle"
  BY <1>1, <1>4, RequestMoves, NoRequestIsIdle
<1>8. TeamTyped' BY <1>1, <1>4, <1>5, <1>6, <1>7 DEF TeamTyped
<1>9. KeyFollows(row, creds'[row.cred]) BY <1>5, <1>6 DEF KeyFollows
<1>10. \A n \in Emails \ {m} : members[n] # NoMember => Aged(creds[members[n].cred], creds'[members[n].cred])
  BY <1>5 DEF TeamInv, KeysInv, Aged
<1>11. row.cred > Len(creds) /\ row.cred \in 1..Len(creds') /\ Len(creds') >= Len(creds) BY <1>5, <1>6
<1> QED BY <1>2, <1>4, <1>6, <1>7, <1>8, <1>9, <1>10, <1>11, MemberWritten

\* What a commit knows: its member, the row it read, and the row there now.
LEMMA CommitRow ==
    ASSUME TeamInv, NEW a \in Callers, NEW op \in TeamOps, NEW event, NEW action, TeamCommit(a, op, event, action)
    PROVE  /\ atx[a].op = op /\ atx[a].member \in Emails /\ atx[a].row \in MemberRows
           /\ atx[a].row.cred \in 1..Len(creds)
           /\ members[atx[a].member] \in MemberRows /\ members[atx[a].member] # NoMember
           /\ members[atx[a].member].cred \in 1..Len(creds)
           /\ \A n \in Emails \ {atx[a].member} : members[n] # NoMember => members[n].cred # atx[a].row.cred
           /\ op = "role" => atx[a].role \in TeamRoles
           /\ atx' \in [Callers -> {NoRequestYet} \cup AuthRows \cup ChangeRows \cup TeamRows]
           /\ \A b \in Callers : atx'[b] = atx[b] \/ atx'[b].op = "idle"
           /\ trail \subseteq trail' /\ atx'[a] # atx[a]
           /\ creds \in Seq(KeyRows) /\ Len(creds) \in Nat
<1> USE DEF TeamInv
<1>1. atx[a].op = op /\ atx[a].op \in TeamOps BY DEF TeamCommit
<1>2. atx[a].member \in Emails /\ atx[a].row \in MemberRows BY <1>1, RequestRow
<1>3. /\ atx[a].row.cred \in 1..Len(creds)
      /\ members[atx[a].member] # NoMember
      /\ \A n \in Emails \ {atx[a].member} : members[n] # NoMember => members[n].cred # atx[a].row.cred
      /\ op = "role" => atx[a].role \in TeamRoles
  BY <1>1 DEF ReadsInv
<1>4. members[atx[a].member] \in MemberRows BY <1>2, <1>3 DEF TeamTyped
<1>5. members[atx[a].member].cred \in 1..Len(creds) BY <1>2, <1>3 DEF KeysInv
<1>6. atx' = [atx EXCEPT ![a] = NoRequestYet] BY DEF TeamCommit
<1>7. /\ atx' \in [Callers -> {NoRequestYet} \cup AuthRows \cup ChangeRows \cup TeamRows]
      /\ \A b \in Callers : atx'[b] = atx[b] \/ atx'[b].op = "idle"
  BY <1>6, RequestMoves, NoRequestIsIdle
<1>8. trail \subseteq trail' /\ atx'[a] # atx[a]
  <2>1. trail \subseteq trail' BY DEF TeamCommit, AppendRows
  <2>2. atx'[a] = NoRequestYet BY <1>6 DEF TeamTyped
  <2>3. atx[a].op # NoRequestYet.op BY <1>1, NoRequestIsIdle DEF TeamOps
  <2> QED BY <2>1, <2>2, <2>3
<1>9. creds \in Seq(KeyRows) /\ Len(creds) \in Nat BY LenProperties DEF TeamTyped
<1> QED BY <1>1, <1>2, <1>3, <1>4, <1>5, <1>7, <1>8, <1>9

\* The member leaves, and the key that was read is revoked: the member's own,
\* unless the row was overtaken.
LEMMA LeaveKeepsInv ==
    ASSUME TeamInv, NEW a \in Callers, NEW op \in {"suspend", "remove"}, NEW event, NEW action,
           TeamCommit(a, op, event, action), NEW from, NEW to \in {"suspended", "removed"},
           SetStatus(atx[a].member, from, to),
           creds' = RevokeRowIn(creds, atx[a].row.cred)
    PROVE  TeamInv' /\ OnlyStaleLoses
<1> DEFINE m == atx[a].member
           row == [members[m] EXCEPT !.status = to]
<1>1. /\ m \in Emails /\ atx[a].row.cred \in 1..Len(creds)
      /\ members[m] \in MemberRows /\ members[m] # NoMember /\ members[m].cred \in 1..Len(creds)
      /\ atx[a].op = op /\ op \in TeamOps /\ atx'[a] # atx[a]
      /\ atx' \in [Callers -> {NoRequestYet} \cup AuthRows \cup ChangeRows \cup TeamRows]
      /\ \A b \in Callers : atx'[b] = atx[b] \/ atx'[b].op = "idle"
      /\ trail \subseteq trail' /\ creds \in Seq(KeyRows) /\ Len(creds) \in Nat
  <2>1. op \in TeamOps BY DEF TeamOps
  <2> QED BY <2>1, CommitRow
<1>2. /\ row \in MemberRows /\ row.cred = members[m].cred /\ row.role = members[m].role /\ row.status = to
  BY <1>1 DEF MemberRows
<1>3. members' = [members EXCEPT ![m] = row] BY DEF SetStatus
<1> HIDE DEF row
<1>4. /\ creds' \in Seq(KeyRows) /\ Len(creds') = Len(creds) /\ creds'[atx[a].row.cred].revoked
      /\ \A d \in 1..Len(creds) : Aged(creds[d], creds'[d])
  BY <1>1, KeyRevoked
<1>5. TeamTyped' BY <1>1, <1>2, <1>3, <1>4 DEF TeamInv, TeamTyped
<1>6. KeyFollows(row, creds'[row.cred]) \/ \E b \in Callers : OvertakenCommit(b, m)
  <2>1. CASE atx[a].row.cred # members[m].cred
    <3>1. OvertakenCommit(a, m) BY <1>1, <2>1 DEF OvertakenCommit
    <3> QED BY <3>1
  <2>2. CASE atx[a].row.cred = members[m].cred BY <1>2, <1>4, <2>2 DEF KeyFollows
  <2> QED BY <2>1, <2>2
<1>7. \A n \in Emails \ {m} : members[n] # NoMember => Aged(creds[members[n].cred], creds'[members[n].cred])
  BY <1>4 DEF TeamInv, KeysInv
<1>9. Len(creds') >= Len(creds) /\ row.cred \in 1..Len(creds') BY <1>1, <1>2, <1>4
<1> HIDE DEF m
<1> QED BY <1>1, <1>2, <1>3, <1>5, <1>6, <1>7, <1>9, MemberWritten

\* The role changes, and the key that was read gets its scopes.
LEMMA RoleKeepsInv ==
    ASSUME TeamInv, NEW a \in Callers, UpdateTeamMemberRoleCommit(a)
    PROVE  TeamInv' /\ OnlyStaleLoses
<1> DEFINE m == atx[a].member
           role == atx[a].role
           c == atx[a].row.cred
           row == [members[m] EXCEPT !.role = role]
<1>1. /\ m \in Emails /\ c \in 1..Len(creds)
      /\ members[m] \in MemberRows /\ members[m] # NoMember /\ members[m].cred \in 1..Len(creds)
      /\ atx[a].op = "role" /\ atx'[a] # atx[a] /\ role \in TeamRoles
      /\ \A n \in Emails \ {m} : members[n] # NoMember => members[n].cred # c
      /\ atx' \in [Callers -> {NoRequestYet} \cup AuthRows \cup ChangeRows \cup TeamRows]
      /\ \A b \in Callers : atx'[b] = atx[b] \/ atx'[b].op = "idle"
      /\ trail \subseteq trail' /\ creds \in Seq(KeyRows) /\ Len(creds) \in Nat
  <2>1. "role" \in TeamOps BY DEF TeamOps
  <2>2. TeamCommit(a, "role", "team.member_role_changed", "team.member_role_change")
    BY DEF UpdateTeamMemberRoleCommit
  <2> QED BY <2>1, <2>2, CommitRow
<1>2. members[m].status = "active" BY DEF UpdateTeamMemberRoleCommit, SetTeamMemberRole
<1>3. /\ row \in MemberRows /\ row.cred = members[m].cred /\ row.role = role /\ row.status = "active"
  BY <1>1, <1>2 DEF MemberRows
<1>4. members' = [members EXCEPT ![m] = row] /\ creds' = UpdateCredentialScopes(c, RoleScopes(role))
  BY DEF UpdateTeamMemberRoleCommit, SetTeamMemberRole
<1> HIDE DEF row, c, role
<1>5. RoleScopes(role) \in SUBSET AllScopes BY <1>1, RoleScopesTyped
<1>6. /\ creds' \in Seq(KeyRows) /\ Len(creds') = Len(creds) /\ creds'[c].scopes = RoleScopes(role)
      /\ \A d \in 1..Len(creds) : d # c => creds'[d] = creds[d]
  BY <1>1, <1>4, <1>5, KeyRescoped
<1>7. TeamTyped' BY <1>1, <1>3, <1>4, <1>6 DEF TeamInv, TeamTyped
<1>8. KeyFollows(row, creds'[row.cred]) \/ \E b \in Callers : OvertakenCommit(b, m)
  <2>1. CASE c # members[m].cred
    <3>1. OvertakenCommit(a, m) BY <1>1, <2>1 DEF OvertakenCommit, TeamOps, c
    <3> QED BY <3>1
  <2>2. CASE c = members[m].cred BY <1>3, <1>6, <2>2 DEF KeyFollows
  <2> QED BY <2>1, <2>2
<1>9. \A n \in Emails \ {m} : members[n] # NoMember => Aged(creds[members[n].cred], creds'[members[n].cred])
  BY <1>1, <1>6 DEF TeamInv, KeysInv, Aged
<1>11. Len(creds') >= Len(creds) /\ row.cred \in 1..Len(creds') BY <1>1, <1>3, <1>6
<1> HIDE DEF m
<1> QED BY <1>1, <1>3, <1>4, <1>7, <1>8, <1>9, <1>11, MemberWritten

\* A new key, with the scopes of the role that was read.
LEMMA ReactivateKeepsInv ==
    ASSUME TeamInv, NEW a \in Callers, ReactivateTeamMemberCommit(a)
    PROVE  TeamInv' /\ OnlyStaleLoses
<1> DEFINE m == atx[a].member
           role == atx[a].row.role
           row == [members[m] EXCEPT !.status = "active", !.cred = NewCredential]
<1>1. /\ m \in Emails /\ atx[a].row \in MemberRows
      /\ members[m] \in MemberRows /\ members[m] # NoMember
      /\ atx[a].op = "reactivate" /\ atx'[a] # atx[a]
      /\ atx' \in [Callers -> {NoRequestYet} \cup AuthRows \cup ChangeRows \cup TeamRows]
      /\ \A b \in Callers : atx'[b] = atx[b] \/ atx'[b].op = "idle"
      /\ trail \subseteq trail' /\ creds \in Seq(KeyRows) /\ Len(creds) \in Nat
  <2>1. "reactivate" \in TeamOps BY DEF TeamOps
  <2>2. TeamCommit(a, "reactivate", "team.member_reactivated", "team.member_reactivate")
    BY DEF ReactivateTeamMemberCommit
  <2> QED BY <2>1, <2>2, CommitRow
<1>2. role \in TeamRoles BY <1>1 DEF MemberRows
<1>3. RoleScopes(role) \in SUBSET AllScopes BY <1>2, RoleScopesTyped
<1>4. members' = [members EXCEPT ![m] = row] /\ creds' = InsertCredential(RoleScopes(role))
  BY DEF ReactivateTeamMemberCommit, ReactivateWith
<1>5. /\ creds' \in Seq(KeyRows) /\ Len(creds') = Len(creds) + 1
      /\ NewCredential = Len(creds) + 1 /\ NewCredential \in 1..Len(creds')
      /\ creds'[NewCredential].scopes = RoleScopes(role)
      /\ \A d \in 1..Len(creds) : creds'[d] = creds[d]
  BY <1>1, <1>3, <1>4, KeyInserted
<1>6. /\ row \in MemberRows /\ row.cred = NewCredential /\ row.role = members[m].role /\ row.status = "active"
  <2>1. NewCredential \in Nat BY <1>1, <1>5
  <2> HIDE DEF m
  <2> QED BY <1>1, <2>1 DEF MemberRows
<1> HIDE DEF row
<1>7. TeamTyped' BY <1>1, <1>4, <1>5, <1>6 DEF TeamInv, TeamTyped
<1>8. KeyFollows(row, creds'[row.cred]) \/ \E b \in Callers : OvertakenCommit(b, m)
  <2>1. CASE role # members[m].role
    <3>1. OvertakenCommit(a, m) BY <1>1, <2>1 DEF OvertakenCommit, TeamOps
    <3> QED BY <3>1
  <2>2. CASE role = members[m].role BY <1>5, <1>6, <2>2 DEF KeyFollows
  <2> QED BY <2>1, <2>2
<1>9. \A n \in Emails \ {m} : members[n] # NoMember => Aged(creds[members[n].cred], creds'[members[n].cred])
  BY <1>5 DEF TeamInv, KeysInv, Aged
<1>11. row.cred > Len(creds) /\ row.cred \in 1..Len(creds') /\ Len(creds') >= Len(creds) BY <1>1, <1>5, <1>6
<1> HIDE DEF m, role
<1> QED BY <1>1, <1>4, <1>6, <1>7, <1>8, <1>9, <1>11, MemberWritten

\* A team starts without members.
LEMMA TeamInitInv == TeamInit /\ trail = {} => TeamInv
<1> SUFFICES ASSUME TeamInit, trail = {} PROVE TeamInv OBVIOUS
<1> DEFINE key == [scopes |-> AllScopes, revoked |-> FALSE, expired |-> FALSE]
<1>1. key \in KeyRows BY DEF KeyRows
<1>2. creds = <<key>> BY DEF TeamInit, CredentialInit
<1> HIDE DEF key
<1>3. creds \in Seq(KeyRows) BY <1>1, <1>2
<1>4. (\A m \in Emails : members[m] = NoMember) /\ members \in [Emails -> MemberRows \cup {NoMember}]
  BY DEF TeamInit
<1>5. /\ atx \in [Callers -> {NoRequestYet} \cup AuthRows \cup ChangeRows \cup TeamRows]
      /\ \A a \in Callers : atx[a].op = "idle"
  BY DEF TeamInit, CredentialInit, NoRequestYet
<1>6. TeamTyped BY <1>3, <1>4, <1>5 DEF TeamTyped
<1> QED BY <1>4, <1>5, <1>6 DEF TeamInv, KeysInv, OwnKeys, ChangesInv, ReadsInv, TeamOps

\* Every step keeps the invariant of the team.
LEMMA TeamStep == TeamInv /\ [TeamNext]_teamVars => TeamInv' /\ OnlyStaleLoses
<1> SUFFICES ASSUME TeamInv, [TeamNext]_teamVars PROVE TeamInv' /\ OnlyStaleLoses OBVIOUS
<1>1. CASE UNCHANGED teamVars
  BY <1>1 DEF teamVars, credState, TeamInv, TeamTyped, KeysInv, OwnKeys, ChangesInv, ReadsInv,
              OnlyStaleLoses, LinkedKeyFollows
<1>2. CASE CredentialNext /\ UNCHANGED members BY <1>2, CredentialKeepsInv
<1>3. ASSUME NEW a \in Callers, inviteTeamMember(a) PROVE TeamInv' /\ OnlyStaleLoses
  BY <1>3, InviteKeepsInv DEF inviteTeamMember
<1>4. ASSUME NEW a \in Callers, updateTeamMemberRole(a) PROVE TeamInv' /\ OnlyStaleLoses
  <2>1. PICK m \in Emails, r \in RoleChoices : UpdateTeamMemberRole(a, m, r) BY <1>4 DEF updateTeamMemberRole
  <2>2. r \in TeamRoles /\ members[m].status # "none" /\ "role" \in TeamOps
    BY <2>1 DEF UpdateTeamMemberRole, ValidTeamRole, TeamOps
  <2> QED BY <2>1, <2>2, MemberReadKeepsInv DEF UpdateTeamMemberRole
<1>5. ASSUME NEW a \in Callers, NEW m \in Emails, NEW op \in {"suspend", "remove", "reactivate"},
             members[m].status # "none", GetTeamMemberByID(a, op, m, "null")
      PROVE TeamInv' /\ OnlyStaleLoses
  <2>1. op \in TeamOps /\ op # "role" BY DEF TeamOps
  <2> QED BY <1>5, <2>1, MemberReadKeepsInv
<1>6. ASSUME NEW a \in Callers, suspendTeamMember(a) \/ removeTeamMember(a) \/ reactivateTeamMember(a)
      PROVE TeamInv' /\ OnlyStaleLoses
  BY <1>5, <1>6 DEF suspendTeamMember, removeTeamMember, reactivateTeamMember, SuspendTeamMember,
                    RemoveTeamMember, ReactivateTeamMember
<1>7. ASSUME NEW a \in Callers, SuspendTeamMemberCommit(a) PROVE TeamInv' /\ OnlyStaleLoses
  <2>1. "suspend" \in {"suspend", "remove"} OBVIOUS
  <2> QED BY <1>7, <2>1, LeaveKeepsInv DEF SuspendTeamMemberCommit
<1>8. ASSUME NEW a \in Callers, RemoveTeamMemberCommit(a) PROVE TeamInv' /\ OnlyStaleLoses
  <2>1. "remove" \in {"suspend", "remove"} OBVIOUS
  <2> QED BY <1>8, <2>1, LeaveKeepsInv DEF RemoveTeamMemberCommit
<1>9. ASSUME NEW a \in Callers, TeamRollback(a) PROVE TeamInv' /\ OnlyStaleLoses
  BY <1>9, EndKeepsInv DEF TeamRollback
<1> QED BY <1>1, <1>2, <1>3, <1>4, <1>6, <1>7, <1>8, <1>9, RoleKeepsInv, ReactivateKeepsInv DEF TeamNext

\* A key that follows its member's status and role goes on following them,
\* whatever the interleaving of requests and the operator console, unless a
\* commit acts on a row of the member that changed after its request read it.
THEOREM TeamKeysFollow == TeamSpec => KeysLostOnlyByStaleCommit
<1>1. TeamSpec => []TeamInv BY TeamInitInv, TeamStep, PTL DEF TeamSpec
<1>2. TeamInv /\ [TeamNext]_teamVars => [OnlyStaleLoses]_teamVars BY TeamStep
<1> QED BY <1>1, <1>2, PTL DEF TeamSpec, KeysLostOnlyByStaleCommit, OnlyStaleLoses
=============================================================================
