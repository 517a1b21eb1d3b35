--------------------------- MODULE MigrationJobs ---------------------------
(***************************************************************************)
(* The migration plane: a job imports the customers of another billing     *)
(* system while the cut-over lock suspends billing in the environment.     *)
(*                                                                         *)
(* StartMigration commits the lock and then imports the records one by one *)
(* inside the HTTP request, outside any transaction: a record costs one    *)
(* transaction that creates the customer and another that marks the record,*)
(* and the errors of the second are dropped.  Two such requests may run on *)
(* one job, and the server may stop between any two transactions.          *)
(***************************************************************************)
EXTENDS Naturals, FiniteSets, Customers

CONSTANTS Jobs, Records, Requests,
          RecordType,       \* migration_records.record_type
          SourceFields,     \* the well-formed fields of source_data
          ExternalCode,     \* the external_code in source_data
          MaxValidations,   \* bound: validations begun
          MaxFaults         \* bound: lost marks and server stops

ASSUME MigrationAssumption ==
    /\ RecordType \in [Records -> {"customer", "subscription"}]
    /\ SourceFields \in [Records -> SUBSET {"json", "name", "email", "type", "code"}]
    /\ ExternalCode \in [Records -> ExternalIds]
    /\ MaxValidations \in Nat /\ MaxFaults \in Nat

VARIABLES jobStatus,        \* migration_jobs.status, "none" before creation
          cutoverLocked,    \* migration_jobs.cutover_locked
          recStatus,        \* migration_records.status per job, "none" before insertion
          target,           \* migration_records.target_id
          mreq,             \* what each request in flight is doing
          validations, faults

migrationState == <<jobStatus, cutoverLocked, recStatus, target, mreq, validations, faults>>
migrationVars == <<migrationState, customers, trail>>

JobStatuses == {"draft", "validating", "validated", "importing", "completed", "failed",
                "rolled_back"}
RecordStatuses == {"pending", "valid", "invalid", "imported", "failed", "rolled_back"}
NoRequest == [op |-> "idle"]
NoTarget == "null"

MigrationTypeOK ==
    /\ jobStatus \in [Jobs -> JobStatuses \cup {"none"}]
    /\ cutoverLocked \in [Jobs -> BOOLEAN]
    /\ recStatus \in [Jobs -> [Records -> RecordStatuses \cup {"none"}]]
    /\ customers \subseteq ExternalIds

-----------------------------------------------------------------------------
(* Queries *)

CreateMigrationJobRow(j) ==
    jobStatus[j] = "none" /\ jobStatus' = [jobStatus EXCEPT ![j] = "draft"]

GetMigrationJobByIDForTenant(j) == jobStatus[j] # "none"

UpdateMigrationJobStatus(j, s) == jobStatus' = [jobStatus EXCEPT ![j] = s]

SetCutoverLock(j, b) == cutoverLocked' = [cutoverLocked EXCEPT ![j] = b]

\* The three guarded status changes: no row is returned, and the transaction
\* rolls back, when the guard fails on the current row.
SetMigrationJobStarted(j) ==
    jobStatus[j] \in {"validated", "importing"} /\ UpdateMigrationJobStatus(j, "importing")
CompleteMigrationJob(j) ==
    jobStatus[j] = "importing" /\ UpdateMigrationJobStatus(j, "completed")
RollbackMigrationJob(j) ==
    /\ jobStatus[j] \in {"importing", "completed", "failed"}
    /\ UpdateMigrationJobStatus(j, "rolled_back")

\* ON CONFLICT DO NOTHING: a record that is already there keeps its status.
CreateMigrationRecord(j, new) ==
    recStatus' = [recStatus EXCEPT ![j] = [r \in Records |->
        IF r \in new /\ @[r] = "none" THEN "pending" ELSE @[r]]]

ListMigrationRecords(j) == {r \in Records : recStatus[j][r] # "none"}

ListPendingMigrationRecords(j) == {r \in Records : recStatus[j][r] \in {"pending", "valid"}}

SetMigrationRecordStatus(j, r, s) == recStatus' = [recStatus EXCEPT ![j][r] = s]

SetMigrationRecordImported(j, r, x) ==
    /\ recStatus' = [recStatus EXCEPT ![j][r] = "imported"]
    /\ target' = [target EXCEPT ![j][r] = x]

RollbackMigrationRecords(j) ==
    recStatus' = [recStatus EXCEPT ![j] = [r \in Records |->
        IF @[r] = "imported" THEN "rolled_back" ELSE @[r]]]

HasActiveCutoverLock == \E j \in Jobs : cutoverLocked[j] /\ jobStatus[j] # "rolled_back"

\* Service.CheckCutoverLock: billing operations are refused while this holds.
CheckCutoverLock == HasActiveCutoverLock

-----------------------------------------------------------------------------
(* Service operations *)

CreateMigrationJob(j) ==
    /\ CreateMigrationJobRow(j)
    /\ AppendRows(emitOutboxTx("migration.job_created", j)
              \cup insertAuditTx("migration.job_create", j))
    /\ UNCHANGED <<cutoverLocked, recStatus, target, mreq, validations, faults, customers>>

BeginRequest(q, t) ==
    /\ mreq[q] = NoRequest
    /\ mreq' = [mreq EXCEPT ![q] = t]
    /\ UNCHANGED <<jobStatus, cutoverLocked, recStatus, target, faults, customers, trail>>

\* AddMigrationRecords reads the job, and inserts without locking it.
AddMigrationRecords(q, j, new) ==
    /\ GetMigrationJobByIDForTenant(j) /\ jobStatus[j] = "draft"
    /\ BeginRequest(q, [op |-> "add", job |-> j, new |-> new])
    /\ UNCHANGED validations

AddMigrationRecordsCommit(q) ==
    /\ mreq[q].op = "add"
    /\ mreq' = [mreq EXCEPT ![q] = NoRequest]
    /\ CreateMigrationRecord(mreq[q].job, mreq[q].new)
    /\ AppendRows(emitOutboxTx("migration.records_added", mreq[q].job))
    /\ UNCHANGED <<jobStatus, cutoverLocked, target, validations, faults, customers>>

validateCustomerRecord(r) == {"json", "name", "email", "type", "code"} \subseteq SourceFields[r]

ValidateMigrationJob(q, j) ==
    /\ jobStatus[j] \in {"draft", "validated"}
    /\ validations < MaxValidations /\ validations' = validations + 1
    /\ BeginRequest(q, [op |-> "validate", job |-> j])

\* The status and EVERY record of the job are overwritten, whatever a
\* request that started the job since has made of them.
ValidateMigrationJobCommit(q) ==
    LET j == mreq[q].job IN
    /\ mreq[q].op = "validate"
    /\ mreq' = [mreq EXCEPT ![q] = NoRequest]
    /\ UpdateMigrationJobStatus(j, "validated")
    /\ recStatus' = [recStatus EXCEPT ![j] = [r \in Records |->
           IF r \notin ListMigrationRecords(j) THEN @[r]
           ELSE IF validateCustomerRecord(r) THEN "valid" ELSE "invalid"]]
    /\ AppendRows(emitOutboxTx("migration.validated", j)
              \cup insertAuditTx("migration.job_validate", j))
    /\ UNCHANGED <<cutoverLocked, target, validations, faults, customers>>

\* StartMigration commits lock and status, then runs processMigrationBatch.
StartMigration(q, j) ==
    /\ mreq[q] = NoRequest
    /\ SetCutoverLock(j, TRUE)
    /\ SetMigrationJobStarted(j)
    /\ mreq' = [mreq EXCEPT ![q] = [op |-> "list", job |-> j]]
    /\ UNCHANGED <<recStatus, target, validations, faults, customers, trail>>

importing(q, phase) == mreq[q].op = phase

\* The loop of processMigrationBatch: list, import each, until none is left.
\* The final progress counts are left out.
processMigrationBatch(q) ==
    LET j == mreq[q].job
        batch == ListPendingMigrationRecords(j) IN
    /\ importing(q, "list")
    /\ mreq' = [mreq EXCEPT ![q] =
           IF batch = {} THEN NoRequest ELSE [op |-> "import", job |-> j, batch |-> batch]]
    /\ UNCHANGED <<jobStatus, cutoverLocked, recStatus, target, validations, faults, customers, trail>>

\* The record is done with: go on with the rest of the batch, or list again.
NextRecord(q, r) ==
    LET rest == mreq[q].batch \ {r} IN
    mreq' = [mreq EXCEPT ![q] =
        IF rest = {} THEN [op |-> "list", job |-> mreq[q].job]
        ELSE [op |-> "import", job |-> mreq[q].job, batch |-> rest]]

Importable(r) ==
    RecordType[r] = "customer" /\ {"json", "type", "code"} \subseteq SourceFields[r]

\* A subscription, malformed data, or a customer that already exists.
Unimportable(r) == ~Importable(r) \/ ExternalCode[r] \in customers

\* Mutant: the importer accepts a customer that already exists.
importOrReuse(q) ==
    \E r \in mreq[q].batch :
        /\ Importable(r)
        /\ customers' = customers \cup {ExternalCode[r]}
        /\ mreq' = [mreq EXCEPT ![q] = [op |-> "mark", job |-> @.job, batch |-> @.batch, rec |-> r]]
        /\ UNCHANGED <<jobStatus, cutoverLocked, recStatus, target, validations, faults, trail>>

\* importSingleRecord creates the customer; the mark is another transaction.
importSingleRecord(q) ==
    \E r \in mreq[q].batch :
        /\ Importable(r)
        /\ CreateCustomer(ExternalCode[r], "individual")
        /\ mreq' = [mreq EXCEPT ![q] = [op |-> "mark", job |-> @.job, batch |-> @.batch, rec |-> r]]
        /\ UNCHANGED <<jobStatus, cutoverLocked, recStatus, target, validations, faults>>

markRecordImported(q) ==
    /\ SetMigrationRecordImported(mreq[q].job, mreq[q].rec, ExternalCode[mreq[q].rec])
    /\ NextRecord(q, mreq[q].rec)
    /\ UNCHANGED <<jobStatus, cutoverLocked, validations, faults, customers, trail>>

\* Mutant: a failed record is put back to be tried again.
markRecordPending(q) ==
    \E r \in mreq[q].batch :
        /\ Unimportable(r)
        /\ SetMigrationRecordStatus(mreq[q].job, r, "pending")
        /\ NextRecord(q, r)
        /\ UNCHANGED <<jobStatus, cutoverLocked, target, validations, faults, customers, trail>>

markRecordFailed(q) ==
    \E r \in mreq[q].batch :
        /\ Unimportable(r)
        /\ SetMigrationRecordStatus(mreq[q].job, r, "failed")
        /\ NextRecord(q, r)
        /\ UNCHANGED <<jobStatus, cutoverLocked, target, validations, faults, customers, trail>>

\* A mark of either kind fails (its error is dropped), or the server stops in the request.
LoseMark(q) ==
    /\ faults < MaxFaults /\ faults' = faults + 1
    /\ \/ importing(q, "mark") /\ NextRecord(q, mreq[q].rec)
       \/ /\ importing(q, "import")
          /\ \E r \in mreq[q].batch : Unimportable(r) /\ NextRecord(q, r)
    /\ UNCHANGED <<jobStatus, cutoverLocked, recStatus, target, validations, customers, trail>>

StopRequest(q) ==
    /\ mreq[q] # NoRequest /\ faults < MaxFaults /\ faults' = faults + 1
    /\ mreq' = [mreq EXCEPT ![q] = NoRequest]
    /\ UNCHANGED <<jobStatus, cutoverLocked, recStatus, target, validations, customers, trail>>

CompleteMigration(j) ==
    /\ SetCutoverLock(j, FALSE)
    /\ CompleteMigrationJob(j)
    /\ AppendRows(insertAuditTx("migration.job_complete", j))
    /\ UNCHANGED <<recStatus, target, mreq, validations, faults, customers>>

\* Mutant: rolling back does not release the lock.
RollbackKeepsLock(j) ==
    /\ RollbackMigrationRecords(j)
    /\ RollbackMigrationJob(j)
    /\ UNCHANGED <<cutoverLocked, target, mreq, validations, faults, customers, trail>>

RollbackMigration(j) ==
    /\ SetCutoverLock(j, FALSE)
    /\ RollbackMigrationRecords(j)
    /\ RollbackMigrationJob(j)
    /\ AppendRows(emitOutboxTx("migration.rolled_back", j)
              \cup insertAuditTx("migration.job_rollback", j))
    /\ UNCHANGED <<target, mreq, validations, faults, customers>>

-----------------------------------------------------------------------------
(* Handlers and routes *)

createMigrationJob == \E j \in Jobs : CreateMigrationJob(j)
addMigrationRecords(q) ==
    \E j \in Jobs, new \in SUBSET Records : new # {} /\ AddMigrationRecords(q, j, new)
validateMigrationJob(q) == \E j \in Jobs : ValidateMigrationJob(q, j)
startMigration(q) == \E j \in Jobs : StartMigration(q, j)
completeMigration == \E j \in Jobs : CompleteMigration(j)
rollbackMigration == \E j \in Jobs : RollbackMigration(j)

MigrationInit ==
    /\ jobStatus = [j \in Jobs |-> "none"]
    /\ cutoverLocked = [j \in Jobs |-> FALSE]
    /\ recStatus = [j \in Jobs |-> [r \in Records |-> "none"]]
    /\ target = [j \in Jobs |-> [r \in Records |-> NoTarget]]
    /\ mreq = [q \in Requests |-> NoRequest]
    /\ validations = 0 /\ faults = 0
    /\ customers \in SUBSET ExternalIds
    /\ trail = {}

\* The steps of a request that is already running.
BatchStep(q) ==
    \/ processMigrationBatch(q)
    \/ importing(q, "import") /\ (importSingleRecord(q) \/ markRecordFailed(q))
    \/ importing(q, "mark") /\ markRecordImported(q)

MigrationNext ==
    \/ createMigrationJob \/ completeMigration \/ rollbackMigration
    \/ createCustomer /\ UNCHANGED migrationState
    \/ \E q \in Requests :
          \/ addMigrationRecords(q) \/ AddMigrationRecordsCommit(q)
          \/ validateMigrationJob(q) \/ ValidateMigrationJobCommit(q)
          \/ startMigration(q) \/ BatchStep(q)
          \/ LoseMark(q) \/ StopRequest(q)

MigrationSpec == MigrationInit /\ [][MigrationNext]_migrationVars

-----------------------------------------------------------------------------
(* Properties *)

\* The cut-over lock and the job agree under every race of validate, start,
\* complete and roll back: an importing job holds the lock, and a job that
\* holds it can still be started and completed, so billing is never suspended
\* by a job that no request can release.
LockFollowsJob ==
    \A j \in Jobs : /\ jobStatus[j] = "importing" => cutoverLocked[j]
                    /\ cutoverLocked[j] => jobStatus[j] \in {"importing", "validated"}

\* A record marked imported names a customer that exists, and no two records
\* name the same one, although two requests may import the same job, marks
\* may be lost and records may be validated again.
ImportsNameDistinctCustomers ==
    \A j, k \in Jobs, r, s \in Records :
        recStatus[j][r] = "imported" =>
            /\ target[j][r] \in customers
            /\ recStatus[k][s] = "imported" /\ target[j][r] = target[k][s]
               => <<j, r>> = <<k, s>>

\* The loop of processMigrationBatch ends although it lists its own job again
\* after every batch: every record it lists is settled, or a fault is spent.
BatchEnds ==
    \A q \in Requests :
        (importing(q, "list") \/ importing(q, "import") \/ importing(q, "mark"))
        ~> mreq[q] = NoRequest
=============================================================================
