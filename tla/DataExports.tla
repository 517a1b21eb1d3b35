---------------------------- MODULE DataExports ----------------------------
(***************************************************************************)
(* Data exports and deletion proofs.  A request commits the export row in  *)
(* one transaction, builds and stores the snapshot in a second, marks a    *)
(* failure in a third and, for a deletion, signs the snapshot in a fourth; *)
(* the server may stop between any two.  A snapshot is represented by the  *)
(* number of changes the tenant's data had seen when it was taken.         *)
(***************************************************************************)
EXTENDS Naturals, Trail

CONSTANTS Exports,          \* bound: export requests, each with its own id
          MaxDataChanges    \* bound: changes of the tenant's data

VARIABLES exports,      \* id -> NoExport or [status, type, hash]
          exporting,    \* id -> the step its request is about to take
          deletions,    \* deletion proofs: [export, hash]
          dataVersion

exportState == <<exports, exporting, deletions, dataVersion>>
exportVars == <<exportState, trail>>

NoExport == [status |-> "none"]
NoHash == "null"
ExportTypes == {"full", "audit_only", "billing_only"}

-----------------------------------------------------------------------------
(* Queries: none of the updates looks at the status it replaces *)

CreateDataExport(e, type) ==
    /\ exports[e] = NoExport
    /\ exports' = [exports EXCEPT ![e] = [status |-> "requested", type |-> type, hash |-> NoHash]]

\* SetDataExportProcessing runs in the same transaction as CompleteDataExport:
\* no other transaction ever reads "processing".
SetDataExportProcessing(row) == [row EXCEPT !.status = "processing"]

CompleteDataExport(e, hash) ==
    exports' = [exports EXCEPT ![e] =
        [SetDataExportProcessing(@) EXCEPT !.status = "completed", !.hash = hash]]

FailDataExport(e) == exports' = [exports EXCEPT ![e].status = "failed"]

CreateDeletionProof(e, hash) == deletions' = deletions \cup {[export |-> e, hash |-> hash]}

GetDataExportByID(e) == exports[e]

-----------------------------------------------------------------------------
(* Service *)

RequestDataExport(e, type, then) ==
    /\ type \in ExportTypes
    /\ CreateDataExport(e, type)
    /\ exporting' = [exporting EXCEPT ![e] = then]
    /\ AppendRows(emitOutboxTx("data_export.requested", e) \cup insertAuditTx("data_export.request", e))
    /\ UNCHANGED <<deletions, dataVersion>>

\* Collect, hash and store; a failed query rolls the transaction back.
processDataExport(e) ==
    /\ exporting[e] \in {"export", "delete"}
    /\ \/ /\ CompleteDataExport(e, dataVersion)
          /\ AppendRows(insertAuditTx("data_export.complete", e))
          /\ exporting' = [exporting EXCEPT ![e] = IF @ = "delete" THEN "sign" ELSE "done"]
       \/ exporting' = [exporting EXCEPT ![e] = "fail"] /\ UNCHANGED <<exports, trail>>
    /\ UNCHANGED <<deletions, dataVersion>>

\* Best effort: its own failure is ignored.
markExportFailed(e) ==
    /\ exporting[e] = "fail"
    /\ FailDataExport(e) \/ UNCHANGED exports
    /\ exporting' = [exporting EXCEPT ![e] = "done"]
    /\ UNCHANGED <<deletions, dataVersion, trail>>

\* The proof signs the hash of the export it has just made.
RequestDeletionProof(e) ==
    /\ exporting[e] = "sign"
    /\ CreateDeletionProof(e, GetDataExportByID(e).hash)
    /\ AppendRows(emitOutboxTx("data_deletion.completed", e)
                  \cup insertAuditTx("data_deletion.complete", e))
    /\ exporting' = [exporting EXCEPT ![e] = "done"]
    /\ UNCHANGED <<exports, dataVersion>>

RequestDeletion(e) == RequestDataExport(e, "full", "delete")

-----------------------------------------------------------------------------
(* Handlers, the tenant's own writes, and a server that stops *)

requestDataExport(e) == \E type \in ExportTypes : RequestDataExport(e, type, "export")
requestDeletion(e) == RequestDeletion(e)

ChangeTenantData ==
    /\ dataVersion < MaxDataChanges /\ dataVersion' = dataVersion + 1
    /\ UNCHANGED <<exports, exporting, deletions, trail>>

StopExport(e) ==
    /\ exporting[e] \in {"export", "delete", "fail", "sign"}
    /\ exporting' = [exporting EXCEPT ![e] = "done"]
    /\ UNCHANGED <<exports, deletions, dataVersion, trail>>

ExportInit ==
    /\ exports = [e \in Exports |-> NoExport]
    /\ exporting = [e \in Exports |-> "idle"]
    /\ deletions = {} /\ dataVersion = 0

ExportNext ==
    \/ ChangeTenantData
    \/ \E e \in Exports :
          \/ requestDataExport(e) \/ requestDeletion(e) \/ processDataExport(e)
          \/ markExportFailed(e) \/ RequestDeletionProof(e) \/ StopExport(e)

ExportSpec == ExportInit /\ trail = {} /\ [][ExportNext]_exportVars

-----------------------------------------------------------------------------
(* Properties *)

\* A proof of deletion names the snapshot its own export stored, whatever the
\* tenant wrote and however the request was interrupted (data_export.go: "the
\* proof ... provides verifiable evidence of what was exported").
ProofNamesExport ==
    \A p \in deletions :
        /\ exports[p.export].status = "completed"
        /\ exports[p.export].hash = p.hash
=============================================================================
