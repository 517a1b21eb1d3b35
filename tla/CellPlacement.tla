--------------------------- MODULE CellPlacement ---------------------------
(***************************************************************************)
(* Cells, manual failover and planned cell migration.                      *)
(*                                                                         *)
(* Every operation is one READ COMMITTED transaction that reads rows,      *)
(* checks their status in Go, and then writes with WHERE id = $1 only.     *)
(* Nothing locks the rows between the read and the writes, so each         *)
(* operation is two steps of an operator: one that reads and checks, one   *)
(* that commits all its writes.  `optx' holds what an operator has read.   *)
(***************************************************************************)
EXTENDS Naturals, FiniteSets, Trail

CONSTANTS Providers, Cells, RegionOf, CellOperators,
          NewCells,             \* the cells that do not exist yet
          MaxFailovers,         \* bound: failovers ever initiated
          MaxCellMigrations,    \* bound: cell migrations ever planned
          MaxManual             \* bound: cells changed or assigned by hand

ASSUME PlacementAssumption ==
    /\ RegionOf \in [Cells -> Nat]
    /\ MaxFailovers \in Nat
    /\ MaxCellMigrations \in Nat
    /\ MaxManual \in Nat
    /\ NewCells \subseteq Cells /\ NewCells # Cells

VARIABLES cellStatus,       \* cells.status, "none" before CreateCell
          cellOf,           \* providers.cell_id
          failovers,        \* cell_failovers, a row per id
          cellMigrations,   \* cell_migrations, a row per id
          optx              \* the open transaction of each operator

placementState == <<cellStatus, cellOf, failovers, cellMigrations, optx>>
placementVars == <<placementState, trail>>

FailoverIds == {<<"fo", n>> : n \in 1..MaxFailovers}
CellMigrationIds == {<<"cm", n>> : n \in 1..MaxCellMigrations}

\* domain cell statuses, failover statuses and cell migration statuses.
CellStatuses == {"active", "draining", "inactive"}
FailoverStatuses == {"initiated", "fenced", "switched", "replaying", "completed", "aborted"}
CellMigrationStatuses ==
    {"planned", "prechecking", "ready", "migrating", "completed", "failed", "cancelled"}

NoRow == [status |-> "none"]
Idle == [op |-> "idle"]

PlacementTypeOK ==
    /\ cellStatus \in [Cells -> CellStatuses \cup {"none"}]
    /\ cellOf \in [Providers -> Cells]
    /\ \A f \in FailoverIds : failovers[f].status \in FailoverStatuses \cup {"none"}
    /\ \A m \in CellMigrationIds :
          cellMigrations[m].status \in CellMigrationStatuses \cup {"none"}

-----------------------------------------------------------------------------
(* Queries *)

ValidCellStatus(s) == s \in CellStatuses

GetCellByID(c) == cellStatus[c] # "none"

GetCellByProviderID(p) == cellOf[p]

CreateCellRow(c, s) == cellStatus' = [cellStatus EXCEPT ![c] = s]

UpdateCellStatus(c, s) == cellStatus' = [cellStatus EXCEPT ![c] = s]

UpdateProviderCell(p, c) == cellOf' = [cellOf EXCEPT ![p] = c]

GetActiveCellFailover(p) ==
    {f \in FailoverIds : /\ failovers[f].status \notin {"none", "completed", "aborted"}
                         /\ failovers[f].provider = p}

CreateCellFailover(p, from, to) ==
    \E f \in FailoverIds :
        /\ failovers[f] = NoRow
        /\ \A n \in 1..MaxFailovers : n < f[2] => failovers[<<"fo", n>>] # NoRow
        /\ failovers' = [failovers EXCEPT ![f] =
               [status |-> "initiated", provider |-> p, from |-> from, to |-> to]]
        /\ AppendRows(emitOutboxTx("failover.initiated", f)
                  \cup insertAuditTx("failover.initiate", f))

UpdateCellFailoverStatus(f, s) == failovers' = [failovers EXCEPT ![f].status = s]

GetActiveCellMigration(p) ==
    {m \in CellMigrationIds :
        /\ cellMigrations[m].status \notin {"none", "completed", "failed", "cancelled"}
        /\ cellMigrations[m].provider = p}

CreateCellMigrationRow(p, from, to) ==
    \E m \in CellMigrationIds :
        /\ cellMigrations[m] = NoRow
        /\ \A n \in 1..MaxCellMigrations : n < m[2] => cellMigrations[<<"cm", n>>] # NoRow
        /\ cellMigrations' = [cellMigrations EXCEPT ![m] =
               [status |-> "planned", provider |-> p, from |-> from, to |-> to,
                precheck_passed |-> FALSE]]
        /\ AppendRows(emitOutboxTx("cell_migration.planned", m)
                  \cup insertAuditTx("cell_migration.plan", m))

UpdateCellMigrationStatus(m, s) ==
    cellMigrations' = [cellMigrations EXCEPT ![m].status = s]

SetCellMigrationPrecheck(row) == [row EXCEPT !.precheck_passed = TRUE]

-----------------------------------------------------------------------------
(* Transactions of an operator *)

requireStatus(current, allowed) == current \in allowed

\* The reads and the checks of an operation have succeeded.
BeginTx(o, t) ==
    /\ optx[o] = Idle
    /\ optx' = [optx EXCEPT ![o] = t]
    /\ UNCHANGED <<cellStatus, cellOf, failovers, cellMigrations, trail>>

\* WithOperator commits: the writes below it become visible together.
CommitTx(o, op) ==
    /\ optx[o].op = op
    /\ optx' = [optx EXCEPT ![o] = Idle]

-----------------------------------------------------------------------------
(* Cells *)

\* Manual changes of a cell or an assignment, each counted once per cell.
Manual == {r \in trail : r[2] \in {"cell.status_change", "provider.cell_assign"}}
ManualBudget(action, c) == ~Audited(action, c) /\ Cardinality(Manual) < MaxManual

\* Service.CreateCell: a cell may be created in any valid status.
CreateCell(c, s) ==
    /\ ValidCellStatus(s)
    /\ cellStatus[c] = "none"
    /\ CreateCellRow(c, s)
    /\ AppendRows(emitOutboxTx("cell.created", c) \cup insertAuditTx("cell.create", c))
    /\ UNCHANGED <<cellOf, failovers, cellMigrations, optx>>

\* Service.UpdateCellStatus: any status to any status, in one UPDATE.
ChangeCellStatus(c, s) ==
    /\ ValidCellStatus(s)
    /\ GetCellByID(c)
    /\ ManualBudget("cell.status_change", c)
    /\ UpdateCellStatus(c, s)
    /\ AppendRows(emitOutboxTx("cell.status_changed", c)
              \cup insertAuditTx("cell.status_change", c))
    /\ UNCHANGED <<cellOf, failovers, cellMigrations, optx>>

\* Service.AssignProviderCell: the target must be active; the region is not compared.
AssignProviderCell(o, p, c) ==
    /\ cellStatus[c] = "active"
    /\ ManualBudget("provider.cell_assign", c)
    /\ BeginTx(o, [op |-> "assign", provider |-> p, to |-> c])

AssignProviderCellCommit(o) ==
    /\ CommitTx(o, "assign")
    /\ UpdateProviderCell(optx[o].provider, optx[o].to)
    /\ AppendRows(emitOutboxTx("provider.cell_assigned", optx[o].provider)
              \cup insertAuditTx("provider.cell_assign", optx[o].to))
    /\ UNCHANGED <<cellStatus, failovers, cellMigrations>>

\* Service.CheckCellDraining: the write fence that billing operations consult.
CheckCellDraining(p) == cellStatus[GetCellByProviderID(p)] = "draining"

-----------------------------------------------------------------------------
(* Failover *)

\* InitiateFailover up to its checks.  It never compares from with the
\* provider's cell.
InitiateFailover(o, p, from, to) ==
    /\ from # to
    /\ GetActiveCellFailover(p) = {}
    /\ GetCellByID(from)
    /\ RegionOf[from] = RegionOf[to]
    /\ cellStatus[to] = "active"
    /\ BeginTx(o, [op |-> "initiate", provider |-> p, from |-> from, to |-> to])

InitiateFailoverCommit(o) ==
    /\ CommitTx(o, "initiate")
    /\ CreateCellFailover(optx[o].provider, optx[o].from, optx[o].to)
    /\ UNCHANGED <<cellStatus, cellOf, cellMigrations>>

\* GetCellFailoverByID: the row an operation on a failover starts from.
GetCellFailoverByID(o, op, f) ==
    BeginTx(o, [op |-> op, id |-> f, seen |-> failovers[f].status])

FenceFailover(o, f) ==
    /\ requireStatus(failovers[f].status, {"initiated"})
    /\ GetCellFailoverByID(o, "fence", f)

FenceFailoverCommit(o) ==
    LET f == optx[o].id IN
    /\ CommitTx(o, "fence")
    /\ UpdateCellStatus(failovers[f].from, "draining")
    /\ UpdateCellFailoverStatus(f, "fenced")
    /\ AppendRows(emitOutboxTx("failover.fenced", f) \cup insertAuditTx("failover.fence", f))
    /\ UNCHANGED <<cellOf, cellMigrations>>

SwitchFailover(o, f) ==
    /\ requireStatus(failovers[f].status, {"fenced"})
    /\ GetCellFailoverByID(o, "switch", f)

SwitchFailoverCommit(o) ==
    LET f == optx[o].id IN
    /\ CommitTx(o, "switch")
    /\ UpdateProviderCell(failovers[f].provider, failovers[f].to)
    /\ UpdateCellFailoverStatus(f, "switched")
    /\ AppendRows(emitOutboxTx("failover.switched", f) \cup insertAuditTx("failover.switch", f))
    /\ UNCHANGED <<cellStatus, cellMigrations>>

\* CompleteFailover records replay counts that nothing reads back; they are left out.
CompleteFailover(o, f) ==
    /\ requireStatus(failovers[f].status, {"switched", "replaying"})
    /\ GetCellFailoverByID(o, "complete", f)

CompleteFailoverCommit(o) ==
    LET f == optx[o].id IN
    /\ CommitTx(o, "complete")
    /\ UpdateCellFailoverStatus(f, "completed")
    /\ AppendRows(emitOutboxTx("failover.completed", f)
              \cup insertAuditTx("failover.complete", f))
    /\ UNCHANGED <<cellStatus, cellOf, cellMigrations>>

AbortFailover(o, f) ==
    /\ failovers[f].status \notin {"none", "switched", "completed", "aborted"}
    /\ GetCellFailoverByID(o, "abort", f)

\* The source cell is reactivated when the row READ was fenced.
AbortFailoverCommit(o) ==
    LET f == optx[o].id IN
    /\ CommitTx(o, "abort")
    /\ IF optx[o].seen = "fenced"
       THEN UpdateCellStatus(failovers[f].from, "active")
       ELSE UNCHANGED cellStatus
    /\ UpdateCellFailoverStatus(f, "aborted")
    /\ AppendRows(emitOutboxTx("failover.aborted", f) \cup insertAuditTx("failover.abort", f))
    /\ UNCHANGED <<cellOf, cellMigrations>>

-----------------------------------------------------------------------------
(* Planned cell migration *)

CreateCellMigration(o, p, from, to) ==
    /\ from # to
    /\ GetActiveCellMigration(p) = {}
    /\ GetActiveCellFailover(p) = {}
    /\ GetCellByID(from)
    /\ RegionOf[from] = RegionOf[to]
    /\ cellStatus[to] = "active"
    /\ BeginTx(o, [op |-> "plan", provider |-> p, from |-> from, to |-> to])

CreateCellMigrationCommit(o) ==
    /\ CommitTx(o, "plan")
    /\ CreateCellMigrationRow(optx[o].provider, optx[o].from, optx[o].to)
    /\ UNCHANGED <<cellStatus, cellOf, failovers>>

GetCellMigrationByID(o, op, m) == BeginTx(o, [op |-> op, id |-> m])

PrecheckMigration(o, m) ==
    /\ requireStatus(cellMigrations[m].status, {"planned"})
    /\ GetCellMigrationByID(o, "precheck", m)

\* planned -> prechecking -> ready inside one transaction; the hash and the
\* record count of the exported rows are left out.
PrecheckMigrationCommit(o) ==
    LET m == optx[o].id IN
    /\ CommitTx(o, "precheck")
    /\ cellMigrations' = [cellMigrations EXCEPT ![m] =
           [SetCellMigrationPrecheck(@) EXCEPT !.status = "ready"]]
    /\ AppendRows(emitOutboxTx("cell_migration.prechecked", m)
              \cup insertAuditTx("cell_migration.precheck", m))
    /\ UNCHANGED <<cellStatus, cellOf, failovers>>

\* Mutant: only finished migrations are refused.
ExecuteUnchecked(o, m) ==
    /\ cellMigrations[m].status \notin {"none", "completed", "cancelled"}
    /\ GetCellMigrationByID(o, "execute", m)

ExecuteMigration(o, m) ==
    /\ requireStatus(cellMigrations[m].status, {"ready"})
    /\ cellMigrations[m].precheck_passed
    /\ GetCellMigrationByID(o, "execute", m)

ExecuteMigrationCommit(o) ==
    LET m == optx[o].id IN
    /\ CommitTx(o, "execute")
    /\ UpdateCellStatus(cellMigrations[m].from, "draining")
    /\ UpdateProviderCell(cellMigrations[m].provider, cellMigrations[m].to)
    /\ UpdateCellMigrationStatus(m, "completed")
    /\ AppendRows(emitOutboxTx("cell_migration.completed", m)
              \cup insertAuditTx("cell_migration.execute", m))
    /\ UNCHANGED failovers

CancelMigration(o, m) ==
    /\ cellMigrations[m].status \notin {"none", "completed", "migrating", "cancelled"}
    /\ GetCellMigrationByID(o, "cancel", m)

CancelMigrationCommit(o) ==
    LET m == optx[o].id IN
    /\ CommitTx(o, "cancel")
    /\ UpdateCellMigrationStatus(m, "cancelled")
    /\ AppendRows(emitOutboxTx("cell_migration.cancelled", m)
              \cup insertAuditTx("cell_migration.cancel", m))
    /\ UNCHANGED <<cellStatus, cellOf, failovers>>

-----------------------------------------------------------------------------
(* Handlers: each takes its inputs from the request *)

createCell == \E c \in Cells, s \in CellStatuses : CreateCell(c, s)
updateCellStatus == \E c \in Cells, s \in CellStatuses : ChangeCellStatus(c, s)
assignProviderCell(o) == \E p \in Providers, c \in Cells : AssignProviderCell(o, p, c)
initiateFailover(o) ==
    \E p \in Providers, from, to \in Cells : InitiateFailover(o, p, from, to)
fenceFailover(o) == \E f \in FailoverIds : FenceFailover(o, f)
switchFailover(o) == \E f \in FailoverIds : SwitchFailover(o, f)
completeFailover(o) == \E f \in FailoverIds : CompleteFailover(o, f)
abortFailover(o) == \E f \in FailoverIds : AbortFailover(o, f)
createCellMigration(o) ==
    \E p \in Providers, from, to \in Cells : CreateCellMigration(o, p, from, to)
precheckMigration(o) == \E m \in CellMigrationIds : PrecheckMigration(o, m)
executeMigration(o) == \E m \in CellMigrationIds : ExecuteMigration(o, m)
cancelMigration(o) == \E m \in CellMigrationIds : CancelMigration(o, m)

PlacementInit ==
    /\ cellStatus = [c \in Cells |-> IF c \in NewCells THEN "none" ELSE "active"]
    /\ cellOf \in [Providers -> Cells \ NewCells]
    /\ failovers = [f \in FailoverIds |-> NoRow]
    /\ cellMigrations = [m \in CellMigrationIds |-> NoRow]
    /\ optx = [o \in CellOperators |-> Idle]
    /\ trail = {}

PlacementRequest(o) ==
    \/ assignProviderCell(o) \/ initiateFailover(o) \/ fenceFailover(o)
    \/ switchFailover(o) \/ completeFailover(o) \/ abortFailover(o)
    \/ createCellMigration(o) \/ precheckMigration(o) \/ executeMigration(o)
    \/ cancelMigration(o)

PlacementCommit(o) ==
    \/ AssignProviderCellCommit(o) \/ InitiateFailoverCommit(o)
    \/ FenceFailoverCommit(o) \/ SwitchFailoverCommit(o)
    \/ CompleteFailoverCommit(o) \/ AbortFailoverCommit(o)
    \/ CreateCellMigrationCommit(o) \/ PrecheckMigrationCommit(o)
    \/ ExecuteMigrationCommit(o) \/ CancelMigrationCommit(o)

\* The operator routes of cells, failovers and cell migrations.
PlacementNext ==
    \/ createCell
    \/ updateCellStatus
    \/ \E o \in CellOperators : PlacementRequest(o) \/ PlacementCommit(o)

PlacementSpec == PlacementInit /\ [][PlacementNext]_placementVars

-----------------------------------------------------------------------------
(* Properties *)

\* The stages come in order, whatever the reads of an operator have become by
\* its commit: nothing is switched that was never fenced, nothing completed
\* that was never switched, and no migration executed without its precheck.
StagesInOrder ==
    /\ \A f \in FailoverIds :
          /\ Happened("failover.switched", f) => Happened("failover.fenced", f)
          /\ Happened("failover.completed", f) => Happened("failover.switched", f)
    /\ \A m \in CellMigrationIds :
          Happened("cell_migration.completed", m) => Happened("cell_migration.prechecked", m)

\* MIGRATION_RECOVERY_CONTRACT.md:13-14: a provider that is not assigned by
\* hand changes cell only while its failover reads `fenced', with its source
\* cell still refusing writes, or while its migration reads `ready'.  The code
\* checks the status it read earlier, and an abort in between, of this failover
\* or of another one out of the cell, lifts the fence.
MoveIsFenced ==
    [][\A p \in Providers : cellOf'[p] # cellOf[p] =>
         \/ \E o \in CellOperators : optx[o].op = "assign" /\ optx'[o] = Idle
         \/ \E f \in FailoverIds : /\ failovers[f].status = "fenced"
                                   /\ failovers[f].provider = p
                                   /\ failovers[f].to = cellOf'[p]
                                   /\ \/ cellStatus[failovers[f].from] = "draining"
                                      \/ Happened("cell.status_changed", failovers[f].from)
         \/ \E m \in CellMigrationIds : /\ cellMigrations[m].status = "ready"
                                        /\ cellMigrations[m].provider = p
                                        /\ cellMigrations[m].to = cellOf'[p]
      ]_placementVars
=============================================================================
