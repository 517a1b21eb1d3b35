------------------------------ MODULE QuotaLedger ------------------------------
(***************************************************************************)
(* internal/service/quota.go with db/queries/quota.sql: the hard quota of  *)
(* one (subscription, quota_key).  Every call is a READ COMMITTED          *)
(* transaction: each of its statements sees the rows committed when the    *)
(* statement starts, its own writes become visible at Commit.  A statement *)
(* that meets a row written by an open transaction waits for it to end.    *)
(***************************************************************************)
EXTENDS Integers, FiniteSets, FiniteSetsExt

CONSTANTS
    Callers,   \* request goroutines
    Ids,       \* caller-supplied reservation ids
    Timed,     \* reservations made with an expires_at
    Amounts,   \* amounts requested (the handler rejects amount <= 0)
    Limits,    \* limit values an operator sets
    NoLimit,   \* no quota_limits row
    NoId

ASSUME CallersAssumption == IsFiniteSet(Callers) /\ Callers # {}
ASSUME IdsAssumption == IsFiniteSet(Ids) /\ Timed \subseteq Ids /\ NoId \notin Ids
ASSUME AmountsAssumption == IsFiniteSet(Amounts) /\ Amounts \subseteq Nat \ {0}
ASSUME LimitsAssumption ==
    IsFiniteSet(Limits) /\ Limits # {} /\ Limits \subseteq Nat /\ NoLimit \notin Nat

VARIABLES
    limit,    \* quota_limits.limit_value, or NoLimit
    status,   \* quota_reservations.status as committed, or "none"
    amount,   \* quota_reservations.amount
    due,      \* rows whose expires_at has passed
    outbox,   \* committed outbox events of the ledger: <<id, status announced>>
    step,     \* where a caller's transaction is
    op,       \* the call it makes
    target,   \* the reservation it is about
    asked,    \* the amount it asks for
    sweep,    \* the expiry sweep's transaction: "idle" or "open"
    todo,     \* rows its UPDATE has still to visit
    swept     \* rows its UPDATE has written, not committed yet

ledger == <<status, amount, due, outbox>>
txVars == <<step, op, target, asked>>
sweepVars == <<sweep, todo, swept>>
quotaVars == <<limit, status, amount, due, outbox, step, op, target, asked,
          sweep, todo, swept>>

Statuses == {"none", "reserved", "committed", "released", "expired"}
Settled == {"committed", "released", "expired"}
Ops == {"reserved", "committed", "released"}
Steps == {"idle", "begun", "checked", "written"}

QuotaTypeOK ==
    /\ limit \in Limits \cup {NoLimit}
    /\ status \in [Ids -> Statuses]
    /\ amount \in [Ids -> Amounts \cup {0}]
    /\ due \in SUBSET Ids
    /\ outbox \in SUBSET (Ids \X Ops)
    /\ step \in [Callers -> Steps]
    /\ op \in [Callers -> Ops]
    /\ target \in [Callers -> Ids \cup {NoId}]
    /\ asked \in [Callers -> Amounts \cup {0}]
    /\ sweep \in {"idle", "open"}
    /\ todo \in SUBSET Ids
    /\ swept \in SUBSET Ids

QuotaInit ==
    /\ limit = NoLimit
    /\ status = [i \in Ids |-> "none"]
    /\ amount = [i \in Ids |-> 0]
    /\ due = {}
    /\ outbox = {}
    /\ step = [c \in Callers |-> "idle"]
    /\ op = [c \in Callers |-> "reserved"]
    /\ target = [c \in Callers |-> NoId]
    /\ asked = [c \in Callers |-> 0]
    /\ sweep = "idle"
    /\ todo = {}
    /\ swept = {}

-------------------------------------------------------------------------------
(* The limit *)

\* SetQuotaLimit: one upsert; an existing row is overwritten.
SetQuotaLimit(n) ==
    /\ limit' = n
    /\ UNCHANGED <<ledger, txVars, sweepVars>>

\* DeleteQuotaLimit: the reservations stay.
DeleteQuotaLimit ==
    /\ limit # NoLimit
    /\ limit' = NoLimit
    /\ UNCHANGED <<ledger, txVars, sweepVars>>

-------------------------------------------------------------------------------
(* What the statements read *)

\* The rows the CTE current_usage adds up.
Counted == {i \in Ids : status[i] \in {"reserved", "committed"}}

\* COALESCE(SUM(amount), 0)
CurrentUsage == MapThenSumSet(LAMBDA i : amount[i], Counted)

\* Mutant: the comparison forgets the amount asked for.
MutWithinLimit(n) == limit # NoLimit /\ CurrentUsage <= limit

\* WHERE current_usage.total + $5 <= ql.limit_value; no limit row, no row.
WithinLimit(n) == limit # NoLimit /\ CurrentUsage + n <= limit

\* An open transaction has written the row of reservation i.
Locked(i) ==
    \/ i \in swept
    \/ \E c \in Callers : step[c] = "written" /\ target[c] = i

-------------------------------------------------------------------------------
(* A transaction *)

EndTx(c) ==
    /\ step' = [step EXCEPT ![c] = "idle"]
    /\ target' = [target EXCEPT ![c] = NoId]
    /\ asked' = [asked EXCEPT ![c] = 0]
    /\ UNCHANGED op

Advance(c, s) ==
    /\ step' = [step EXCEPT ![c] = s]
    /\ UNCHANGED <<op, target, asked>>

\* WithTenant: BEGIN.  Commit and release know the row's id from a reserve.
Begin(c) ==
    /\ step[c] = "idle"
    /\ \E o \in Ops, i \in Ids, n \in Amounts :
          /\ o # "reserved" => status[i] # "none"
          /\ op' = [op EXCEPT ![c] = o]
          /\ target' = [target EXCEPT ![c] = i]
          /\ asked' = [asked EXCEPT ![c] = IF o = "reserved" THEN n ELSE 0]
    /\ step' = [step EXCEPT ![c] = "begun"]
    /\ UNCHANGED <<limit, ledger, sweepVars>>

\* ReserveQuota: GetQuotaReservationByTxID.  An existing reservation, whatever
\* its status and amount, is the answer; otherwise go on to the insert.
ReserveLookup(c) ==
    /\ step[c] = "begun" /\ op[c] = "reserved"
    /\ IF status[target[c]] # "none" THEN EndTx(c) ELSE Advance(c, "checked")
    /\ UNCHANGED <<limit, ledger, sweepVars>>

\* ReserveQuota: the CTE insert.  A taken id is a unique violation; a usage
\* that would pass the limit inserts nothing (ErrQuotaExceeded).  Another
\* transaction's open insert of the same id is waited for.
ReserveInsert(c) ==
    /\ step[c] = "checked" /\ op[c] = "reserved"
    /\ ~ Locked(target[c])
    /\ IF status[target[c]] = "none" /\ WithinLimit(asked[c])
       THEN Advance(c, "written")
       ELSE EndTx(c)
    /\ UNCHANGED <<limit, ledger, sweepVars>>

\* CommitQuota, ReleaseQuota: GetQuotaReservationByID, status # reserved is a
\* conflict.
SettleRead(c) ==
    /\ step[c] = "begun" /\ op[c] # "reserved"
    /\ IF status[target[c]] = "reserved" THEN Advance(c, "checked") ELSE EndTx(c)
    /\ UNCHANGED <<limit, ledger, sweepVars>>

\* CommitQuota, ReleaseQuota: UPDATE ... WHERE id = $1 AND status = 'reserved'.
SettleUpdate(c) ==
    /\ step[c] = "checked" /\ op[c] # "reserved"
    /\ ~ Locked(target[c])
    /\ IF status[target[c]] = "reserved" THEN Advance(c, "written") ELSE EndTx(c)
    /\ UNCHANGED <<limit, ledger, sweepVars>>

\* Mutant: the event is left out of the release's transaction.
MutCommitTx(c) ==
    /\ step[c] = "written"
    /\ status' = [status EXCEPT ![target[c]] = op[c]]
    /\ amount' = IF op[c] = "reserved"
                 THEN [amount EXCEPT ![target[c]] = asked[c]] ELSE amount
    /\ outbox' = IF op[c] = "released" THEN outbox
                 ELSE outbox \cup {<<target[c], op[c]>>}
    /\ EndTx(c)
    /\ UNCHANGED <<limit, due, sweepVars>>

\* COMMIT: the row, its outbox event and its audit record together.
CommitTx(c) ==
    /\ step[c] = "written"
    /\ status' = [status EXCEPT ![target[c]] = op[c]]
    /\ amount' = IF op[c] = "reserved"
                 THEN [amount EXCEPT ![target[c]] = asked[c]] ELSE amount
    /\ outbox' = outbox \cup {<<target[c], op[c]>>}
    /\ EndTx(c)
    /\ UNCHANGED <<limit, due, sweepVars>>

\* ROLLBACK: a later statement fails, the request is cancelled, a crash.
Abort(c) ==
    /\ step[c] \in {"begun", "checked", "written"}
    /\ EndTx(c)
    /\ UNCHANGED <<limit, ledger, sweepVars>>

-------------------------------------------------------------------------------
(* Expiry *)

\* expires_at of a reservation passes.
Elapse(i) ==
    /\ i \in Timed \ due
    /\ status[i] = "reserved"
    /\ due' = due \cup {i}
    /\ UNCHANGED <<limit, status, amount, outbox, txVars, sweepVars>>

\* RecoverExpiredReservations: the UPDATE's snapshot of the past-due rows.
SweepBegin ==
    /\ sweep = "idle"
    /\ {i \in due : status[i] = "reserved"} # {}
    /\ sweep' = "open"
    /\ todo' = {i \in due : status[i] = "reserved"}
    /\ UNCHANGED <<limit, ledger, txVars, swept>>

\* Mutant: the sweep writes the rows of its snapshot without looking again.
MutSweepRow(i) ==
    /\ i \in todo
    /\ ~ Locked(i)
    /\ todo' = todo \ {i}
    /\ swept' = swept \cup {i}
    /\ UNCHANGED <<limit, ledger, txVars, sweep>>

\* Mutant: the sweep passes over a row that is locked when it gets there, and
\* counts it as visited for good.
MutSweepSkipsLocked(i) ==
    /\ i \in todo
    /\ todo' = todo \ {i}
    /\ UNCHANGED <<limit, ledger, txVars, sweep, swept>>

\* It visits a row when no open transaction holds it, looks at it again, and
\* keeps its lock.
SweepRow(i) ==
    /\ i \in todo
    /\ ~ Locked(i)
    /\ todo' = todo \ {i}
    /\ swept' = IF status[i] = "reserved" THEN swept \cup {i} ELSE swept
    /\ UNCHANGED <<limit, ledger, txVars, sweep>>

\* COMMIT of the sweep; it emits no event.
SweepCommit ==
    /\ sweep = "open"
    /\ todo = {}
    /\ status' = [i \in Ids |-> IF i \in swept THEN "expired" ELSE status[i]]
    /\ sweep' = "idle"
    /\ swept' = {}
    /\ UNCHANGED <<limit, amount, due, outbox, txVars, todo>>

-------------------------------------------------------------------------------
TxStep(c) ==
    \/ ReserveLookup(c) \/ ReserveInsert(c)
    \/ SettleRead(c) \/ SettleUpdate(c)
    \/ CommitTx(c)

QuotaNext ==
    \/ \E n \in Limits : SetQuotaLimit(n)
    \/ DeleteQuotaLimit
    \/ \E c \in Callers : Begin(c) \/ TxStep(c) \/ Abort(c)
    \/ \E i \in Ids : Elapse(i)
    \/ SweepBegin \/ SweepCommit
    \/ \E i \in Ids : SweepRow(i)

QuotaSpec == QuotaInit /\ [][QuotaNext]_quotaVars

\* A transaction ends (requests have deadlines), time passes, the sweeper ticks,
\* and its UPDATE gets a row that other transactions lock again and again: row
\* locks are granted in order of arrival.
QuotaFairness ==
    /\ \A c \in Callers : WF_quotaVars(TxStep(c))
    /\ \A i \in Ids : WF_quotaVars(Elapse(i)) /\ SF_quotaVars(SweepRow(i))
    /\ WF_quotaVars(SweepBegin) /\ WF_quotaVars(SweepCommit)

QuotaFairSpec == QuotaSpec /\ QuotaFairness

-------------------------------------------------------------------------------
(* Properties *)

\* A settled reservation is final: of a commit, a release and the expiry sweep
\* that race for one reservation, exactly one takes effect, although commit and
\* release decide on a status read in an earlier statement.
SettledOnce == [][\A i \in Ids : status[i] \in Settled => status'[i] = status[i]]_quotaVars

\* A written row stays what the writer saw until the writer ends, and has one
\* writer: an open insert's id is still free, an open commit's, release's or
\* sweep's reservation is still reserved.
WritersExclusive ==
    /\ \A c \in Callers : step[c] = "written" =>
          status[target[c]] = IF op[c] = "reserved" THEN "none" ELSE "reserved"
    /\ \A c, d \in Callers :
          step[c] = "written" /\ step[d] = "written" /\ target[c] = target[d] => c = d
    /\ \A i \in swept :
          /\ status[i] = "reserved"
          /\ \A c \in Callers : step[c] = "written" => target[c] # i

\* The outbox tells the ledger's history: a reserved event for every
\* reservation, a committed or released event exactly for the reservations with
\* that status, so no reservation is ever announced as both.
EventsMatchLedger ==
    \A i \in Ids :
        /\ <<i, "reserved">> \in outbox <=> status[i] # "none"
        /\ \A o \in {"committed", "released"} : <<i, o>> \in outbox <=> status[i] = o

\* The hard limit: what is reserved and committed never passes the highest limit
\* that was ever set.  The check inside the INSERT gives this when one request
\* runs at a time.
UsageWithinLimit == CurrentUsage <= Max(Limits)

\* However many requests race, each can pass the check only once against a
\* usage that misses the others: the overspend is at most one limit per
\* concurrent request.
OverspendBounded == CurrentUsage <= Cardinality(Callers) * Max(Limits)

\* An expiring reservation does not hold quota for ever: it is committed,
\* released or swept.
TimedReservationsEnd ==
    \A i \in Timed : []<>(status[i] # "reserved")
===============================================================================
