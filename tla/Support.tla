------------------------------ MODULE Support ------------------------------
(***************************************************************************)
(* Just-in-time support sessions.  A standard request is approved by the   *)
(* provider, an emergency one by two operators.  Every status change is an *)
(* UPDATE whose WHERE repeats the checks made on the row read before it,   *)
(* and the columns the rest of the checks use never change once set, so    *)
(* each call is one step.                                                  *)
(***************************************************************************)
EXTENDS Integers, Trail

CONSTANTS Staff,                \* operator identities
          SupportIds,           \* bound: sessions ever requested
          MaxDuration,          \* SupportSessionMaxDuration, in ticks
          EmergencyMaxDuration  \* SupportSessionEmergencyMaxDuration, in ticks

ASSUME SupportAssumption ==
    MaxDuration \in Nat \ {0} /\ EmergencyMaxDuration \in 1..MaxDuration

ASSUME StaffAssumption == "null" \notin Staff

VARIABLE sessions       \* support_sessions; left: ticks until expires_at

supportVars == <<sessions, trail>>

Nobody == "null"
NoSession == [status |-> "none"]
SupportStatuses == {"requested", "active", "denied", "revoked", "expired"}

SupportTypeOK ==
    \A s \in SupportIds : sessions[s] # NoSession =>
        /\ sessions[s].status \in SupportStatuses
        /\ sessions[s].left \in 0..MaxDuration

ValidSupportAccessType(t) == t \in {"standard", "emergency"}

-----------------------------------------------------------------------------
(* Queries: a WHERE that matches no row makes the transaction roll back *)

CreateSupportSession(s, by, type, duration) ==
    /\ sessions[s] = NoSession
    /\ sessions' = [sessions EXCEPT ![s] =
           [status |-> "requested", type |-> type, by |-> by, left |-> duration,
            approved |-> Nobody, second |-> Nobody]]

GetSupportSessionByID(s) == sessions[s] # NoSession

SetEmergencyFirstApprover(s, a) ==
    /\ sessions[s].status = "requested" /\ sessions[s].type = "emergency"
    /\ sessions[s].approved = Nobody
    /\ sessions' = [sessions EXCEPT ![s].approved = a]

ApproveEmergencySupportSession(s, a) ==
    /\ sessions[s].status = "requested" /\ sessions[s].type = "emergency"
    /\ sessions[s].approved \notin {Nobody, a}
    /\ sessions' = [sessions EXCEPT ![s].status = "active", ![s].second = a]

ApproveStandard(s) ==
    /\ sessions[s].status = "requested" /\ sessions[s].type = "standard"
    /\ sessions' = [sessions EXCEPT ![s].status = "active", ![s].approved = "credential"]

DenyRow(s) ==
    sessions[s].status = "requested" /\ sessions' = [sessions EXCEPT ![s].status = "denied"]

RevokeRow(s) ==
    sessions[s].status = "active" /\ sessions' = [sessions EXCEPT ![s].status = "revoked"]

\* Mutant: only the sessions of providers that approved them are swept.
ExpireStandardRows ==
    sessions' = [s \in SupportIds |->
        IF sessions[s].status = "active" /\ sessions[s].type = "standard" /\ sessions[s].left = 0
        THEN [sessions[s] EXCEPT !.status = "expired"] ELSE sessions[s]]

ExpireRows ==
    sessions' = [s \in SupportIds |->
        IF sessions[s].status = "active" /\ sessions[s].left = 0
        THEN [sessions[s] EXCEPT !.status = "expired"] ELSE sessions[s]]

-----------------------------------------------------------------------------
(* Service *)

RequestSupportSession(s, by, type, duration) ==
    /\ ValidSupportAccessType(type)
    /\ duration > 0
    /\ duration <= IF type = "emergency" THEN EmergencyMaxDuration ELSE MaxDuration
    /\ CreateSupportSession(s, by, type, duration)
    /\ AppendRows(emitOutboxTx("support.requested", s) \cup insertAuditTx("support.request", s))

\* The provider's approval.  expires_at is not looked at: a request that was
\* approved too late is active until the next sweep.
ApproveSupportSession(s) ==
    /\ GetSupportSessionByID(s)
    /\ ApproveStandard(s)
    /\ AppendRows(emitOutboxTx("support.approved", s) \cup insertAuditTx("support.approve", s))

DenySupportSession(s) ==
    /\ GetSupportSessionByID(s)
    /\ DenyRow(s)
    /\ AppendRows(emitOutboxTx("support.denied", s) \cup insertAuditTx("support.deny", s))

EmergencyFirstApprove(s, approver) ==
    /\ GetSupportSessionByID(s)
    /\ sessions[s].by # approver
    /\ SetEmergencyFirstApprover(s, approver)
    /\ AppendRows(emitOutboxTx("support.first_approved", s)
              \cup insertAuditTx("support.first_approve", s))

\* Mutant: only the database's comparison with the first approver is left.
SecondApproveAnyone(s, approver) ==
    /\ GetSupportSessionByID(s)
    /\ ApproveEmergencySupportSession(s, approver)
    /\ AppendRows(emitOutboxTx("support.approved", s)
              \cup insertAuditTx("support.emergency_approve", s))

EmergencySecondApprove(s, approver) ==
    /\ GetSupportSessionByID(s)
    /\ sessions[s].by # approver
    /\ ApproveEmergencySupportSession(s, approver)
    /\ AppendRows(emitOutboxTx("support.approved", s)
              \cup insertAuditTx("support.emergency_approve", s))

RevokeSupportSession(s) ==
    /\ GetSupportSessionByID(s)
    /\ RevokeRow(s)
    /\ AppendRows(emitOutboxTx("support.revoked", s) \cup insertAuditTx("support.revoke", s))

\* The same, by the tenant that owns the session.
RevokeSupportSessionAsProvider(s) == RevokeSupportSession(s)

\* The sweeper writes neither an event nor an audit row.
ExpireSupportSessions == ExpireRows /\ sessions' # sessions /\ UNCHANGED trail

\* NewSupportExpirySweeper runs ExpireSupportSessions at every interval.
NewSupportExpirySweeper == ExpireSupportSessions

-----------------------------------------------------------------------------
(* Handlers and time *)

requestSupportSession ==
    \E s \in SupportIds, by \in Staff, t \in {"standard", "emergency"}, d \in 0..MaxDuration :
        RequestSupportSession(s, by, t, d)
firstApproveEmergency == \E s \in SupportIds, a \in Staff : EmergencyFirstApprove(s, a)
secondApproveEmergency == \E s \in SupportIds, a \in Staff : EmergencySecondApprove(s, a)
operatorRevokeSupportSession == \E s \in SupportIds : RevokeSupportSession(s)
providerApproveSupportSession == \E s \in SupportIds : ApproveSupportSession(s)
providerDenySupportSession == \E s \in SupportIds : DenySupportSession(s)
providerRevokeSupportSession == \E s \in SupportIds : RevokeSupportSessionAsProvider(s)

SupportClock ==
    /\ \E s \in SupportIds : sessions[s] # NoSession /\ sessions[s].left > 0
    /\ sessions' = [s \in SupportIds |->
           IF sessions[s] # NoSession /\ sessions[s].left > 0
           THEN [sessions[s] EXCEPT !.left = @ - 1] ELSE sessions[s]]
    /\ UNCHANGED trail

SupportInit == sessions = [s \in SupportIds |-> NoSession]

SupportNext ==
    \/ requestSupportSession \/ firstApproveEmergency \/ secondApproveEmergency
    \/ providerApproveSupportSession \/ providerDenySupportSession
    \/ operatorRevokeSupportSession \/ providerRevokeSupportSession
    \/ NewSupportExpirySweeper
    \/ SupportClock

SupportSpec == SupportInit /\ trail = {} /\ [][SupportNext]_supportVars

-----------------------------------------------------------------------------
(* Properties *)

\* Emergency access that was ever granted was asked for by one operator and
\* approved by two others (support.go: "two-person operator authorization"),
\* and each of the three steps left its event, in whatever order the operators'
\* requests arrive.
TwoPersonRule ==
    \A s \in SupportIds :
        sessions[s].status \in {"active", "revoked", "expired"} /\ sessions[s].type = "emergency"
        => LET r == sessions[s] IN
           /\ r.by # r.approved /\ r.approved # r.second /\ r.second # r.by
           /\ Nobody \notin {r.approved, r.second}
           /\ Happened("support.first_approved", s) /\ Happened("support.approved", s)

\* Granted access ends by itself, although nothing but the sweeper looks at
\* expires_at and a request may be approved after that time.
AccessEnds ==
    \A s \in SupportIds : sessions[s].status = "active" ~> sessions[s].status # "active"
=============================================================================
