--------------------------- MODULE ProviderLifecycle ---------------------------
(***************************************************************************)
(* internal/domain/lifecycle.go, internal/service/service.go and           *)
(* risk_review.go: the lifecycle of one provider under concurrent operator *)
(* requests.                                                               *)
(*                                                                         *)
(* Operator calls are READ COMMITTED transactions: they read the provider, *)
(* then update it WHERE lifecycle_state is still the one they read.  The   *)
(* UPDATE waits for another open update of the row and looks again.        *)
(***************************************************************************)
EXTENDS Integers, FiniteSets, Sequences

CONSTANTS
    Operators,    \* operator requests in progress
    MaxReviews,   \* bound: risk reviews begun
    MaxChanges    \* bound: lifecycle changes of the provider

ASSUME OperatorsAssumption == IsFiniteSet(Operators)
ASSUME BoundAssumption == MaxReviews \in Nat /\ MaxChanges \in Nat

VARIABLES
    state,    \* providers.lifecycle_state, or "none"
    envs,     \* kinds of the provider's environments
    log,      \* committed lifecycle events: a sequence of [from, to]
    reviews,  \* committed risk reviews: <<reviewed_at, decision>>
    clock,    \* now(), counted in reviews begun
    call,     \* what an operator request does: "transition", "activate", "review"
    step,     \* where its transaction is
    seen,     \* the state it read
    goal,     \* the state it wants, or the decision of its review
    at        \* now() of its review transaction

opVars == <<call, step, seen, goal, at>>
vars == <<state, envs, log, reviews, clock, call, step, seen, goal, at>>

States == {"REGISTERED", "TEST_ACTIVE", "LIVE_REVIEW", "LIVE_ACTIVE",
           "RESTRICTED", "SUSPENDED", "OFFBOARDING"}
Decisions == {"approved", "rejected"}
Calls == {"transition", "activate", "review"}
Steps == {"idle", "read", "cleared", "written"}
Goals == States \cup Decisions \cup {"none"}

-------------------------------------------------------------------------------
(* The state machine *)

allowedTransitions ==
    [s \in States |->
        CASE s = "TEST_ACTIVE" -> {"LIVE_REVIEW"}
          [] s = "LIVE_REVIEW" -> {"LIVE_ACTIVE", "RESTRICTED", "SUSPENDED"}
          [] s = "LIVE_ACTIVE" -> {"RESTRICTED", "SUSPENDED", "OFFBOARDING"}
          [] s = "RESTRICTED" -> {"LIVE_ACTIVE", "SUSPENDED", "OFFBOARDING"}
          [] s = "SUSPENDED" -> {"LIVE_ACTIVE", "OFFBOARDING"}
          [] OTHER -> {}]

CanTransition(from, to) == from \in States /\ to \in allowedTransitions[from]

\* A change of the lifecycle that some operation may make.
IsChange(from, to) ==
    CanTransition(from, to) \/ (from = "REGISTERED" /\ to = "TEST_ACTIVE")

TypeOK ==
    /\ state \in States \cup {"none"}
    /\ envs \in SUBSET {"test", "live"}
    /\ log \in Seq([from : States, to : States])
    /\ reviews \in SUBSET (Nat \X Decisions)
    /\ clock \in Nat
    /\ call \in [Operators -> Calls]
    /\ step \in [Operators -> Steps]
    /\ seen \in [Operators -> States \cup {"none"}]
    /\ goal \in [Operators -> Goals]
    /\ at \in [Operators -> Nat]

Init ==
    /\ state = "none"
    /\ envs = {}
    /\ log = <<>>
    /\ reviews = {}
    /\ clock = 0
    /\ call = [o \in Operators |-> "transition"]
    /\ step = [o \in Operators |-> "idle"]
    /\ seen = [o \in Operators |-> "none"]
    /\ goal = [o \in Operators |-> "none"]
    /\ at = [o \in Operators |-> 0]

-------------------------------------------------------------------------------
(* Creation *)

\* Signup: the workspace's provider record, without region, cell, environment.
CreateRegisteredProvider ==
    /\ state = "none"
    /\ state' = "REGISTERED"
    /\ UNCHANGED <<envs, log, reviews, clock, opVars>>

\* CreateProvider: the operator's shortcut, with the test environment.
CreateProvider ==
    /\ state = "none"
    /\ state' = "TEST_ACTIVE"
    /\ envs' = {"test"}
    /\ UNCHANGED <<log, reviews, clock, opVars>>

-------------------------------------------------------------------------------
(* Operator transactions *)

EndTx(o) ==
    /\ call' = [call EXCEPT ![o] = "transition"]
    /\ step' = [step EXCEPT ![o] = "idle"]
    /\ seen' = [seen EXCEPT ![o] = "none"]
    /\ goal' = [goal EXCEPT ![o] = "none"]
    /\ at' = [at EXCEPT ![o] = 0]

Begin(o, what, wants, now, next) ==
    /\ step[o] = "idle"
    /\ state # "none"
    /\ call' = [call EXCEPT ![o] = what]
    /\ step' = [step EXCEPT ![o] = next]
    /\ seen' = [seen EXCEPT ![o] = state]
    /\ goal' = [goal EXCEPT ![o] = wants]
    /\ at' = [at EXCEPT ![o] = now]

\* TransitionLifecycle: GetProviderByID and domain.Transition; an invalid
\* transition is refused before anything is written.
TransitionRead(o, to) ==
    /\ Len(log) < MaxChanges
    /\ CanTransition(state, to)
    /\ Begin(o, "transition", to, 0, "read")
    /\ UNCHANGED <<state, envs, log, reviews, clock>>

\* LatestProviderRiskReview: ORDER BY reviewed_at DESC LIMIT 1.
LatestReview == {r \in reviews : \A q \in reviews : q[1] <= r[1]}

\* Mutant: any review opens the gate.
MutLatestApproved == reviews # {}

\* requireApprovedReview
LatestApproved == \E r \in LatestReview : r[2] = "approved"

\* The go-live gate, on LIVE_REVIEW -> LIVE_ACTIVE only.
TransitionGate(o) ==
    /\ step[o] = "read"
    /\ IF seen[o] = "LIVE_REVIEW" /\ goal[o] = "LIVE_ACTIVE" => LatestApproved
       THEN /\ step' = [step EXCEPT ![o] = "cleared"]
            /\ UNCHANGED <<call, seen, goal, at>>
       ELSE EndTx(o)
    /\ UNCHANGED <<state, envs, log, reviews, clock>>

\* ActivateProvider: its UPDATE is guarded on REGISTERED, so it reads nothing
\* first.
ActivateBegin(o) ==
    /\ Len(log) < MaxChanges
    /\ Begin(o, "activate", "TEST_ACTIVE", 0, "cleared")
    /\ UNCHANGED <<state, envs, log, reviews, clock>>

\* The state an UPDATE asks the row to be in.
Expected(o) == IF call[o] = "activate" THEN "REGISTERED" ELSE seen[o]

RowLocked == \E p \in Operators : step[p] = "written"

\* Mutant: UPDATE providers ... WHERE id = $1, without the optimistic guard.
MutUpdateProvider(o) ==
    /\ step[o] = "cleared" /\ call[o] # "review"
    /\ ~ RowLocked
    /\ step' = [step EXCEPT ![o] = "written"]
    /\ UNCHANGED <<state, envs, log, reviews, clock, call, seen, goal, at>>

\* UpdateProviderLifecycle, ActivateProvider: no row matched is a conflict.
UpdateProvider(o) ==
    /\ step[o] = "cleared" /\ call[o] # "review"
    /\ ~ RowLocked
    /\ IF state = Expected(o)
       THEN /\ step' = [step EXCEPT ![o] = "written"]
            /\ UNCHANGED <<call, seen, goal, at>>
       ELSE EndTx(o)
    /\ UNCHANGED <<state, envs, log, reviews, clock>>

\* Mutant: reactivation skips the live environment.
MutNewEnvironments(o) ==
    CASE call[o] = "activate" -> {"test"}
      [] goal[o] = "LIVE_ACTIVE" /\ seen[o] # "LIVE_REVIEW" -> {}
      [] goal[o] = "LIVE_ACTIVE" -> {"live"}
      [] OTHER -> {}

\* What the change provisions: the test environment at activation, the live
\* one (getOrCreateLiveEnvironment) on every entry into LIVE_ACTIVE.
NewEnvironments(o) ==
    CASE call[o] = "activate" -> {"test"}
      [] goal[o] = "LIVE_ACTIVE" -> {"live"}
      [] OTHER -> {}

\* COMMIT: the state, the environments and the event together.
CommitChange(o) ==
    /\ step[o] = "written"
    /\ state' = goal[o]
    /\ envs' = envs \cup NewEnvironments(o)
    /\ log' = Append(log, [from |-> Expected(o), to |-> goal[o]])
    /\ EndTx(o)
    /\ UNCHANGED <<reviews, clock>>

\* SubmitRiskReview, each begun at a later now(): only in LIVE_REVIEW.
ReviewRead(o, decision) ==
    /\ clock < MaxReviews
    /\ state = "LIVE_REVIEW"
    /\ Begin(o, "review", decision, clock + 1, "cleared")
    /\ clock' = clock + 1
    /\ UNCHANGED <<state, envs, log, reviews>>

\* INSERT and COMMIT of the review; reviewed_at is now(), the start of the
\* transaction.
CommitReview(o) ==
    /\ step[o] = "cleared" /\ call[o] = "review"
    /\ reviews' = reviews \cup {<<at[o], goal[o]>>}
    /\ EndTx(o)
    /\ UNCHANGED <<state, envs, log, clock>>

\* A later statement fails, or the process dies: ROLLBACK.
Abort(o) ==
    /\ step[o] # "idle"
    /\ EndTx(o)
    /\ UNCHANGED <<state, envs, log, reviews, clock>>

-------------------------------------------------------------------------------
OperatorStep(o) ==
    \/ \E to \in States : TransitionRead(o, to)
    \/ TransitionGate(o)
    \/ ActivateBegin(o)
    \/ UpdateProvider(o) \/ CommitChange(o)
    \/ \E decision \in Decisions : ReviewRead(o, decision)
    \/ CommitReview(o)
    \/ Abort(o)

Next ==
    \/ CreateRegisteredProvider \/ CreateProvider
    \/ \E o \in Operators : OperatorStep(o)

Spec == Init /\ [][Next]_vars

-------------------------------------------------------------------------------
(* Properties *)

\* Concurrent transitions "cannot silently overwrite each other"
\* (UpdateProviderLifecycle): the committed lifecycle events are one path
\* through the state machine, each starting where the one before it ended, and
\* the provider is where the last one says.
HistoryIsPath ==
    /\ \A k \in 1 .. Len(log) : IsChange(log[k].from, log[k].to)
    /\ \A k \in 1 .. Len(log) - 1 : log[k].to = log[k + 1].from
    /\ Len(log) > 0 => state = log[Len(log)].to

\* A provider has its test environment from activation on, and its live
\* environment exactly when it has been LIVE_ACTIVE: no order of activations,
\* conflicts and aborts leaves it half provisioned.
EnvironmentsFollowState ==
    /\ "test" \in envs <=> state \notin {"none", "REGISTERED"}
    /\ "live" \in envs <=> \E k \in 1 .. Len(log) : log[k].to = "LIVE_ACTIVE"

\* The direct way from review to live passes the gate: there is an approved
\* review on record, although the gate read it in an earlier statement.
DirectGoLiveApproved ==
    [][state = "LIVE_REVIEW" /\ state' = "LIVE_ACTIVE"
          => \E r \in reviews : r[2] = "approved"]_vars

\* "a provider may enter LIVE_ACTIVE only after the operator records an approved
\* risk review ... re-activation from RESTRICTED/SUSPENDED keeps the previous
\* approval on record" (TransitionLifecycle).
LiveNeedsApproval ==
    state = "LIVE_ACTIVE" => \E r \in reviews : r[2] = "approved"
===============================================================================
