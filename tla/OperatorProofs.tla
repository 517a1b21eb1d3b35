--------------------------- MODULE OperatorProofs ---------------------------
(***************************************************************************)
(* Theorems about what the platform's operators do: providers and their    *)
(* lifecycle, cells, migration jobs and support access.  They hold for any *)
(* number of operators, providers, cells, jobs and sessions.               *)
(***************************************************************************)
EXTENDS ProviderLifecycle, CellPlacement, MigrationJobs, Support, TLAPS

-----------------------------------------------------------------------------
(***************************************************************************)
(* Provider lifecycle and risk review                                      *)
(***************************************************************************)

\* An open lifecycle change wants a change the state machine has, from the state
\* its UPDATE asks for.
PlanInv ==
    \A o \in Operators : step[o] # "idle" /\ call[o] # "review" =>
        /\ Expected(o) \in States /\ goal[o] \in States
        /\ IsChange(Expected(o), goal[o])
        /\ call[o] = "transition" => CanTransition(seen[o], goal[o])
        /\ call[o] = "activate" => goal[o] = "TEST_ACTIVE"

\* A review has a decision and never writes the provider's row.
ReviewInv ==
    \A o \in Operators : step[o] # "idle" /\ call[o] = "review" =>
        goal[o] \in Decisions /\ step[o] = "cleared"

\* The row has one writer, a lifecycle change, and is still in the state the
\* writer asked for.
WriterInv ==
    /\ \A o \in Operators : step[o] = "written" => state = Expected(o)
    /\ \A o, p \in Operators : step[o] = "written" /\ step[p] = "written" => o = p

LifeInv == TypeOK /\ PlanInv /\ ReviewInv

-------------------------------------------------------------------------------
(* Types and plans *)

\* Before the provider exists nothing is open.
LEMMA LifeInvInit == Init => LifeInv /\ WriterInv
  BY DEF Init, LifeInv, TypeOK, PlanInv, ReviewInv, WriterInv, Calls, Steps, Goals

\* A transaction that ends leaves the others' plans alone.
LEMMA EndTxPlans ==
    ASSUME LifeInv, NEW o \in Operators, EndTx(o)
    PROVE  /\ call' \in [Operators -> Calls] /\ step' \in [Operators -> Steps]
           /\ seen' \in [Operators -> States \cup {"none"}]
           /\ goal' \in [Operators -> Goals] /\ at' \in [Operators -> Nat]
           /\ PlanInv' /\ ReviewInv'
  BY DEF EndTx, LifeInv, TypeOK, PlanInv, ReviewInv, Expected, Calls, Steps, Goals

\* A transaction that begins has a plan of its own.
LEMMA BeginPlans ==
    ASSUME LifeInv, NEW o \in Operators, NEW what \in Calls, NEW wants \in Goals,
           NEW now \in Nat, NEW next \in Steps, Begin(o, what, wants, now, next),
           what = "transition" => wants \in States /\ state \in States /\ CanTransition(state, wants),
           what = "activate" => wants = "TEST_ACTIVE",
           what = "review" => wants \in Decisions /\ next = "cleared"
    PROVE  /\ call' \in [Operators -> Calls] /\ step' \in [Operators -> Steps]
           /\ seen' \in [Operators -> States \cup {"none"}]
           /\ goal' \in [Operators -> Goals] /\ at' \in [Operators -> Nat]
           /\ PlanInv' /\ ReviewInv'
<1>1. /\ call' \in [Operators -> Calls] /\ step' \in [Operators -> Steps]
      /\ seen' \in [Operators -> States \cup {"none"}]
      /\ goal' \in [Operators -> Goals] /\ at' \in [Operators -> Nat]
  BY DEF Begin, LifeInv, TypeOK
<1>2. /\ call'[o] = what /\ seen'[o] = state /\ goal'[o] = wants /\ step'[o] = next
      /\ \A p \in Operators : p # o => /\ call'[p] = call[p] /\ step'[p] = step[p]
                                       /\ seen'[p] = seen[p] /\ goal'[p] = goal[p]
  BY DEF Begin, LifeInv, TypeOK
<1>3. PlanInv'
  BY <1>2 DEF LifeInv, PlanInv, Expected, IsChange, Calls, States
<1>4. ReviewInv'
  BY <1>2 DEF LifeInv, ReviewInv
<1>5. QED
  BY <1>1, <1>3, <1>4

\* Every step keeps types and plans.
LEMMA LifeInvStep == LifeInv /\ [Next]_vars => LifeInv'
<1> SUFFICES ASSUME LifeInv, [Next]_vars PROVE LifeInv'
  OBVIOUS
<1>1. CASE CreateRegisteredProvider \/ CreateProvider
  BY <1>1 DEF CreateRegisteredProvider, CreateProvider, LifeInv, TypeOK, PlanInv,
      ReviewInv, Expected, opVars, States
<1>2. ASSUME NEW o \in Operators, NEW to \in States, TransitionRead(o, to)
      PROVE  LifeInv'
  <2>1. "transition" \in Calls /\ "read" \in Steps /\ to \in Goals /\ state \in States
    BY <1>2 DEF TransitionRead, CanTransition, Calls, Steps, Goals
  <2>2. QED
    BY <1>2, <2>1, BeginPlans DEF TransitionRead, LifeInv, TypeOK
<1>3. ASSUME NEW o \in Operators, ActivateBegin(o)
      PROVE  LifeInv'
  <2>1. "activate" \in Calls /\ "cleared" \in Steps /\ "TEST_ACTIVE" \in Goals
    BY DEF Calls, Steps, Goals, States
  <2>2. QED
    BY <1>3, <2>1, BeginPlans DEF ActivateBegin, LifeInv, TypeOK
<1>4. ASSUME NEW o \in Operators, NEW decision \in Decisions, ReviewRead(o, decision)
      PROVE  LifeInv'
  <2>1. "review" \in Calls /\ "cleared" \in Steps /\ decision \in Goals
    BY DEF Calls, Steps, Goals
  <2>2. clock \in Nat /\ clock + 1 \in Nat
    BY DEF LifeInv, TypeOK
  <2>3. QED
    BY <1>4, <2>1, <2>2, BeginPlans DEF ReviewRead, LifeInv, TypeOK
<1>5. ASSUME NEW o \in Operators, TransitionGate(o) \/ UpdateProvider(o)
      PROVE  LifeInv'
  <2>1. CASE EndTx(o)
    BY <1>5, <2>1, EndTxPlans DEF TransitionGate, UpdateProvider, LifeInv, TypeOK
  <2>2. ASSUME NEW s \in {"cleared", "written"}, step' = [step EXCEPT ![o] = s],
               UNCHANGED <<call, seen, goal, at>>
        PROVE  LifeInv'
    BY <1>5, <2>2 DEF TransitionGate, UpdateProvider, LifeInv, TypeOK, PlanInv,
        ReviewInv, Expected, Steps
  <2>3. QED
    BY <1>5, <2>1, <2>2 DEF TransitionGate, UpdateProvider
<1>6. ASSUME NEW o \in Operators, CommitChange(o)
      PROVE  LifeInv'
  <2>1. goal[o] \in States /\ Expected(o) \in States
    BY <1>6 DEF LifeInv, PlanInv, ReviewInv, CommitChange
  <2>2. [from |-> Expected(o), to |-> goal[o]] \in [from : States, to : States]
    BY <2>1
  <2>3. log' \in Seq([from : States, to : States])
    BY <1>6, <2>2 DEF CommitChange, LifeInv, TypeOK
  <2>4. envs' \in SUBSET {"test", "live"}
    BY <1>6 DEF CommitChange, NewEnvironments, LifeInv, TypeOK
  <2>5. QED
    BY <1>6, <2>1, <2>3, <2>4, EndTxPlans DEF CommitChange, LifeInv, TypeOK
<1>7. ASSUME NEW o \in Operators, CommitReview(o)
      PROVE  LifeInv'
  <2>1. at[o] \in Nat /\ goal[o] \in Decisions
    BY <1>7 DEF CommitReview, LifeInv, TypeOK, ReviewInv
  <2>2. reviews' \in SUBSET (Nat \X Decisions)
    BY <1>7, <2>1 DEF CommitReview, LifeInv, TypeOK
  <2>3. QED
    BY <1>7, <2>2, EndTxPlans DEF CommitReview, LifeInv, TypeOK
<1>8. ASSUME NEW o \in Operators, Abort(o)
      PROVE  LifeInv'
  BY <1>8, EndTxPlans DEF Abort, LifeInv, TypeOK
<1>9. CASE UNCHANGED vars
  BY <1>9 DEF vars, LifeInv, TypeOK, PlanInv, ReviewInv, Expected
<1>10. QED
  BY <1>1, <1>2, <1>3, <1>4, <1>5, <1>6, <1>7, <1>8, <1>9
  DEF Next, OperatorStep

-------------------------------------------------------------------------------
(* The row lock and the optimistic guard *)

\* A step that leaves the state alone and makes no new writer keeps WriterInv.
LEMMA NoNewWriter ==
    ASSUME WriterInv, state' = state,
           \A p \in Operators : step'[p] = "written" =>
               step[p] = "written" /\ call'[p] = call[p] /\ seen'[p] = seen[p]
    PROVE  WriterInv'
  BY DEF WriterInv, Expected

\* A transaction that ends is no writer, and the others stay as they are.
LEMMA EndTxWriters ==
    ASSUME LifeInv, NEW o \in Operators, EndTx(o)
    PROVE  \A p \in Operators : step'[p] = "written" =>
               p # o /\ step[p] = "written" /\ call'[p] = call[p] /\ seen'[p] = seen[p]
  BY DEF EndTx, LifeInv, TypeOK

\* Every step keeps the row with one writer, whose guard still holds.
LEMMA WriterStep == LifeInv /\ WriterInv /\ [Next]_vars => WriterInv'
<1> SUFFICES ASSUME LifeInv, WriterInv, [Next]_vars PROVE WriterInv'
  OBVIOUS
<1>1. CASE CreateRegisteredProvider \/ CreateProvider
  <2>1. \A o \in Operators : step[o] = "written" => Expected(o) # "none"
    BY DEF LifeInv, PlanInv, ReviewInv, States
  <2>2. state = "none" /\ step' = step
    BY <1>1 DEF CreateRegisteredProvider, CreateProvider, opVars
  <2>3. QED
    BY <2>1, <2>2 DEF WriterInv
<1>2. ASSUME NEW o \in Operators, NEW what, NEW wants, NEW now, NEW next,
             Begin(o, what, wants, now, next), next # "written", state' = state
      PROVE  WriterInv'
  <2>1. \A p \in Operators : step'[p] = "written" =>
            step[p] = "written" /\ call'[p] = call[p] /\ seen'[p] = seen[p]
    BY <1>2 DEF Begin, LifeInv, TypeOK
  <2>2. QED
    BY <1>2, <2>1, NoNewWriter
<1>3. ASSUME NEW o \in Operators,
             \/ \E to \in States : TransitionRead(o, to)
             \/ ActivateBegin(o)
             \/ \E decision \in Decisions : ReviewRead(o, decision)
      PROVE  WriterInv'
  BY <1>2, <1>3 DEF TransitionRead, ActivateBegin, ReviewRead
<1>4. ASSUME NEW o \in Operators, EndTx(o), state' = state
      PROVE  WriterInv'
  BY <1>4, EndTxWriters, NoNewWriter
<1>5. ASSUME NEW o \in Operators, TransitionGate(o)
      PROVE  WriterInv'
  <2>1. ASSUME step' = [step EXCEPT ![o] = "cleared"], UNCHANGED <<call, seen, goal, at>>
        PROVE  \A p \in Operators : step'[p] = "written" =>
                 step[p] = "written" /\ call'[p] = call[p] /\ seen'[p] = seen[p]
    BY <2>1 DEF LifeInv, TypeOK
  <2>2. QED
    BY <1>4, <1>5, <2>1, NoNewWriter DEF TransitionGate
<1>6. ASSUME NEW o \in Operators, UpdateProvider(o)
      PROVE  WriterInv'
  <2>1. CASE state = Expected(o)
    <3>1. /\ \A p \in Operators : step'[p] = "written" => p = o
          /\ call' = call /\ seen' = seen /\ state' = state
      BY <1>6, <2>1 DEF UpdateProvider, RowLocked, LifeInv, TypeOK
    <3>2. QED
      BY <2>1, <3>1 DEF WriterInv, Expected
  <2>2. CASE state # Expected(o)
    BY <1>4, <1>6, <2>2 DEF UpdateProvider
  <2>3. QED
    BY <2>1, <2>2
<1>7. ASSUME NEW o \in Operators, CommitChange(o)
      PROVE  WriterInv'
  <2>1. \A p \in Operators : step'[p] # "written"
    BY <1>7, EndTxWriters DEF CommitChange, WriterInv
  <2>2. QED
    BY <2>1 DEF WriterInv
<1>8. ASSUME NEW o \in Operators, CommitReview(o) \/ Abort(o)
      PROVE  WriterInv'
  BY <1>4, <1>8 DEF CommitReview, Abort
<1>9. CASE UNCHANGED vars
  <2>1. UNCHANGED <<state, opVars>>
    BY <1>9 DEF vars, opVars
  <2>2. QED
    BY <2>1, NoNewWriter DEF opVars
<1>10. QED
  BY <1>1, <1>3, <1>5, <1>6, <1>7, <1>8, <1>9 DEF Next, OperatorStep

\* Of the operations, creation and the commit of a change move the provider.
LEMMA WhatMovesProvider ==
    ASSUME [Next]_vars
    PROVE  \/ CreateRegisteredProvider \/ CreateProvider
           \/ \E o \in Operators : CommitChange(o)
           \/ UNCHANGED <<state, envs, log>>
  BY DEF Next, OperatorStep, TransitionRead, TransitionGate, ActivateBegin,
     UpdateProvider, ReviewRead, CommitReview, Abort, vars

\* A committed change starts where the provider is and extends the log by one.
LEMMA CommitEffect ==
    ASSUME LifeInv, WriterInv, NEW o \in Operators, CommitChange(o)
    PROVE  /\ state = Expected(o) /\ IsChange(state, goal[o]) /\ state \in States
           /\ state' = goal[o]
           /\ Len(log') = Len(log) + 1 /\ Len(log) \in Nat
           /\ log'[Len(log')] = [from |-> state, to |-> goal[o]]
           /\ \A k \in 1 .. Len(log) : log'[k] = log[k]
           /\ envs' = envs \cup NewEnvironments(o)
           /\ call[o] = "activate" => state = "REGISTERED" /\ goal[o] = "TEST_ACTIVE"
<1>1. /\ state = Expected(o) /\ call[o] # "review"
      /\ goal[o] \in States /\ Expected(o) \in States /\ IsChange(Expected(o), goal[o])
      /\ call[o] = "activate" => goal[o] = "TEST_ACTIVE"
  BY DEF LifeInv, PlanInv, ReviewInv, WriterInv, CommitChange
<1>2. /\ log \in Seq([from : States, to : States])
      /\ log' = Append(log, [from |-> state, to |-> goal[o]])
      /\ [from |-> state, to |-> goal[o]] \in [from : States, to : States]
  BY <1>1 DEF CommitChange, LifeInv, TypeOK
<1>3. /\ Len(log') = Len(log) + 1 /\ Len(log) \in Nat
      /\ log'[Len(log')] = [from |-> state, to |-> goal[o]]
      /\ \A k \in 1 .. Len(log) : log'[k] = log[k]
  BY <1>2
<1>4. QED
  BY <1>1, <1>3 DEF CommitChange, Expected

-------------------------------------------------------------------------------
(* The theorems *)

\* Type correctness of the lifecycle.
THEOREM LifecycleTypeCorrect == Spec => []TypeOK
<1>1. LifeInv => TypeOK
  BY DEF LifeInv
<1>2. QED
  BY LifeInvInit, LifeInvStep, <1>1, PTL DEF Spec

\* Before the first change the log is empty.
Young == state = "none" => log = <<>>

\* Every commit extends the path, and an uncreated provider has none.
LEMMA HistoryInvariant == Spec => [](HistoryIsPath /\ Young)
<1>1. Init => HistoryIsPath /\ Young
  BY DEF Init, HistoryIsPath, Young
<1>2. ASSUME LifeInv, WriterInv, HistoryIsPath, Young, [Next]_vars
      PROVE  HistoryIsPath' /\ Young'
  <2>1. CASE CreateRegisteredProvider \/ CreateProvider
    <3>1. log = <<>> /\ log' = log /\ state' # "none"
      BY <1>2, <2>1 DEF CreateRegisteredProvider, CreateProvider, Young
    <3>2. QED
      BY <3>1 DEF HistoryIsPath, Young
  <2>2. ASSUME NEW o \in Operators, CommitChange(o)
        PROVE  HistoryIsPath' /\ Young'
    <3>1. /\ IsChange(state, goal[o]) /\ state' = goal[o]
          /\ Len(log') = Len(log) + 1 /\ Len(log) \in Nat
          /\ log'[Len(log')] = [from |-> state, to |-> goal[o]]
          /\ \A k \in 1 .. Len(log) : log'[k] = log[k]
      BY <1>2, <2>2, CommitEffect
    <3>2. \A k \in 1 .. Len(log') : IsChange(log'[k].from, log'[k].to)
      BY <1>2, <3>1 DEF HistoryIsPath
    <3>3. \A k \in 1 .. Len(log') - 1 : log'[k].to = log'[k + 1].from
      <4> TAKE k \in 1 .. Len(log') - 1
      <4>1. CASE k = Len(log)
        BY <1>2, <3>1, <4>1 DEF HistoryIsPath
      <4>2. CASE k # Len(log)
        BY <1>2, <3>1, <4>2 DEF HistoryIsPath
      <4>3. QED
        BY <4>1, <4>2
    <3>4. state' = log'[Len(log')].to
      BY <3>1
    <3>5. state' # "none"
      BY <1>2, <2>2, <3>1 DEF CommitChange, LifeInv, PlanInv, ReviewInv, States
    <3>6. QED
      BY <3>2, <3>3, <3>4, <3>5 DEF HistoryIsPath, Young
  <2>3. CASE UNCHANGED <<state, envs, log>>
    BY <1>2, <2>3 DEF HistoryIsPath, Young
  <2>4. QED
    BY <1>2, <2>1, <2>2, <2>3, WhatMovesProvider
<1>3. QED
  BY <1>1, <1>2, LifeInvInit, LifeInvStep, WriterStep, PTL DEF Spec

\* Concurrent operators never overwrite one another: the committed lifecycle
\* events are one path through the state machine that ends in the current state.
THEOREM LifecycleHistoryIsPath == Spec => []HistoryIsPath
  BY HistoryInvariant, PTL

\* No order of activations, conflicts and rollbacks leaves a provider half
\* provisioned: its environments follow its history.
THEOREM ProvisioningFollowsHistory == Spec => []EnvironmentsFollowState
<1>1. Init => EnvironmentsFollowState
  BY DEF Init, EnvironmentsFollowState
<1>2. ASSUME LifeInv, WriterInv, Young, EnvironmentsFollowState, [Next]_vars
      PROVE  EnvironmentsFollowState'
  <2>1. CASE CreateRegisteredProvider \/ CreateProvider
    <3>1. log = <<>> /\ log' = log /\ state = "none"
      BY <1>2, <2>1 DEF CreateRegisteredProvider, CreateProvider, Young
    <3>2. envs = {}
      BY <1>2, <3>1 DEF EnvironmentsFollowState, LifeInv, TypeOK
    <3>3. QED
      BY <2>1, <3>1, <3>2
      DEF EnvironmentsFollowState, CreateRegisteredProvider, CreateProvider
  <2>2. ASSUME NEW o \in Operators, CommitChange(o)
        PROVE  EnvironmentsFollowState'
    <3>1. /\ IsChange(state, goal[o]) /\ state' = goal[o] /\ state \in States
          /\ Len(log') = Len(log) + 1 /\ Len(log) \in Nat
          /\ log'[Len(log')] = [from |-> state, to |-> goal[o]]
          /\ \A k \in 1 .. Len(log) : log'[k] = log[k]
          /\ envs' = envs \cup NewEnvironments(o)
          /\ call[o] = "activate" => state = "REGISTERED" /\ goal[o] = "TEST_ACTIVE"
      BY <1>2, <2>2, CommitEffect
    <3>2. /\ call[o] \in {"activate", "transition"}
          /\ call[o] = "transition" => CanTransition(state, goal[o])
          /\ goal[o] \in States
      <4>1. call[o] # "review" /\ call[o] \in Calls /\ state = Expected(o)
        BY <1>2, <2>2 DEF CommitChange, LifeInv, ReviewInv, TypeOK, WriterInv
      <4>2. QED
        BY <1>2, <2>2, <4>1 DEF CommitChange, LifeInv, PlanInv, Expected, Calls
    <3>3. (\E k \in 1 .. Len(log') : log'[k].to = "LIVE_ACTIVE") <=>
              \/ goal[o] = "LIVE_ACTIVE"
              \/ \E k \in 1 .. Len(log) : log[k].to = "LIVE_ACTIVE"
      <4>1. Len(log') \in 1 .. Len(log') /\ log'[Len(log')].to = goal[o]
        BY <3>1
      <4>2. \A k \in 1 .. Len(log') : k = Len(log') \/ k \in 1 .. Len(log)
        BY <3>1
      <4>3. 1 .. Len(log) \subseteq 1 .. Len(log')
        BY <3>1
      <4>4. QED
        BY <3>1, <4>1, <4>2, <4>3
    <3>4. CASE call[o] = "activate"
      BY <1>2, <3>1, <3>3, <3>4 DEF EnvironmentsFollowState, NewEnvironments
    <3>5. CASE call[o] = "transition"
      <4>1. state # "REGISTERED" /\ state # "none" /\ goal[o] # "none"
        BY <3>1, <3>2, <3>5 DEF CanTransition, allowedTransitions, States
      <4>2. goal[o] # "REGISTERED"
        BY <3>1, <3>2, <3>5 DEF CanTransition, allowedTransitions, States
      <4>3. envs' = IF goal[o] = "LIVE_ACTIVE" THEN envs \cup {"live"} ELSE envs
        BY <3>1, <3>5 DEF NewEnvironments
      <4>4. QED
        BY <1>2, <3>1, <3>3, <4>1, <4>2, <4>3 DEF EnvironmentsFollowState
    <3>6. QED
      BY <3>2, <3>4, <3>5
  <2>3. CASE UNCHANGED <<state, envs, log>>
    BY <1>2, <2>3 DEF EnvironmentsFollowState
  <2>4. QED
    BY <1>2, <2>1, <2>2, <2>3, WhatMovesProvider
<1>3. QED
  BY <1>1, <1>2, LifeInvInit, LifeInvStep, WriterStep, HistoryInvariant, PTL DEF Spec

-------------------------------------------------------------------------------
(* The go-live gate *)

Approval == \E r \in reviews : r[2] = "approved"

\* A transition that has passed the gate has an approval on record: what the gate
\* read in an earlier statement is never deleted.
GateInv ==
    \A o \in Operators :
        /\ call[o] = "transition" /\ step[o] \in {"cleared", "written"}
        /\ seen[o] = "LIVE_REVIEW" /\ goal[o] = "LIVE_ACTIVE"
        => Approval

\* A step keeps it if the transactions it moves are not cleared by it.
LEMMA GateKept ==
    ASSUME GateInv, reviews \subseteq reviews',
           \A o \in Operators :
              \/ call'[o] # "transition" \/ step'[o] \in {"idle", "read"}
              \/ /\ step[o] \in {"cleared", "written"}
                 /\ call'[o] = call[o] /\ seen'[o] = seen[o] /\ goal'[o] = goal[o]
    PROVE  GateInv'
<1>1. Approval => Approval'
  BY DEF Approval
<1> SUFFICES ASSUME NEW o \in Operators,
                    call'[o] = "transition", step'[o] \in {"cleared", "written"},
                    seen'[o] = "LIVE_REVIEW", goal'[o] = "LIVE_ACTIVE"
             PROVE  Approval'
  BY DEF GateInv
<1>2. /\ step[o] \in {"cleared", "written"}
      /\ call[o] = "transition" /\ seen[o] = "LIVE_REVIEW" /\ goal[o] = "LIVE_ACTIVE"
  OBVIOUS
<1>3. QED
  BY <1>1, <1>2 DEF GateInv

\* Every step keeps it.
LEMMA GateStep == LifeInv /\ GateInv /\ [Next]_vars => GateInv'
<1> SUFFICES ASSUME LifeInv, GateInv, [Next]_vars PROVE GateInv'
  OBVIOUS
<1>0. \A o \in Operators : step[o] \in {"idle", "read"} \/ step[o] \in {"cleared", "written"}
  BY DEF LifeInv, TypeOK, Steps
<1>1. ASSUME UNCHANGED <<reviews, opVars>>
      PROVE  GateInv'
  <2>1. \A o \in Operators :
          \/ step'[o] \in {"idle", "read"}
          \/ /\ step[o] \in {"cleared", "written"}
             /\ call'[o] = call[o] /\ seen'[o] = seen[o] /\ goal'[o] = goal[o]
    BY <1>0, <1>1 DEF opVars
  <2>2. QED
    BY <1>1, <2>1, GateKept
<1>2. ASSUME NEW o \in Operators, EndTx(o), reviews \subseteq reviews'
      PROVE  GateInv'
  <2>1. /\ step'[o] = "idle"
        /\ \A p \in Operators : p # o => /\ call'[p] = call[p] /\ step'[p] = step[p]
                                         /\ seen'[p] = seen[p] /\ goal'[p] = goal[p]
    BY <1>2 DEF EndTx, LifeInv, TypeOK
  <2>2. QED
    BY <1>0, <1>2, <2>1, GateKept
<1>3. ASSUME NEW o \in Operators, NEW what, NEW wants, NEW now, NEW next,
             Begin(o, what, wants, now, next), what # "transition" \/ next = "read",
             reviews' = reviews
      PROVE  GateInv'
  <2>1. /\ call'[o] = what /\ step'[o] = next
        /\ \A p \in Operators : p # o => /\ call'[p] = call[p] /\ step'[p] = step[p]
                                         /\ seen'[p] = seen[p] /\ goal'[p] = goal[p]
    BY <1>3 DEF Begin, LifeInv, TypeOK
  <2>2. QED
    BY <1>0, <1>3, <2>1, GateKept
<1>4. ASSUME NEW o \in Operators,
             \/ \E to \in States : TransitionRead(o, to)
             \/ ActivateBegin(o)
             \/ \E decision \in Decisions : ReviewRead(o, decision)
      PROVE  GateInv'
  BY <1>3, <1>4 DEF TransitionRead, ActivateBegin, ReviewRead
<1>5. ASSUME NEW o \in Operators, TransitionGate(o)
      PROVE  GateInv'
  <2>1. CASE seen[o] = "LIVE_REVIEW" /\ goal[o] = "LIVE_ACTIVE" => LatestApproved
    <3>1. /\ UNCHANGED <<call, seen, goal, reviews>>
          /\ \A p \in Operators : p # o => step'[p] = step[p]
      BY <1>5, <2>1 DEF TransitionGate, LifeInv, TypeOK
    <3>2. LatestApproved => Approval
      BY DEF LatestApproved, LatestReview, Approval
    <3>3. QED
      BY <2>1, <3>1, <3>2 DEF GateInv, Approval
  <2>2. CASE ~ (seen[o] = "LIVE_REVIEW" /\ goal[o] = "LIVE_ACTIVE" => LatestApproved)
    BY <1>2, <1>5, <2>2 DEF TransitionGate
  <2>3. QED
    BY <2>1, <2>2
<1>6. ASSUME NEW o \in Operators, UpdateProvider(o)
      PROVE  GateInv'
  <2>1. CASE state = Expected(o)
    <3>1. /\ UNCHANGED <<call, seen, goal, reviews>> /\ step[o] = "cleared"
          /\ \A p \in Operators : p # o => step'[p] = step[p]
      BY <1>6, <2>1 DEF UpdateProvider, LifeInv, TypeOK
    <3>2. QED
      BY <3>1 DEF GateInv, Approval
  <2>2. CASE state # Expected(o)
    BY <1>2, <1>6, <2>2 DEF UpdateProvider
  <2>3. QED
    BY <2>1, <2>2
<1>7. ASSUME NEW o \in Operators, CommitChange(o) \/ CommitReview(o) \/ Abort(o)
      PROVE  GateInv'
  BY <1>2, <1>7 DEF CommitChange, CommitReview, Abort
<1>8. CASE CreateRegisteredProvider \/ CreateProvider \/ UNCHANGED vars
  BY <1>1, <1>8 DEF CreateRegisteredProvider, CreateProvider, vars, opVars
<1>9. QED
  BY <1>4, <1>5, <1>6, <1>7, <1>8 DEF Next, OperatorStep

\* TransitionLifecycle: however reviews and transitions interleave, the direct way
\* from review to live is taken only with an approved review on record.
THEOREM LifecycleGoLiveApproved == Spec => DirectGoLiveApproved
<1>1. Init => GateInv
  BY DEF Init, GateInv
<1>2. ASSUME LifeInv, WriterInv, GateInv, [Next]_vars
      PROVE  [state = "LIVE_REVIEW" /\ state' = "LIVE_ACTIVE"
                => \E r \in reviews : r[2] = "approved"]_vars
  <2> SUFFICES ASSUME state = "LIVE_REVIEW", state' = "LIVE_ACTIVE" PROVE Approval
    BY DEF Approval
  <2>1. PICK o \in Operators : CommitChange(o)
    BY <1>2, WhatMovesProvider DEF CreateRegisteredProvider, CreateProvider
  <2>2. /\ step[o] = "written" /\ goal[o] = "LIVE_ACTIVE" /\ Expected(o) = "LIVE_REVIEW"
    BY <1>2, <2>1 DEF CommitChange, WriterInv
  <2>3. call[o] = "transition" /\ seen[o] = "LIVE_REVIEW"
    BY <1>2, <2>2 DEF LifeInv, TypeOK, ReviewInv, Expected, Calls
  <2>4. QED
    BY <1>2, <2>2, <2>3 DEF GateInv
<1>3. QED
  BY <1>1, <1>2, LifeInvInit, LifeInvStep, WriterStep, GateStep, PTL
  DEF Spec, DirectGoLiveApproved

-----------------------------------------------------------------------------
(***************************************************************************)
(* Cells, failovers and cell migrations                                    *)
(***************************************************************************)

FailoverRows == [status : FailoverStatuses, provider : Providers, from : Cells, to : Cells]
CellMigrationRows ==
    [status : CellMigrationStatuses, provider : Providers, from : Cells, to : Cells,
     precheck_passed : BOOLEAN]

PlacementTyped ==
    /\ cellStatus \in [Cells -> CellStatuses \cup {"none"}]
    /\ cellOf \in [Providers -> Cells]
    /\ failovers \in [FailoverIds -> FailoverRows \cup {NoRow}]
    /\ cellMigrations \in [CellMigrationIds -> CellMigrationRows \cup {NoRow}]
    /\ DOMAIN optx = CellOperators

\* The outbox row of this type and entity is among the rows.
Logged(rows, type, id) == <<"outbox", type, id>> \in rows

FailoverOps == {"fence", "switch", "complete", "abort"}
MigrationOps == {"precheck", "execute", "cancel"}

\* What an open transaction has read stays true of the rows it will write:
\* they exist, a failover to be switched was fenced at some time, one to be
\* completed was switched, and a migration to be executed passed its precheck.
TxSound(t) ==
    /\ t.op \in {"idle", "assign", "initiate", "plan"} \cup FailoverOps \cup MigrationOps
    /\ t.op \in {"assign", "initiate", "plan"} => t.provider \in Providers /\ t.to \in Cells
    /\ t.op \in {"initiate", "plan"} => t.from \in Cells
    /\ t.op \in FailoverOps => t.id \in FailoverIds /\ failovers[t.id] \in FailoverRows
    /\ t.op \in MigrationOps => t.id \in CellMigrationIds /\ cellMigrations[t.id] \in CellMigrationRows
    /\ t.op = "switch" => Happened("failover.fenced", t.id)
    /\ t.op = "complete" => Happened("failover.switched", t.id)
    /\ t.op = "execute" => Happened("cell_migration.prechecked", t.id)

\* What a row says of its past.
RowsHavePast ==
    /\ \A f \in FailoverIds :
          /\ failovers[f].status = "fenced" => Happened("failover.fenced", f)
          /\ failovers[f].status \in {"switched", "replaying"} => Happened("failover.switched", f)
    /\ \A m \in CellMigrationIds :
          cellMigrations[m].status = "ready" => Happened("cell_migration.prechecked", m)

PlacementInv ==
    /\ PlacementTyped /\ RowsHavePast
    /\ \A o \in CellOperators : TxSound(optx[o])
    /\ StagesInOrder

\* A missing row has a status of its own and is no failover and no migration.
LEMMA NoRowStatus ==
    NoRow.status = "none" /\ NoRow \notin FailoverRows /\ NoRow \notin CellMigrationRows
<1>1. NoRow.status = "none" BY DEF NoRow
<1>2. ASSUME NEW r \in FailoverRows PROVE r.status # "none" BY DEF FailoverRows, FailoverStatuses
<1>3. ASSUME NEW r \in CellMigrationRows PROVE r.status # "none"
  BY DEF CellMigrationRows, CellMigrationStatuses
<1> QED BY <1>1, <1>2, <1>3

\* An operator without an open call has read nothing that could be stale.
LEMMA IdleSound == TxSound(Idle) /\ Idle.op = "idle"
BY DEF TxSound, Idle, FailoverOps, MigrationOps

\* Rows are never deleted, and the trail only grows: an open transaction keeps
\* being sound.
LEMMA OpenTxStaysSound ==
    ASSUME NEW t, TxSound(t), trail \subseteq trail',
           \A f \in FailoverIds : failovers[f] \in FailoverRows => failovers'[f] \in FailoverRows,
           \A m \in CellMigrationIds :
              cellMigrations[m] \in CellMigrationRows => cellMigrations'[m] \in CellMigrationRows
    PROVE  TxSound(t)'
BY DEF TxSound, Happened, Logged

\* A commit that logs a stage finds the stage before it in the trail.
LEMMA StagesKept ==
    ASSUME PlacementInv, trail \subseteq trail',
           \A f \in FailoverIds :
              /\ Logged(trail', "failover.switched", f)
                    => Happened("failover.switched", f) \/ Happened("failover.fenced", f)
              /\ Logged(trail', "failover.completed", f)
                    => Happened("failover.completed", f) \/ Happened("failover.switched", f),
           \A m \in CellMigrationIds :
              Logged(trail', "cell_migration.completed", m)
                 => Happened("cell_migration.completed", m) \/ Happened("cell_migration.prechecked", m)
    PROVE  StagesInOrder'
BY DEF PlacementInv, StagesInOrder, Happened, Logged

\* A request reads and checks; only its transaction changes.
LEMMA BeginKeepsPlacement ==
    ASSUME PlacementInv, NEW o \in CellOperators, NEW t, BeginTx(o, t), TxSound(t)
    PROVE  PlacementInv'
<1>1. optx' = [optx EXCEPT ![o] = t] /\ UNCHANGED <<cellStatus, cellOf, failovers, cellMigrations, trail>>
  BY DEF BeginTx
<1>2. DOMAIN optx' = CellOperators /\ \A p \in CellOperators : optx'[p] = IF p = o THEN t ELSE optx[p]
  BY <1>1 DEF PlacementInv, PlacementTyped
<1>3. ASSUME NEW p \in CellOperators PROVE TxSound(optx'[p]) 
  BY <1>2 DEF PlacementInv
<1>4. \A p \in CellOperators : TxSound(optx[p])' BY <1>1, <1>3 DEF TxSound, Happened, Logged
<1>5. PlacementTyped' /\ RowsHavePast' /\ StagesInOrder'
  BY <1>1, <1>2 DEF PlacementInv, PlacementTyped, RowsHavePast, StagesInOrder, Happened, Logged
<1> QED BY <1>4, <1>5 DEF PlacementInv

\* A call that reads and checks changes no cell, failover or migration.
LEMMA RequestsKeepPlacement ==
    ASSUME PlacementInv, NEW o \in CellOperators, PlacementRequest(o)
    PROVE  PlacementInv'
<1>1. CASE assignProviderCell(o)
  <2>1. PICK p \in Providers, c \in Cells : BeginTx(o, [op |-> "assign", provider |-> p, to |-> c])
    BY <1>1 DEF assignProviderCell, AssignProviderCell
  <2>2. TxSound([op |-> "assign", provider |-> p, to |-> c]) BY DEF TxSound, FailoverOps, MigrationOps
  <2> QED BY <2>1, <2>2, BeginKeepsPlacement
<1>2. CASE initiateFailover(o) \/ createCellMigration(o)
  <2>1. PICK op \in {"initiate", "plan"}, p \in Providers, from \in Cells, to \in Cells :
            BeginTx(o, [op |-> op, provider |-> p, from |-> from, to |-> to])
    BY <1>2 DEF initiateFailover, InitiateFailover, createCellMigration, CreateCellMigration
  <2>2. TxSound([op |-> op, provider |-> p, from |-> from, to |-> to])
    BY DEF TxSound, FailoverOps, MigrationOps
  <2> QED BY <2>1, <2>2, BeginKeepsPlacement
<1>3. CASE fenceFailover(o) \/ switchFailover(o) \/ completeFailover(o) \/ abortFailover(o)
  <2>1. PICK f \in FailoverIds, op \in FailoverOps :
            /\ BeginTx(o, [op |-> op, id |-> f, seen |-> failovers[f].status])
            /\ failovers[f].status # "none"
            /\ op = "switch" => failovers[f].status = "fenced"
            /\ op = "complete" => failovers[f].status \in {"switched", "replaying"}
    BY <1>3 DEF fenceFailover, FenceFailover, switchFailover, SwitchFailover, completeFailover,
                CompleteFailover, abortFailover, AbortFailover, requireStatus, GetCellFailoverByID, FailoverOps
  <2>2. failovers[f] \in FailoverRows BY <2>1, NoRowStatus DEF PlacementInv, PlacementTyped
  <2>3. /\ op = "switch" => Happened("failover.fenced", f)
        /\ op = "complete" => Happened("failover.switched", f)
    BY <2>1 DEF PlacementInv, RowsHavePast
  <2>4. TxSound([op |-> op, id |-> f, seen |-> failovers[f].status])
    BY <2>2, <2>3 DEF TxSound, FailoverOps, MigrationOps
  <2> QED BY <2>1, <2>4, BeginKeepsPlacement
<1>4. CASE precheckMigration(o) \/ executeMigration(o) \/ cancelMigration(o)
  <2>1. PICK m \in CellMigrationIds, op \in MigrationOps :
            /\ BeginTx(o, [op |-> op, id |-> m])
            /\ cellMigrations[m].status # "none"
            /\ op = "execute" => cellMigrations[m].status = "ready"
    BY <1>4 DEF precheckMigration, PrecheckMigration, executeMigration, ExecuteMigration,
                cancelMigration, CancelMigration, requireStatus, GetCellMigrationByID, MigrationOps
  <2>2. cellMigrations[m] \in CellMigrationRows BY <2>1, NoRowStatus DEF PlacementInv, PlacementTyped
  <2>3. op = "execute" => Happened("cell_migration.prechecked", m) BY <2>1 DEF PlacementInv, RowsHavePast
  <2>4. TxSound([op |-> op, id |-> m]) BY <2>2, <2>3 DEF TxSound, FailoverOps, MigrationOps
  <2> QED BY <2>1, <2>4, BeginKeepsPlacement
<1> QED BY <1>1, <1>2, <1>3, <1>4 DEF PlacementRequest

\* A commit ends its transaction; the others stay sound.
LEMMA CommitEndsTx ==
    ASSUME PlacementInv, NEW o \in CellOperators, optx' = [optx EXCEPT ![o] = Idle],
           trail \subseteq trail',
           \A f \in FailoverIds : failovers[f] \in FailoverRows => failovers'[f] \in FailoverRows,
           \A m \in CellMigrationIds :
              cellMigrations[m] \in CellMigrationRows => cellMigrations'[m] \in CellMigrationRows
    PROVE  DOMAIN optx' = CellOperators /\ \A p \in CellOperators : TxSound(optx[p])'
<1>1. DOMAIN optx' = CellOperators /\ \A p \in CellOperators : optx'[p] \in {Idle, optx[p]}
  BY DEF PlacementInv, PlacementTyped
<1>2. ASSUME NEW p \in CellOperators PROVE TxSound(optx[p])'
  <2> DEFINE t == optx'[p]
  <2>1. TxSound(t) BY <1>1, IdleSound DEF PlacementInv
  <2> HIDE DEF t
  <2>2. /\ t.op \in {"idle", "assign", "initiate", "plan"} \cup FailoverOps \cup MigrationOps
        /\ t.op \in {"assign", "initiate", "plan"} => t.provider \in Providers /\ t.to \in Cells
        /\ t.op \in {"initiate", "plan"} => t.from \in Cells
        /\ t.op \in FailoverOps => t.id \in FailoverIds /\ failovers'[t.id] \in FailoverRows
        /\ t.op \in MigrationOps => t.id \in CellMigrationIds /\ cellMigrations'[t.id] \in CellMigrationRows
        /\ t.op = "switch" => <<"outbox", "failover.fenced", t.id>> \in trail'
        /\ t.op = "complete" => <<"outbox", "failover.switched", t.id>> \in trail'
        /\ t.op = "execute" => <<"outbox", "cell_migration.prechecked", t.id>> \in trail'
    BY <2>1 DEF TxSound, Happened, Logged
  <2> QED BY <2>2 DEF t, TxSound, Happened, Logged
<1> QED BY <1>1, <1>2

\* The commits that write one failover row, and perhaps its source cell.
LEMMA FailoverCommitKeeps ==
    ASSUME PlacementInv, NEW o \in CellOperators, optx' = [optx EXCEPT ![o] = Idle],
           NEW f \in FailoverIds, failovers[f] \in FailoverRows, NEW s \in FailoverStatuses,
           failovers' = [failovers EXCEPT ![f].status = s], UNCHANGED cellMigrations,
           trail \subseteq trail', cellOf' \in [Providers -> Cells], StagesInOrder',
           s = "fenced" => Logged(trail', "failover.fenced", f),
           s \in {"switched", "replaying"} => Logged(trail', "failover.switched", f),
           \/ cellStatus' = cellStatus
           \/ cellStatus' = [cellStatus EXCEPT ![failovers[f].from] = "draining"]
           \/ cellStatus' = [cellStatus EXCEPT ![failovers[f].from] = "active"]
    PROVE  PlacementInv'
<1> DEFINE row == [failovers[f] EXCEPT !.status = s]
           c == failovers[f].from
<1>1. row \in FailoverRows /\ row.status = s /\ c \in Cells BY DEF FailoverRows
<1>2. failovers' = [failovers EXCEPT ![f] = row] BY DEF PlacementInv, PlacementTyped
<1>3. \/ cellStatus' = cellStatus
      \/ cellStatus' = [cellStatus EXCEPT ![c] = "draining"]
      \/ cellStatus' = [cellStatus EXCEPT ![c] = "active"]
  OBVIOUS
<1> HIDE DEF row, c
<1>4. /\ failovers' \in [FailoverIds -> FailoverRows \cup {NoRow}]
      /\ failovers'[f] = row /\ \A g \in FailoverIds \ {f} : failovers'[g] = failovers[g]
  BY <1>1, <1>2 DEF PlacementInv, PlacementTyped
<1>5. cellStatus' \in [Cells -> CellStatuses \cup {"none"}]
  BY <1>1, <1>3 DEF PlacementInv, PlacementTyped, CellStatuses
<1>6. DOMAIN optx' = CellOperators /\ \A p \in CellOperators : TxSound(optx[p])'
  BY <1>1, <1>4, CommitEndsTx
<1>7. PlacementTyped' BY <1>4, <1>5, <1>6 DEF PlacementInv, PlacementTyped
<1>8. RowsHavePast'
  <2>1. ASSUME NEW g \in FailoverIds
        PROVE  /\ failovers'[g].status = "fenced" => Logged(trail', "failover.fenced", g)
               /\ failovers'[g].status \in {"switched", "replaying"} => Logged(trail', "failover.switched", g)
    <3>1. CASE g = f BY <1>1, <1>4, <3>1
    <3>2. CASE g # f
      <4>1. failovers'[g] = failovers[g] BY <1>4, <3>2
      <4> QED BY <3>2, <4>1 DEF PlacementInv, RowsHavePast, Happened, Logged
    <3> QED BY <3>1, <3>2
  <2>2. \A m \in CellMigrationIds :
          cellMigrations'[m].status = "ready" => Logged(trail', "cell_migration.prechecked", m)
    BY DEF PlacementInv, RowsHavePast, Happened, Logged
  <2> QED BY <2>1, <2>2 DEF RowsHavePast, Happened, Logged
<1> QED BY <1>6, <1>7, <1>8 DEF PlacementInv

\* The steps that leave the failover rows alone.
LEMMA FailoversAlone ==
    ASSUME PlacementInv, UNCHANGED failovers, trail \subseteq trail',
           cellStatus' \in [Cells -> CellStatuses \cup {"none"}], cellOf' \in [Providers -> Cells],
           cellMigrations' \in [CellMigrationIds -> CellMigrationRows \cup {NoRow}],
           \/ UNCHANGED optx
           \/ \E o \in CellOperators : optx' = [optx EXCEPT ![o] = Idle],
           \A m \in CellMigrationIds :
              /\ cellMigrations[m] \in CellMigrationRows => cellMigrations'[m] \in CellMigrationRows
              /\ cellMigrations'[m].status = "ready" => Logged(trail', "cell_migration.prechecked", m),
           StagesInOrder'
    PROVE  PlacementInv'
<1>1. DOMAIN optx' = CellOperators /\ \A p \in CellOperators : TxSound(optx[p])'
  <2>1. CASE UNCHANGED optx
    BY <2>1 DEF PlacementInv, PlacementTyped, TxSound, Happened, Logged
  <2>2. CASE \E o \in CellOperators : optx' = [optx EXCEPT ![o] = Idle] BY <2>2, CommitEndsTx
  <2> QED BY <2>1, <2>2
<1>2. PlacementTyped' BY <1>1 DEF PlacementInv, PlacementTyped
<1>3. RowsHavePast' BY DEF PlacementInv, RowsHavePast, Happened, Logged
<1> QED BY <1>1, <1>2, <1>3 DEF PlacementInv

\* Creating a cell, changing its status and assigning a provider.
LEMMA CellsKeepPlacement ==
    ASSUME PlacementInv,
           createCell \/ updateCellStatus \/ \E o \in CellOperators : AssignProviderCellCommit(o)
    PROVE  PlacementInv'
<1>0. \A m \in CellMigrationIds :
          cellMigrations[m].status = "ready" => Happened("cell_migration.prechecked", m)
  BY DEF PlacementInv, RowsHavePast
<1>1. CASE createCell
  <2>1. PICK c \in Cells, s \in CellStatuses : CreateCell(c, s) BY <1>1 DEF createCell
  <2>2. /\ cellStatus[c] = "none" /\ cellStatus' = [cellStatus EXCEPT ![c] = s]
        /\ trail' = trail \cup {<<"outbox", "cell.created", c>>, <<"audit", "cell.create", c>>}
        /\ UNCHANGED <<cellOf, failovers, cellMigrations, optx>>
    BY <2>1 DEF CreateCell, CreateCellRow, AppendRows, emitOutboxTx, insertAuditTx
  <2>3. StagesInOrder'
    BY <2>2, StagesKept DEF Happened, Logged
  <2>4. cellStatus' \in [Cells -> CellStatuses \cup {"none"}]
    BY <2>2 DEF PlacementInv, PlacementTyped
  <2>5. \A m \in CellMigrationIds :
          cellMigrations'[m].status = "ready" => Logged(trail', "cell_migration.prechecked", m)
    BY <1>0, <2>2 DEF Happened, Logged
  <2> QED BY <2>2, <2>3, <2>4, <2>5, FailoversAlone DEF PlacementInv, PlacementTyped
<1>2. CASE updateCellStatus
  <2>1. PICK c \in Cells, s \in CellStatuses : ChangeCellStatus(c, s) BY <1>2 DEF updateCellStatus
  <2>2. /\ cellStatus' = [cellStatus EXCEPT ![c] = s]
        /\ trail' = trail \cup {<<"outbox", "cell.status_changed", c>>, <<"audit", "cell.status_change", c>>}
        /\ UNCHANGED <<cellOf, failovers, cellMigrations, optx>>
    BY <2>1 DEF ChangeCellStatus, UpdateCellStatus, AppendRows, emitOutboxTx, insertAuditTx
  <2>3. StagesInOrder'
    BY <2>2, StagesKept DEF Happened, Logged
  <2>4. cellStatus' \in [Cells -> CellStatuses \cup {"none"}]
    BY <2>2 DEF PlacementInv, PlacementTyped
  <2>5. \A m \in CellMigrationIds :
          cellMigrations'[m].status = "ready" => Logged(trail', "cell_migration.prechecked", m)
    BY <1>0, <2>2 DEF Happened, Logged
  <2> QED BY <2>2, <2>3, <2>4, <2>5, FailoversAlone DEF PlacementInv, PlacementTyped
<1>3. ASSUME NEW o \in CellOperators, AssignProviderCellCommit(o) PROVE PlacementInv'
  <2> DEFINE p == optx[o].provider
             c == optx[o].to
  <2>1. p \in Providers /\ c \in Cells
    BY <1>3 DEF AssignProviderCellCommit, CommitTx, PlacementInv, TxSound
  <2>2. /\ optx' = [optx EXCEPT ![o] = Idle] /\ cellOf' = [cellOf EXCEPT ![p] = c]
        /\ trail' = trail \cup {<<"outbox", "provider.cell_assigned", p>>, <<"audit", "provider.cell_assign", c>>}
        /\ UNCHANGED <<cellStatus, failovers, cellMigrations>>
    BY <1>3 DEF AssignProviderCellCommit, CommitTx, UpdateProviderCell, AppendRows, emitOutboxTx, insertAuditTx
  <2> HIDE DEF p, c
  <2>3. StagesInOrder'
    BY <2>2, StagesKept DEF Happened, Logged
  <2>4. cellOf' \in [Providers -> Cells] BY <2>1, <2>2 DEF PlacementInv, PlacementTyped
  <2>5. \A m \in CellMigrationIds :
          cellMigrations'[m].status = "ready" => Logged(trail', "cell_migration.prechecked", m)
    BY <1>0, <2>2 DEF Happened, Logged
  <2> QED BY <2>2, <2>3, <2>4, <2>5, FailoversAlone DEF PlacementInv, PlacementTyped
<1> QED BY <1>1, <1>2, <1>3

\* A new failover row.
LEMMA InitiateKeepsPlacement ==
    ASSUME PlacementInv, NEW o \in CellOperators, InitiateFailoverCommit(o)
    PROVE  PlacementInv'
<1> DEFINE p == optx[o].provider
           from == optx[o].from
           to == optx[o].to
<1>1. p \in Providers /\ from \in Cells /\ to \in Cells
  BY DEF InitiateFailoverCommit, CommitTx, PlacementInv, TxSound
<1>2. /\ optx' = [optx EXCEPT ![o] = Idle] /\ UNCHANGED <<cellStatus, cellOf, cellMigrations>>
      /\ CreateCellFailover(p, from, to)
  BY DEF InitiateFailoverCommit, CommitTx
<1> HIDE DEF p, from, to
<1> DEFINE row == [status |-> "initiated", provider |-> p, from |-> from, to |-> to]
<1>3. PICK f \in FailoverIds :
          /\ failovers[f] = NoRow /\ failovers' = [failovers EXCEPT ![f] = row]
          /\ trail' = trail \cup {<<"outbox", "failover.initiated", f>>, <<"audit", "failover.initiate", f>>}
  BY <1>2 DEF CreateCellFailover, AppendRows, emitOutboxTx, insertAuditTx
<1>4. row \in FailoverRows /\ row.status = "initiated" BY <1>1 DEF FailoverRows, FailoverStatuses
<1> HIDE DEF row
<1>5. /\ failovers' \in [FailoverIds -> FailoverRows \cup {NoRow}]
      /\ failovers'[f] = row /\ \A g \in FailoverIds \ {f} : failovers'[g] = failovers[g]
  BY <1>3, <1>4 DEF PlacementInv, PlacementTyped
<1>6. DOMAIN optx' = CellOperators /\ \A q \in CellOperators : TxSound(optx[q])'
  BY <1>2, <1>3, <1>4, <1>5, CommitEndsTx
<1>7. PlacementTyped' BY <1>2, <1>5, <1>6 DEF PlacementInv, PlacementTyped
<1>8. RowsHavePast'
  <2>1. ASSUME NEW g \in FailoverIds
        PROVE  /\ failovers'[g].status = "fenced" => Logged(trail', "failover.fenced", g)
               /\ failovers'[g].status \in {"switched", "replaying"} => Logged(trail', "failover.switched", g)
    <3>1. CASE g = f BY <1>4, <1>5, <3>1
    <3>2. CASE g # f
      <4>1. failovers'[g] = failovers[g] BY <1>5, <3>2
      <4> QED BY <1>3, <4>1 DEF PlacementInv, RowsHavePast, Happened, Logged
    <3> QED BY <3>1, <3>2
  <2>2. \A m \in CellMigrationIds :
          cellMigrations'[m].status = "ready" => Logged(trail', "cell_migration.prechecked", m)
    BY <1>2, <1>3 DEF PlacementInv, RowsHavePast, Happened, Logged
  <2> QED BY <2>1, <2>2 DEF RowsHavePast, Happened, Logged
<1>9. StagesInOrder'
  BY <1>3, StagesKept DEF Happened, Logged
<1> QED BY <1>6, <1>7, <1>8, <1>9 DEF PlacementInv

\* The commits of a failover: fence, switch, complete and abort.
LEMMA FailoversKeepPlacement ==
    ASSUME PlacementInv, NEW o \in CellOperators,
           \/ FenceFailoverCommit(o) \/ SwitchFailoverCommit(o)
           \/ CompleteFailoverCommit(o) \/ AbortFailoverCommit(o)
    PROVE  PlacementInv'
<1> DEFINE f == optx[o].id
<1>1. optx[o].op \in FailoverOps /\ optx' = [optx EXCEPT ![o] = Idle] /\ UNCHANGED cellMigrations
  BY DEF FenceFailoverCommit, SwitchFailoverCommit, CompleteFailoverCommit, AbortFailoverCommit, CommitTx,
         FailoverOps
<1>2. /\ f \in FailoverIds /\ failovers[f] \in FailoverRows
      /\ optx[o].op = "switch" => Happened("failover.fenced", f)
      /\ optx[o].op = "complete" => Happened("failover.switched", f)
  BY <1>1 DEF PlacementInv, TxSound
<1>3. failovers[f].provider \in Providers /\ failovers[f].to \in Cells BY <1>2 DEF FailoverRows
<1>4. CASE FenceFailoverCommit(o)
  <2>1. /\ cellStatus' = [cellStatus EXCEPT ![failovers[f].from] = "draining"]
        /\ failovers' = [failovers EXCEPT ![f].status = "fenced"] /\ UNCHANGED cellOf
        /\ trail' = trail \cup {<<"outbox", "failover.fenced", f>>, <<"audit", "failover.fence", f>>}
    BY <1>4 DEF FenceFailoverCommit, UpdateCellStatus, UpdateCellFailoverStatus, AppendRows, emitOutboxTx,
                insertAuditTx
  <2> HIDE DEF f
  <2>2. Logged(trail', "failover.fenced", f) /\ trail \subseteq trail' /\ StagesInOrder'
    BY <2>1, StagesKept DEF Happened, Logged
  <2> QED BY <1>1, <1>2, <2>1, <2>2, FailoverCommitKeeps DEF PlacementInv, PlacementTyped, FailoverStatuses
<1>5. CASE SwitchFailoverCommit(o)
  <2>1. /\ cellOf' = [cellOf EXCEPT ![failovers[f].provider] = failovers[f].to]
        /\ failovers' = [failovers EXCEPT ![f].status = "switched"] /\ UNCHANGED cellStatus
        /\ trail' = trail \cup {<<"outbox", "failover.switched", f>>, <<"audit", "failover.switch", f>>}
    BY <1>5 DEF SwitchFailoverCommit, UpdateProviderCell, UpdateCellFailoverStatus, AppendRows, emitOutboxTx,
                insertAuditTx
  <2> HIDE DEF f
  <2>2. trail \subseteq trail' /\ Logged(trail', "failover.switched", f) /\ StagesInOrder'
    BY <1>2, <1>5, <2>1, StagesKept DEF Happened, Logged, SwitchFailoverCommit, CommitTx
  <2>3. cellOf' \in [Providers -> Cells] BY <1>3, <2>1 DEF PlacementInv, PlacementTyped
  <2> QED BY <1>1, <1>2, <2>1, <2>2, <2>3, FailoverCommitKeeps DEF FailoverStatuses
<1>6. CASE CompleteFailoverCommit(o)
  <2>1. /\ failovers' = [failovers EXCEPT ![f].status = "completed"] /\ UNCHANGED <<cellStatus, cellOf>>
        /\ trail' = trail \cup {<<"outbox", "failover.completed", f>>, <<"audit", "failover.complete", f>>}
    BY <1>6 DEF CompleteFailoverCommit, UpdateCellFailoverStatus, AppendRows, emitOutboxTx, insertAuditTx
  <2> HIDE DEF f
  <2>2. trail \subseteq trail' /\ StagesInOrder'
    BY <1>2, <1>6, <2>1, StagesKept DEF Happened, Logged, CompleteFailoverCommit, CommitTx
  <2> QED BY <1>1, <1>2, <2>1, <2>2, FailoverCommitKeeps DEF PlacementInv, PlacementTyped, FailoverStatuses
<1>7. CASE AbortFailoverCommit(o)
  <2>1. /\ failovers' = [failovers EXCEPT ![f].status = "aborted"] /\ UNCHANGED cellOf
        /\ \/ cellStatus' = cellStatus
           \/ cellStatus' = [cellStatus EXCEPT ![failovers[f].from] = "active"]
        /\ trail' = trail \cup {<<"outbox", "failover.aborted", f>>, <<"audit", "failover.abort", f>>}
    BY <1>7 DEF AbortFailoverCommit, UpdateCellStatus, UpdateCellFailoverStatus, AppendRows, emitOutboxTx,
                insertAuditTx
  <2> HIDE DEF f
  <2>2. trail \subseteq trail' /\ StagesInOrder'
    BY <2>1, StagesKept DEF Happened, Logged
  <2> QED BY <1>1, <1>2, <2>1, <2>2, FailoverCommitKeeps DEF PlacementInv, PlacementTyped, FailoverStatuses
<1> QED BY <1>4, <1>5, <1>6, <1>7

\* The commits of a cell migration write its row, and drain its source.
LEMMA MigrationsKeepPlacement ==
    ASSUME PlacementInv, NEW o \in CellOperators,
           \/ CreateCellMigrationCommit(o) \/ PrecheckMigrationCommit(o)
           \/ ExecuteMigrationCommit(o) \/ CancelMigrationCommit(o)
    PROVE  PlacementInv'
<1>0. /\ optx' = [optx EXCEPT ![o] = Idle] /\ UNCHANGED failovers
  BY DEF CreateCellMigrationCommit, PrecheckMigrationCommit, ExecuteMigrationCommit, CancelMigrationCommit,
         CommitTx
<1>1. SUFFICES ASSUME NEW m \in CellMigrationIds, NEW row \in CellMigrationRows,
                      cellMigrations' = [cellMigrations EXCEPT ![m] = row],
                      trail \subseteq trail', cellOf' \in [Providers -> Cells],
                      cellStatus' \in [Cells -> CellStatuses \cup {"none"}],
                      row.status = "ready" => Logged(trail', "cell_migration.prechecked", m),
                      StagesInOrder'
               PROVE  PlacementInv'
  <2>1. CASE CreateCellMigrationCommit(o)
    <3> DEFINE p == optx[o].provider
               from == optx[o].from
               to == optx[o].to
    <3>1. p \in Providers /\ from \in Cells /\ to \in Cells
      BY <2>1 DEF CreateCellMigrationCommit, CommitTx, PlacementInv, TxSound
    <3>2. UNCHANGED <<cellStatus, cellOf>> /\ CreateCellMigrationRow(p, from, to)
      BY <2>1 DEF CreateCellMigrationCommit
    <3> HIDE DEF p, from, to
    <3> DEFINE new == [status |-> "planned", provider |-> p, from |-> from, to |-> to, precheck_passed |-> FALSE]
    <3>3. PICK m \in CellMigrationIds :
              /\ cellMigrations' = [cellMigrations EXCEPT ![m] = new]
              /\ trail' = trail \cup {<<"outbox", "cell_migration.planned", m>>, <<"audit", "cell_migration.plan", m>>}
      BY <3>2 DEF CreateCellMigrationRow, AppendRows, emitOutboxTx, insertAuditTx
    <3>4. new \in CellMigrationRows /\ new.status # "ready"
      BY <3>1 DEF CellMigrationRows, CellMigrationStatuses
    <3> HIDE DEF new
    <3>5. trail \subseteq trail' /\ StagesInOrder'
      BY <3>3, StagesKept DEF Happened, Logged
    <3> QED BY <1>1, <3>2, <3>3, <3>4, <3>5 DEF PlacementInv, PlacementTyped
  <2>2. CASE PrecheckMigrationCommit(o)
    <3> DEFINE m == optx[o].id
               checked == SetCellMigrationPrecheck(cellMigrations[m])
               new == [checked EXCEPT !.status = "ready"]
    <3>1. m \in CellMigrationIds /\ cellMigrations[m] \in CellMigrationRows
      BY <2>2 DEF PrecheckMigrationCommit, CommitTx, PlacementInv, TxSound, MigrationOps
    <3>2. /\ cellMigrations' = [cellMigrations EXCEPT ![m] = new] /\ UNCHANGED <<cellStatus, cellOf>>
          /\ trail' = trail \cup {<<"outbox", "cell_migration.prechecked", m>>, <<"audit", "cell_migration.precheck", m>>}
      BY <2>2 DEF PrecheckMigrationCommit, AppendRows, emitOutboxTx, insertAuditTx, PlacementInv, PlacementTyped
    <3>3. checked \in CellMigrationRows BY <3>1 DEF SetCellMigrationPrecheck, CellMigrationRows
    <3> HIDE DEF checked
    <3>4. new \in CellMigrationRows BY <3>3 DEF CellMigrationRows, CellMigrationStatuses
    <3> HIDE DEF new, m
    <3>5. trail \subseteq trail' /\ Logged(trail', "cell_migration.prechecked", m) /\ StagesInOrder'
      BY <3>2, StagesKept DEF Happened, Logged
    <3> QED BY <1>1, <3>1, <3>2, <3>4, <3>5 DEF PlacementInv, PlacementTyped
  <2>3. CASE ExecuteMigrationCommit(o)
    <3> DEFINE m == optx[o].id
               new == [cellMigrations[m] EXCEPT !.status = "completed"]
    <3>1. /\ m \in CellMigrationIds /\ cellMigrations[m] \in CellMigrationRows
          /\ Happened("cell_migration.prechecked", m)
      BY <2>3 DEF ExecuteMigrationCommit, CommitTx, PlacementInv, TxSound, MigrationOps
    <3>2. /\ cellMigrations' = [cellMigrations EXCEPT ![m] = new]
          /\ cellStatus' = [cellStatus EXCEPT ![cellMigrations[m].from] = "draining"]
          /\ cellOf' = [cellOf EXCEPT ![cellMigrations[m].provider] = cellMigrations[m].to]
          /\ trail' = trail \cup {<<"outbox", "cell_migration.completed", m>>, <<"audit", "cell_migration.execute", m>>}
      BY <2>3 DEF ExecuteMigrationCommit, UpdateCellStatus, UpdateProviderCell, UpdateCellMigrationStatus,
                  AppendRows, emitOutboxTx, insertAuditTx, PlacementInv, PlacementTyped
    <3>3. /\ cellMigrations[m].from \in Cells /\ cellMigrations[m].to \in Cells
          /\ cellMigrations[m].provider \in Providers
          /\ new \in CellMigrationRows /\ new.status = "completed"
      BY <3>1 DEF CellMigrationRows, CellMigrationStatuses
    <3> HIDE DEF new, m
    <3>4. trail \subseteq trail' /\ StagesInOrder'
      BY <3>1, <3>2, StagesKept DEF Happened, Logged
    <3>5. /\ cellStatus' \in [Cells -> CellStatuses \cup {"none"}] /\ cellOf' \in [Providers -> Cells]
      BY <3>2, <3>3 DEF PlacementInv, PlacementTyped, CellStatuses
    <3> QED BY <1>1, <3>1, <3>2, <3>3, <3>4, <3>5
  <2>4. CASE CancelMigrationCommit(o)
    <3> DEFINE m == optx[o].id
               new == [cellMigrations[m] EXCEPT !.status = "cancelled"]
    <3>1. m \in CellMigrationIds /\ cellMigrations[m] \in CellMigrationRows
      BY <2>4 DEF CancelMigrationCommit, CommitTx, PlacementInv, TxSound, MigrationOps
    <3>2. /\ cellMigrations' = [cellMigrations EXCEPT ![m] = new] /\ UNCHANGED <<cellStatus, cellOf>>
          /\ trail' = trail \cup {<<"outbox", "cell_migration.cancelled", m>>, <<"audit", "cell_migration.cancel", m>>}
      BY <2>4 DEF CancelMigrationCommit, UpdateCellMigrationStatus, AppendRows, emitOutboxTx, insertAuditTx,
                  PlacementInv, PlacementTyped
    <3>3. new \in CellMigrationRows /\ new.status = "cancelled"
      BY <3>1 DEF CellMigrationRows, CellMigrationStatuses
    <3> HIDE DEF new, m
    <3>4. trail \subseteq trail' /\ StagesInOrder'
      BY <3>2, StagesKept DEF Happened, Logged
    <3> QED BY <1>1, <3>1, <3>2, <3>3, <3>4 DEF PlacementInv, PlacementTyped
  <2> QED BY <2>1, <2>2, <2>3, <2>4
<1>2. /\ cellMigrations' \in [CellMigrationIds -> CellMigrationRows \cup {NoRow}]
      /\ cellMigrations'[m] = row /\ \A n \in CellMigrationIds \ {m} : cellMigrations'[n] = cellMigrations[n]
  BY <1>1 DEF PlacementInv, PlacementTyped
<1>3. ASSUME NEW n \in CellMigrationIds
      PROVE  /\ cellMigrations[n] \in CellMigrationRows => cellMigrations'[n] \in CellMigrationRows
             /\ cellMigrations'[n].status = "ready" => Logged(trail', "cell_migration.prechecked", n)
  <2>1. CASE n = m BY <1>1, <1>2, <2>1
  <2>2. CASE n # m
    <3>1. cellMigrations'[n] = cellMigrations[n] BY <1>2, <2>2
    <3> QED BY <1>1, <3>1 DEF PlacementInv, RowsHavePast, Happened, Logged
  <2> QED BY <2>1, <2>2
<1> QED BY <1>0, <1>1, <1>2, <1>3, FailoversAlone

\* Every step on cells keeps the invariant.
LEMMA PlacementStep == PlacementInv /\ [PlacementNext]_placementVars => PlacementInv'
<1> SUFFICES ASSUME PlacementInv, [PlacementNext]_placementVars PROVE PlacementInv'
  OBVIOUS
<1>1. CASE UNCHANGED placementVars
  BY <1>1 DEF placementVars, placementState, PlacementInv, PlacementTyped, RowsHavePast, TxSound, Happened, Logged,
              StagesInOrder
<1>2. CASE PlacementNext
  BY <1>2, CellsKeepPlacement, RequestsKeepPlacement, InitiateKeepsPlacement, FailoversKeepPlacement,
     MigrationsKeepPlacement DEF PlacementNext, PlacementCommit
<1> QED BY <1>1, <1>2

\* The invariant of cells, failovers and migrations.
LEMMA PlacementInvariant == PlacementSpec => []PlacementInv
<1>1. PlacementInit => PlacementInv
  <2> SUFFICES ASSUME PlacementInit PROVE PlacementInv
    OBVIOUS
  <2>1. PlacementTyped BY PlacementAssumption DEF PlacementInit, PlacementTyped, CellStatuses
  <2>2. \A f \in FailoverIds : failovers[f].status = "none" BY NoRowStatus DEF PlacementInit
  <2>3. \A m \in CellMigrationIds : cellMigrations[m].status = "none" BY NoRowStatus DEF PlacementInit
  <2>4. \A o \in CellOperators : TxSound(optx[o]) BY IdleSound DEF PlacementInit
  <2> QED BY <2>1, <2>2, <2>3, <2>4 DEF PlacementInit, PlacementInv, RowsHavePast, StagesInOrder, Happened, Logged
<1> QED BY <1>1, PlacementStep, PTL DEF PlacementSpec

\* Whatever the operators of cell_failover.go and cell_migration.go interleave
\* between the read and the unguarded write of their transactions, no stage is
\* skipped: what is switched was fenced, what is completed was switched, and
\* what is executed was prechecked.
THEOREM FailoverStages == PlacementSpec => []StagesInOrder
BY PlacementInvariant, PTL DEF PlacementInv

-----------------------------------------------------------------------------
(***************************************************************************)
(* Migration jobs                                                          *)
(***************************************************************************)

\* A request in flight names a job, the records of its batch and, between the
\* two transactions of an import, the record it has just created a customer for.
InFlight(q) ==
    /\ mreq[q].op \in {"idle", "add", "validate", "list", "import", "mark"}
    /\ mreq[q].op # "idle" => mreq[q].job \in Jobs
    /\ mreq[q].op \in {"import", "mark"} => mreq[q].batch \subseteq Records
    /\ mreq[q].op = "mark" => mreq[q].rec \in Records

MigrationTyped ==
    /\ MigrationTypeOK
    /\ target \in [Jobs -> [Records -> ExternalIds \cup {NoTarget}]]
    /\ DOMAIN mreq = Requests
    /\ \A q \in Requests : InFlight(q)

\* A customer created for a record that is not marked yet is named by that
\* request alone.
Marking(q) == mreq[q].op = "mark"
Created(q) == ExternalCode[mreq[q].rec]
ImportsPending ==
    /\ \A q \in Requests : Marking(q) =>
          /\ Created(q) \in customers
          /\ \A j \in Jobs, r \in Records : recStatus[j][r] = "imported" => target[j][r] # Created(q)
    /\ \A p, q \in Requests : Marking(p) /\ Marking(q) /\ Created(p) = Created(q) => p = q

MigrationInv ==
    /\ MigrationTyped /\ LockFollowsJob
    /\ ImportsPending /\ ImportsNameDistinctCustomers

\* The requests other than q keep what they are doing.
LEMMA OneRequestTyped ==
    ASSUME MigrationTyped, NEW q \in Requests, NEW t, mreq' = [mreq EXCEPT ![q] = t],
           t.op \in {"idle", "add", "validate", "list", "import", "mark"},
           t.op # "idle" => t.job \in Jobs,
           t.op \in {"import", "mark"} => t.batch \subseteq Records,
           t.op = "mark" => t.rec \in Records
    PROVE  /\ DOMAIN mreq' = Requests
           /\ mreq'[q] = t /\ \A p \in Requests \ {q} : mreq'[p] = mreq[p]
           /\ \A p \in Requests : InFlight(p)'
<1>1. DOMAIN mreq' = Requests /\ mreq'[q] = t /\ \A p \in Requests \ {q} : mreq'[p] = mreq[p]
  BY DEF MigrationTyped
<1>2. ASSUME NEW p \in Requests PROVE InFlight(p)'
  <2>1. CASE p = q BY <1>1, <2>1 DEF InFlight
  <2>2. CASE p # q
    <3>1. mreq'[p] = mreq[p] BY <1>1, <2>2
    <3> QED BY <3>1 DEF MigrationTyped, InFlight
  <2> QED BY <2>1, <2>2
<1> QED BY <1>1, <1>2

\* What the request does next, after one record of its batch.
LEMMA NextRecordTyped ==
    ASSUME MigrationTyped, NEW q \in Requests, mreq[q].op \in {"import", "mark"},
           NEW r \in Records, NextRecord(q, r)
    PROVE  /\ DOMAIN mreq' = Requests /\ \A p \in Requests : InFlight(p)'
           /\ ~Marking(q)'
           /\ \A p \in Requests \ {q} : mreq'[p] = mreq[p]
<1>1. mreq[q].job \in Jobs /\ mreq[q].batch \subseteq Records BY DEF MigrationTyped, InFlight
<1>2. CASE mreq[q].batch \ {r} = {}
  <2> DEFINE t == [op |-> "list", job |-> mreq[q].job]
  <2>1. mreq' = [mreq EXCEPT ![q] = t] BY <1>2 DEF NextRecord
  <2>2. t.op = "list" /\ t.job \in Jobs BY <1>1
  <2> HIDE DEF t
  <2> QED BY <2>1, <2>2, OneRequestTyped DEF Marking
<1>3. CASE mreq[q].batch \ {r} # {}
  <2> DEFINE t == [op |-> "import", job |-> mreq[q].job, batch |-> mreq[q].batch \ {r}]
  <2>1. mreq' = [mreq EXCEPT ![q] = t] BY <1>3 DEF NextRecord
  <2>2. t.op = "import" /\ t.job \in Jobs /\ t.batch \subseteq Records BY <1>1
  <2> HIDE DEF t
  <2> QED BY <2>1, <2>2, OneRequestTyped DEF Marking
<1> QED BY <1>2, <1>3

\* A step that imports nothing keeps the imports apart.
LEMMA NothingImported ==
    ASSUME MigrationInv, customers \subseteq customers', target' = target,
           \A j \in Jobs, r \in Records : recStatus'[j][r] = "imported" => recStatus[j][r] = "imported",
           \A q \in Requests : Marking(q)' => Marking(q) /\ mreq'[q].rec = mreq[q].rec
    PROVE  ImportsPending' /\ ImportsNameDistinctCustomers'
<1>1. ImportsNameDistinctCustomers' BY DEF MigrationInv, ImportsNameDistinctCustomers
<1>2. ImportsPending'
  <2>1. ASSUME NEW q \in Requests, Marking(q)'
        PROVE  Marking(q) /\ Created(q)' = Created(q)
    BY <2>1 DEF Created
  <2>2. ASSUME NEW q \in Requests, Marking(q)'
        PROVE  /\ Created(q)' \in customers'
               /\ \A j \in Jobs, r \in Records :
                     recStatus'[j][r] = "imported" => target'[j][r] # Created(q)'
    BY <2>1, <2>2 DEF MigrationInv, ImportsPending
  <2>3. ASSUME NEW p \in Requests, NEW q \in Requests, Marking(p)', Marking(q)', Created(p)' = Created(q)'
        PROVE  p = q
    BY <2>1, <2>3 DEF MigrationInv, ImportsPending
  <2> QED BY <2>2, <2>3 DEF ImportsPending
<1> QED BY <1>1, <1>2

\* A step that leaves the jobs alone keeps their locks.
LEMMA JobsAlone ==
    ASSUME MigrationInv, jobStatus' = jobStatus, cutoverLocked' = cutoverLocked
    PROVE  LockFollowsJob'
BY DEF MigrationInv, LockFollowsJob

\* The operations on a whole job.
LEMMA JobStepsKeepInv ==
    ASSUME MigrationInv,
           \/ createMigrationJob \/ completeMigration \/ rollbackMigration
           \/ createCustomer /\ UNCHANGED migrationState
    PROVE  MigrationInv'
<1>0. /\ mreq' = mreq /\ target' = target /\ customers \subseteq customers'
  BY DEF createMigrationJob, CreateMigrationJob, completeMigration, CompleteMigration,
         rollbackMigration, RollbackMigration, createCustomer, CreateCustomer,
         InsertCustomerAccount, migrationState
<1>1. \A q \in Requests : /\ InFlight(q)'
                          /\ Marking(q)' => Marking(q) /\ mreq'[q].rec = mreq[q].rec
  BY <1>0 DEF MigrationInv, MigrationTyped, InFlight, Marking
<1>2. CASE createMigrationJob
  <2>1. PICK j \in Jobs : CreateMigrationJob(j) BY <1>2 DEF createMigrationJob
  <2>2. /\ jobStatus[j] = "none" /\ jobStatus' = [jobStatus EXCEPT ![j] = "draft"]
        /\ UNCHANGED <<cutoverLocked, recStatus, customers>>
    BY <2>1 DEF CreateMigrationJob, CreateMigrationJobRow
  <2>3. MigrationTyped'
    BY <1>0, <1>1, <2>2 DEF MigrationInv, MigrationTyped, MigrationTypeOK, JobStatuses
  <2>4. LockFollowsJob'
    BY <2>2 DEF MigrationInv, MigrationTyped, MigrationTypeOK, LockFollowsJob
  <2> QED BY <1>0, <1>1, <2>2, <2>3, <2>4, NothingImported DEF MigrationInv
<1>3. CASE completeMigration
  <2>1. PICK j \in Jobs : CompleteMigration(j) BY <1>3 DEF completeMigration
  <2>2. /\ jobStatus' = [jobStatus EXCEPT ![j] = "completed"]
        /\ cutoverLocked' = [cutoverLocked EXCEPT ![j] = FALSE]
        /\ UNCHANGED <<recStatus, customers>>
    BY <2>1 DEF CompleteMigration, CompleteMigrationJob, UpdateMigrationJobStatus, SetCutoverLock
  <2>3. MigrationTyped'
    BY <1>0, <1>1, <2>2 DEF MigrationInv, MigrationTyped, MigrationTypeOK, JobStatuses
  <2>4. LockFollowsJob'
    BY <2>2 DEF MigrationInv, MigrationTyped, MigrationTypeOK, LockFollowsJob
  <2> QED BY <1>0, <1>1, <2>2, <2>3, <2>4, NothingImported DEF MigrationInv
<1>4. CASE rollbackMigration
  <2>1. PICK j \in Jobs : RollbackMigration(j) BY <1>4 DEF rollbackMigration
  <2>2. /\ jobStatus' = [jobStatus EXCEPT ![j] = "rolled_back"]
        /\ cutoverLocked' = [cutoverLocked EXCEPT ![j] = FALSE]
        /\ recStatus' = [recStatus EXCEPT ![j] = [r \in Records |->
               IF recStatus[j][r] = "imported" THEN "rolled_back" ELSE recStatus[j][r]]]
        /\ UNCHANGED customers
    BY <2>1 DEF RollbackMigration, RollbackMigrationJob, UpdateMigrationJobStatus, SetCutoverLock,
                RollbackMigrationRecords
  <2>3. recStatus' \in [Jobs -> [Records -> RecordStatuses \cup {"none"}]]
    BY <2>2 DEF MigrationInv, MigrationTyped, MigrationTypeOK, RecordStatuses
  <2>4. MigrationTyped'
    BY <1>0, <1>1, <2>2, <2>3 DEF MigrationInv, MigrationTyped, MigrationTypeOK, JobStatuses
  <2>5. LockFollowsJob'
    BY <2>2 DEF MigrationInv, MigrationTyped, MigrationTypeOK, LockFollowsJob
  <2>6. \A k \in Jobs, r \in Records : recStatus'[k][r] = "imported" => recStatus[k][r] = "imported"
    BY <2>2 DEF MigrationInv, MigrationTyped, MigrationTypeOK
  <2> QED BY <1>0, <1>1, <2>4, <2>5, <2>6, NothingImported DEF MigrationInv
<1>5. CASE createCustomer /\ UNCHANGED migrationState
  <2>1. UNCHANGED <<jobStatus, cutoverLocked, recStatus>> /\ customers' \subseteq ExternalIds
    BY <1>5 DEF migrationState, createCustomer, CreateCustomer, InsertCustomerAccount, MigrationInv,
                MigrationTyped, MigrationTypeOK
  <2>2. MigrationTyped' BY <1>0, <1>1, <2>1 DEF MigrationInv, MigrationTyped, MigrationTypeOK
  <2> QED BY <1>0, <1>1, <2>1, <2>2, JobsAlone, NothingImported DEF MigrationInv
<1> QED BY <1>2, <1>3, <1>4, <1>5

\* A request that begins, or stops, or lists its batch.
LEMMA QuietRequestKeepsInv ==
    ASSUME MigrationInv, NEW q \in Requests, NEW t, mreq' = [mreq EXCEPT ![q] = t],
           t.op \in {"idle", "add", "validate", "list", "import"},
           t.op # "idle" => t.job \in Jobs,
           t.op = "import" => t.batch \subseteq Records,
           UNCHANGED <<recStatus, target, customers>>,
           jobStatus' \in [Jobs -> JobStatuses \cup {"none"}], cutoverLocked' \in [Jobs -> BOOLEAN],
           LockFollowsJob'
    PROVE  MigrationInv'
<1>1. /\ DOMAIN mreq' = Requests /\ mreq'[q] = t /\ \A p \in Requests : InFlight(p)'
      /\ \A p \in Requests \ {q} : mreq'[p] = mreq[p]
  BY OneRequestTyped DEF MigrationInv
<1>2. \A p \in Requests : Marking(p)' => Marking(p) /\ mreq'[p].rec = mreq[p].rec
  BY <1>1 DEF Marking
<1>3. MigrationTyped' BY <1>1 DEF MigrationInv, MigrationTyped, MigrationTypeOK
<1> QED BY <1>2, <1>3, NothingImported DEF MigrationInv

\* The steps that begin or stop a request on a migration job.
LEMMA BeginKeepsInv ==
    ASSUME MigrationInv, NEW q \in Requests,
           \/ addMigrationRecords(q) \/ validateMigrationJob(q) \/ startMigration(q)
           \/ processMigrationBatch(q) \/ StopRequest(q)
    PROVE  MigrationInv'
<1>0. /\ jobStatus \in [Jobs -> JobStatuses \cup {"none"}] /\ cutoverLocked \in [Jobs -> BOOLEAN]
  BY DEF MigrationInv, MigrationTyped, MigrationTypeOK
<1>1. CASE addMigrationRecords(q)
  <2>1. PICK j \in Jobs, new \in SUBSET Records : AddMigrationRecords(q, j, new)
    BY <1>1 DEF addMigrationRecords
  <2> DEFINE t == [op |-> "add", job |-> j, new |-> new]
  <2>2. mreq' = [mreq EXCEPT ![q] = t] /\ UNCHANGED <<jobStatus, cutoverLocked, recStatus, target, customers>>
    BY <2>1 DEF AddMigrationRecords, BeginRequest
  <2>3. t.op = "add" /\ t.job \in Jobs OBVIOUS
  <2> HIDE DEF t
  <2> QED BY <1>0, <2>2, <2>3, JobsAlone, QuietRequestKeepsInv
<1>2. CASE validateMigrationJob(q)
  <2>1. PICK j \in Jobs : ValidateMigrationJob(q, j) BY <1>2 DEF validateMigrationJob
  <2> DEFINE t == [op |-> "validate", job |-> j]
  <2>2. mreq' = [mreq EXCEPT ![q] = t] /\ UNCHANGED <<jobStatus, cutoverLocked, recStatus, target, customers>>
    BY <2>1 DEF ValidateMigrationJob, BeginRequest
  <2>3. t.op = "validate" /\ t.job \in Jobs OBVIOUS
  <2> HIDE DEF t
  <2> QED BY <1>0, <2>2, <2>3, JobsAlone, QuietRequestKeepsInv
<1>3. CASE startMigration(q)
  <2>1. PICK j \in Jobs : StartMigration(q, j) BY <1>3 DEF startMigration
  <2> DEFINE t == [op |-> "list", job |-> j]
  <2>2. /\ mreq' = [mreq EXCEPT ![q] = t] /\ UNCHANGED <<recStatus, target, customers>>
        /\ jobStatus' = [jobStatus EXCEPT ![j] = "importing"]
        /\ cutoverLocked' = [cutoverLocked EXCEPT ![j] = TRUE]
    BY <2>1 DEF StartMigration, SetCutoverLock, SetMigrationJobStarted, UpdateMigrationJobStatus
  <2>3. t.op = "list" /\ t.job \in Jobs OBVIOUS
  <2> HIDE DEF t
  <2>4. LockFollowsJob' BY <1>0, <2>2 DEF MigrationInv, LockFollowsJob
  <2>5. jobStatus' \in [Jobs -> JobStatuses \cup {"none"}] /\ cutoverLocked' \in [Jobs -> BOOLEAN]
    BY <1>0, <2>2 DEF JobStatuses
  <2> QED BY <2>2, <2>3, <2>4, <2>5, QuietRequestKeepsInv
<1>4. CASE processMigrationBatch(q)
  <2>1. mreq[q].op = "list" /\ mreq[q].job \in Jobs
    BY <1>4 DEF processMigrationBatch, importing, MigrationInv, MigrationTyped, InFlight
  <2> DEFINE batch == ListPendingMigrationRecords(mreq[q].job)
             t == [op |-> "import", job |-> mreq[q].job, batch |-> batch]
  <2>2. /\ mreq' = [mreq EXCEPT ![q] = NoRequest] \/ mreq' = [mreq EXCEPT ![q] = t]
        /\ UNCHANGED <<jobStatus, cutoverLocked, recStatus, target, customers>>
    BY <1>4 DEF processMigrationBatch
  <2>3. t.op = "import" /\ t.job \in Jobs /\ t.batch \subseteq Records
    BY <2>1 DEF ListPendingMigrationRecords
  <2>4. NoRequest.op = "idle" BY DEF NoRequest
  <2> HIDE DEF t
  <2> QED BY <1>0, <2>2, <2>3, <2>4, JobsAlone, QuietRequestKeepsInv
<1>5. CASE StopRequest(q)
  <2>1. /\ mreq' = [mreq EXCEPT ![q] = NoRequest]
        /\ UNCHANGED <<jobStatus, cutoverLocked, recStatus, target, customers>>
    BY <1>5 DEF StopRequest
  <2>2. NoRequest.op = "idle" BY DEF NoRequest
  <2> QED BY <1>0, <2>1, <2>2, JobsAlone, QuietRequestKeepsInv
<1> QED BY <1>1, <1>2, <1>3, <1>4, <1>5

\* The commits of AddMigrationRecords and ValidateMigrationJob, however late.
LEMMA CommitKeepsInv ==
    ASSUME MigrationInv, NEW q \in Requests,
           AddMigrationRecordsCommit(q) \/ ValidateMigrationJobCommit(q)
    PROVE  MigrationInv'
<1> DEFINE j == mreq[q].job
<1>0. /\ jobStatus \in [Jobs -> JobStatuses \cup {"none"}] /\ cutoverLocked \in [Jobs -> BOOLEAN]
      /\ recStatus \in [Jobs -> [Records -> RecordStatuses \cup {"none"}]]
  BY DEF MigrationInv, MigrationTyped, MigrationTypeOK
<1>1. j \in Jobs
  BY DEF AddMigrationRecordsCommit, ValidateMigrationJobCommit, MigrationInv, MigrationTyped, InFlight
<1>2. /\ mreq' = [mreq EXCEPT ![q] = NoRequest] /\ UNCHANGED <<cutoverLocked, target, customers>>
  BY DEF AddMigrationRecordsCommit, ValidateMigrationJobCommit
<1>3. NoRequest.op = "idle" BY DEF NoRequest
<1>4. /\ DOMAIN mreq' = Requests /\ mreq'[q] = NoRequest /\ \A p \in Requests : InFlight(p)'
      /\ \A p \in Requests \ {q} : mreq'[p] = mreq[p]
  BY <1>2, <1>3, OneRequestTyped DEF MigrationInv
<1>5. \A p \in Requests : Marking(p)' => Marking(p) /\ mreq'[p].rec = mreq[p].rec
  BY <1>3, <1>4 DEF Marking
<1> HIDE DEF j
<1>6. CASE AddMigrationRecordsCommit(q)
  <2>1. /\ jobStatus' = jobStatus
        /\ recStatus' = [recStatus EXCEPT ![j] = [r \in Records |->
              IF r \in mreq[q].new /\ recStatus[j][r] = "none" THEN "pending" ELSE recStatus[j][r]]]
    BY <1>6 DEF AddMigrationRecordsCommit, CreateMigrationRecord, j
  <2>2. recStatus' \in [Jobs -> [Records -> RecordStatuses \cup {"none"}]]
    BY <1>0, <1>1, <2>1 DEF RecordStatuses
  <2>3. \A k \in Jobs, r \in Records : recStatus'[k][r] = "imported" => recStatus[k][r] = "imported"
    BY <1>0, <1>1, <2>1
  <2>4. MigrationTyped' BY <1>2, <1>4, <2>1, <2>2 DEF MigrationInv, MigrationTyped, MigrationTypeOK
  <2> QED BY <1>2, <1>5, <2>1, <2>3, <2>4, JobsAlone, NothingImported DEF MigrationInv
<1>7. CASE ValidateMigrationJobCommit(q)
  <2>1. /\ jobStatus' = [jobStatus EXCEPT ![j] = "validated"]
        /\ recStatus' = [recStatus EXCEPT ![j] = [r \in Records |->
              IF r \notin ListMigrationRecords(j) THEN recStatus[j][r]
              ELSE IF validateCustomerRecord(r) THEN "valid" ELSE "invalid"]]
    BY <1>7 DEF ValidateMigrationJobCommit, UpdateMigrationJobStatus, j
  <2>2. recStatus' \in [Jobs -> [Records -> RecordStatuses \cup {"none"}]]
    BY <1>0, <1>1, <2>1 DEF RecordStatuses
  <2>3. \A k \in Jobs, r \in Records : recStatus'[k][r] = "imported" => recStatus[k][r] = "imported"
    BY <1>0, <1>1, <2>1
  <2>4. MigrationTyped'
    BY <1>0, <1>1, <1>2, <1>4, <2>1, <2>2 DEF MigrationInv, MigrationTyped, MigrationTypeOK, JobStatuses
  <2>5. LockFollowsJob' BY <1>0, <1>1, <1>2, <2>1 DEF MigrationInv, LockFollowsJob
  <2> QED BY <1>2, <1>5, <2>3, <2>4, <2>5, NothingImported DEF MigrationInv
<1> QED BY <1>6, <1>7

\* A record is given up, or the mark of one is lost.
LEMMA FailedKeepsInv ==
    ASSUME MigrationInv, NEW q \in Requests,
           LoseMark(q) \/ (importing(q, "import") /\ markRecordFailed(q))
    PROVE  MigrationInv'
<1>0. /\ recStatus \in [Jobs -> [Records -> RecordStatuses \cup {"none"}]]
  BY DEF MigrationInv, MigrationTyped, MigrationTypeOK
<1>1. PICK r \in Records : NextRecord(q, r) /\ mreq[q].op \in {"import", "mark"}
                           /\ \/ recStatus' = recStatus
                              \/ recStatus' = [recStatus EXCEPT ![mreq[q].job][r] = "failed"]
  <2>1. CASE importing(q, "mark") /\ NextRecord(q, mreq[q].rec) /\ recStatus' = recStatus
    BY <2>1 DEF importing, MigrationInv, MigrationTyped, InFlight
  <2>2. CASE /\ importing(q, "import")
             /\ \E r \in mreq[q].batch : NextRecord(q, r) /\ (recStatus' = recStatus
                              \/ recStatus' = [recStatus EXCEPT ![mreq[q].job][r] = "failed"])
    <3>1. mreq[q].batch \subseteq Records BY <2>2 DEF importing, MigrationInv, MigrationTyped, InFlight
    <3> QED BY <2>2, <3>1 DEF importing
  <2> QED BY <2>1, <2>2 DEF LoseMark, markRecordFailed, SetMigrationRecordStatus
<1>2. UNCHANGED <<jobStatus, cutoverLocked, target, customers>> BY DEF LoseMark, markRecordFailed
<1>3. /\ DOMAIN mreq' = Requests /\ \A p \in Requests : InFlight(p)'
      /\ ~Marking(q)' /\ \A p \in Requests \ {q} : mreq'[p] = mreq[p]
  BY <1>1, NextRecordTyped DEF MigrationInv
<1>4. mreq[q].job \in Jobs BY <1>1 DEF MigrationInv, MigrationTyped, InFlight
<1>5. /\ recStatus' \in [Jobs -> [Records -> RecordStatuses \cup {"none"}]]
      /\ \A k \in Jobs, s \in Records : recStatus'[k][s] = "imported" => recStatus[k][s] = "imported"
  BY <1>0, <1>1, <1>4 DEF RecordStatuses
<1>6. \A p \in Requests : Marking(p)' => Marking(p) /\ mreq'[p].rec = mreq[p].rec
  BY <1>3 DEF Marking
<1>7. MigrationTyped' BY <1>2, <1>3, <1>5 DEF MigrationInv, MigrationTyped, MigrationTypeOK
<1> QED BY <1>2, <1>5, <1>6, <1>7, JobsAlone, NothingImported DEF MigrationInv

\* The two transactions of an import.
LEMMA ImportKeepsInv ==
    ASSUME MigrationInv, NEW q \in Requests, importing(q, "import"), importSingleRecord(q)
    PROVE  MigrationInv'
<1>1. mreq[q].op = "import" /\ mreq[q].job \in Jobs /\ mreq[q].batch \subseteq Records
  BY DEF importing, MigrationInv, MigrationTyped, InFlight
<1>2. PICK r \in mreq[q].batch :
          /\ CreateCustomer(ExternalCode[r], "individual")
          /\ mreq' = [mreq EXCEPT ![q] = [op |-> "mark", job |-> @.job, batch |-> @.batch, rec |-> r]]
          /\ UNCHANGED <<jobStatus, cutoverLocked, recStatus, target>>
  BY DEF importSingleRecord
<1> DEFINE t == [op |-> "mark", job |-> mreq[q].job, batch |-> mreq[q].batch, rec |-> r]
           x == ExternalCode[r]
<1>3. /\ x \notin customers /\ x \in ExternalIds /\ customers' = customers \cup {x}
  BY <1>2 DEF CreateCustomer, InsertCustomerAccount
<1>4. mreq' = [mreq EXCEPT ![q] = t] BY <1>2
<1>5. t.op = "mark" /\ t.job \in Jobs /\ t.batch \subseteq Records /\ t.rec = r /\ r \in Records
  BY <1>1, <1>2
<1> HIDE DEF t
<1>6. /\ DOMAIN mreq' = Requests /\ mreq'[q] = t /\ \A p \in Requests : InFlight(p)'
      /\ \A p \in Requests \ {q} : mreq'[p] = mreq[p]
  BY <1>4, <1>5, OneRequestTyped DEF MigrationInv
<1>7. MigrationTyped' BY <1>2, <1>3, <1>6 DEF MigrationInv, MigrationTyped, MigrationTypeOK
<1>8. ImportsNameDistinctCustomers' BY <1>2, <1>3 DEF MigrationInv, ImportsNameDistinctCustomers
<1>9. ImportsPending'
  <2>1. Created(q)' = x BY <1>5, <1>6 DEF Created
  <2>2. ASSUME NEW p \in Requests \ {q}, Marking(p)'
        PROVE  Marking(p) /\ Created(p)' = Created(p) /\ Created(p) \in customers /\ Created(p) # x
    <3>1. mreq'[p] = mreq[p] BY <1>6
    <3>2. Marking(p) /\ Created(p)' = Created(p) BY <2>2, <3>1 DEF Marking, Created
    <3> QED BY <1>3, <3>2 DEF MigrationInv, ImportsPending
  <2>3. \A j \in Jobs, s \in Records : recStatus[j][s] = "imported" => target[j][s] # x
    BY <1>3 DEF MigrationInv, ImportsNameDistinctCustomers
  <2>4. ASSUME NEW p \in Requests, Marking(p)'
        PROVE  /\ Created(p)' \in customers'
               /\ \A j \in Jobs, s \in Records :
                     recStatus'[j][s] = "imported" => target'[j][s] # Created(p)'
    <3>1. CASE p = q BY <1>2, <1>3, <2>1, <2>3, <3>1
    <3>2. CASE p # q BY <1>2, <1>3, <2>2, <2>4, <3>2 DEF MigrationInv, ImportsPending
    <3> QED BY <3>1, <3>2
  <2>5. ASSUME NEW p1 \in Requests, NEW p2 \in Requests, Marking(p1)', Marking(p2)', Created(p1)' = Created(p2)'
        PROVE  p1 = p2
    <3>1. CASE p1 = q \/ p2 = q BY <2>1, <2>2, <2>5, <3>1
    <3>2. CASE p1 # q /\ p2 # q
      <4>1. Marking(p1) /\ Marking(p2) /\ Created(p1) = Created(p2) BY <2>2, <2>5, <3>2
      <4> QED BY <4>1 DEF MigrationInv, ImportsPending
    <3> QED BY <3>1, <3>2
  <2> QED BY <2>4, <2>5 DEF ImportsPending
<1> QED BY <1>2, <1>7, <1>8, <1>9, JobsAlone DEF MigrationInv

\* Marking the record whose customer was created: its pending import ends.
LEMMA MarkKeepsInv ==
    ASSUME MigrationInv, NEW q \in Requests, importing(q, "mark"), markRecordImported(q)
    PROVE  MigrationInv'
<1> DEFINE j == mreq[q].job
           r == mreq[q].rec
           x == ExternalCode[mreq[q].rec]
<1>1. mreq[q].op = "mark" /\ j \in Jobs /\ r \in Records /\ mreq[q].batch \subseteq Records
  BY DEF importing, MigrationInv, MigrationTyped, InFlight
<1>2. Marking(q) /\ Created(q) = x BY <1>1 DEF Marking, Created
<1>3. /\ x \in customers
      /\ \A k \in Jobs, s \in Records : recStatus[k][s] = "imported" => target[k][s] # x
  BY <1>2 DEF MigrationInv, ImportsPending
<1>4. /\ recStatus' = [recStatus EXCEPT ![j][r] = "imported"]
      /\ target' = [target EXCEPT ![j][r] = x]
      /\ NextRecord(q, r) /\ UNCHANGED <<jobStatus, cutoverLocked, customers>>
  BY DEF markRecordImported, SetMigrationRecordImported
<1> HIDE DEF j, r, x
<1>5. /\ DOMAIN mreq' = Requests /\ \A p \in Requests : InFlight(p)'
      /\ ~Marking(q)' /\ \A p \in Requests \ {q} : mreq'[p] = mreq[p]
  BY <1>1, <1>4, NextRecordTyped DEF MigrationInv
<1>6. /\ recStatus \in [Jobs -> [Records -> RecordStatuses \cup {"none"}]]
      /\ target \in [Jobs -> [Records -> ExternalIds \cup {NoTarget}]]
      /\ customers \subseteq ExternalIds
  BY DEF MigrationInv, MigrationTyped, MigrationTypeOK
<1>7. /\ recStatus' \in [Jobs -> [Records -> RecordStatuses \cup {"none"}]]
      /\ target' \in [Jobs -> [Records -> ExternalIds \cup {NoTarget}]]
      /\ recStatus'[j][r] = "imported" /\ target'[j][r] = x
      /\ \A k \in Jobs, s \in Records : <<k, s>> # <<j, r>> =>
            recStatus'[k][s] = recStatus[k][s] /\ target'[k][s] = target[k][s]
  BY <1>1, <1>3, <1>4, <1>6 DEF RecordStatuses
<1>8. MigrationTyped' BY <1>4, <1>5, <1>7 DEF MigrationInv, MigrationTyped, MigrationTypeOK
<1>9. ImportsNameDistinctCustomers'
  <2> SUFFICES ASSUME NEW k \in Jobs, NEW l \in Jobs, NEW s \in Records, NEW u \in Records,
                      recStatus'[k][s] = "imported"
               PROVE  /\ target'[k][s] \in customers'
                      /\ recStatus'[l][u] = "imported" /\ target'[k][s] = target'[l][u]
                         => <<k, s>> = <<l, u>>
    BY DEF ImportsNameDistinctCustomers
  <2>1. CASE <<k, s>> = <<j, r>> /\ <<l, u>> = <<j, r>> BY <1>3, <1>4, <1>7, <2>1
  <2>2. CASE <<k, s>> = <<j, r>> /\ <<l, u>> # <<j, r>> BY <1>3, <1>4, <1>7, <2>2
  <2>3. CASE <<k, s>> # <<j, r>>
    <3>1. recStatus[k][s] = "imported" /\ target'[k][s] = target[k][s] /\ target[k][s] # x
      BY <1>3, <1>7, <2>3
    <3>2. target'[k][s] \in customers' BY <1>4, <3>1 DEF MigrationInv, ImportsNameDistinctCustomers
    <3>3. CASE <<l, u>> = <<j, r>> BY <1>7, <3>1, <3>2, <3>3
    <3>4. CASE <<l, u>> # <<j, r>>
      <4>1. recStatus'[l][u] = recStatus[l][u] /\ target'[l][u] = target[l][u] BY <1>7, <3>4
      <4> QED BY <3>1, <3>2, <4>1 DEF MigrationInv, ImportsNameDistinctCustomers
    <3> QED BY <3>3, <3>4
  <2> QED BY <2>1, <2>2, <2>3
<1>10. ImportsPending'
  <2>1. ASSUME NEW p \in Requests, Marking(p)'
        PROVE  p # q /\ Marking(p) /\ Created(p)' = Created(p) /\ Created(p) # x
    <3>1. p # q BY <1>5, <2>1
    <3>2. mreq'[p] = mreq[p] BY <1>5, <3>1
    <3>3. Marking(p) /\ Created(p)' = Created(p) BY <2>1, <3>2 DEF Marking, Created
    <3> QED BY <1>2, <3>1, <3>3 DEF MigrationInv, ImportsPending
  <2>2. ASSUME NEW p \in Requests, Marking(p)'
        PROVE  /\ Created(p)' \in customers'
               /\ \A k \in Jobs, s \in Records :
                     recStatus'[k][s] = "imported" => target'[k][s] # Created(p)'
    <3>1. Created(p) \in customers
          /\ \A k \in Jobs, s \in Records : recStatus[k][s] = "imported" => target[k][s] # Created(p)
      BY <2>1, <2>2 DEF MigrationInv, ImportsPending
    <3> QED BY <1>4, <1>7, <2>1, <2>2, <3>1
  <2>3. ASSUME NEW p1 \in Requests, NEW p2 \in Requests, Marking(p1)', Marking(p2)', Created(p1)' = Created(p2)'
        PROVE  p1 = p2
    <3>1. Marking(p1) /\ Marking(p2) /\ Created(p1) = Created(p2) BY <2>1, <2>3
    <3> QED BY <3>1 DEF MigrationInv, ImportsPending
  <2> QED BY <2>2, <2>3 DEF ImportsPending
<1> QED BY <1>4, <1>8, <1>9, <1>10, JobsAlone DEF MigrationInv

\* The invariant of migration jobs.
LEMMA MigrationInvariant == MigrationSpec => []MigrationInv
<1>1. MigrationInit => MigrationInv
  BY DEF MigrationInit, MigrationInv, MigrationTyped, MigrationTypeOK, JobStatuses, RecordStatuses,
         InFlight, NoRequest, LockFollowsJob, ImportsPending, Marking, ImportsNameDistinctCustomers
<1>2. MigrationInv /\ [MigrationNext]_migrationVars => MigrationInv'
  <2> SUFFICES ASSUME MigrationInv, [MigrationNext]_migrationVars PROVE MigrationInv'
    OBVIOUS
  <2>1. CASE UNCHANGED migrationVars
    BY <2>1 DEF migrationVars, migrationState, MigrationInv, MigrationTyped, MigrationTypeOK, InFlight,
                LockFollowsJob, ImportsPending, Marking, Created, ImportsNameDistinctCustomers
  <2>2. CASE MigrationNext
    BY <2>2, JobStepsKeepInv, BeginKeepsInv, CommitKeepsInv, FailedKeepsInv, ImportKeepsInv, MarkKeepsInv
       DEF MigrationNext, BatchStep
  <2> QED BY <2>1, <2>2
<1> QED BY <1>1, <1>2, PTL DEF MigrationSpec

\* The cut-over lock follows the job under every race of validate, start,
\* complete and roll back of migration.go: no job that nothing can release
\* suspends billing.
THEOREM MigrationLocks == MigrationSpec => []LockFollowsJob
BY MigrationInvariant, PTL DEF MigrationInv

\* Two requests importing one job, lost marks, stops and repeated validations
\* never leave two records naming the same customer, nor one that does not exist.
THEOREM MigrationImports == MigrationSpec => []ImportsNameDistinctCustomers
BY MigrationInvariant, PTL DEF MigrationInv

-----------------------------------------------------------------------------
(***************************************************************************)
(* Support sessions                                                        *)
(***************************************************************************)

SupportRows ==
    [status : SupportStatuses, type : {"standard", "emergency"}, by : Staff, left : Int,
     approved : Staff \cup {Nobody, "credential"}, second : Staff \cup {Nobody}]

RowsTyped == sessions \in [SupportIds -> SupportRows \cup {NoSession}]

\* How far the approval of an emergency session has come: a first approver is
\* not who asked, a second one is neither of them, and access needs both.
ApprovalStages(s) ==
    LET r == sessions[s] IN
    r # NoSession /\ r.type = "emergency" =>
        /\ r.approved # Nobody => r.approved # r.by /\ Happened("support.first_approved", s)
        /\ r.second # Nobody => /\ r.approved # Nobody
                                /\ r.second # r.by /\ r.second # r.approved
                                /\ Happened("support.approved", s)
        /\ r.status \in {"active", "revoked", "expired"} => r.second # Nobody

SupportInv == RowsTyped /\ \A s \in SupportIds : ApprovalStages(s)

\* A status other than none belongs to a row.
LEMMA StatusOfRow ==
    ASSUME RowsTyped, NEW s \in SupportIds, sessions[s].status # "none"
    PROVE  sessions[s] # NoSession /\ sessions[s] \in SupportRows
BY DEF RowsTyped, NoSession

\* A step that touches one row and only adds to the trail keeps the stages of
\* the others.
LEMMA OtherRowsStay ==
    ASSUME SupportInv, NEW s \in SupportIds, NEW r \in SupportRows,
           sessions' = [sessions EXCEPT ![s] = r], trail \subseteq trail',
           ApprovalStages(s)'
    PROVE  SupportInv'
<1>1. RowsTyped' BY DEF SupportInv, RowsTyped
<1>2. ASSUME NEW t \in SupportIds PROVE ApprovalStages(t)'
  <2>1. CASE t = s BY <2>1
  <2>2. CASE t # s
    <3>1. sessions'[t] = sessions[t] BY <2>2 DEF SupportInv, RowsTyped
    <3>2. ApprovalStages(t) BY DEF SupportInv
    <3> QED BY <3>1, <3>2 DEF ApprovalStages, Happened
  <2> QED BY <2>1, <2>2
<1> QED BY <1>1, <1>2 DEF SupportInv

\* A request has no approver yet.
LEMMA RequestKeepsInv ==
    ASSUME SupportInv, requestSupportSession PROVE SupportInv'
<1>1. PICK s \in SupportIds, by \in Staff, t \in {"standard", "emergency"}, d \in 0..MaxDuration :
          RequestSupportSession(s, by, t, d)
  BY DEF requestSupportSession
<1> DEFINE r == [status |-> "requested", type |-> t, by |-> by, left |-> d,
                 approved |-> Nobody, second |-> Nobody]
<1>2. d \in Int BY SupportAssumption
<1>3. r \in SupportRows BY <1>2 DEF SupportRows, SupportStatuses
<1>4. sessions' = [sessions EXCEPT ![s] = r] BY <1>1 DEF RequestSupportSession, CreateSupportSession
<1>5. trail \subseteq trail' BY <1>1 DEF RequestSupportSession, AppendRows
<1>6. sessions'[s] = r BY <1>4 DEF SupportInv, RowsTyped
<1>7. ApprovalStages(s)' BY <1>6 DEF ApprovalStages
<1> QED BY <1>3, <1>4, <1>5, <1>7, OtherRowsStay

\* The first approver is not who asked.
LEMMA FirstApprovalKeepsInv ==
    ASSUME SupportInv, firstApproveEmergency PROVE SupportInv'
<1>1. PICK s \in SupportIds, a \in Staff : EmergencyFirstApprove(s, a)
  BY DEF firstApproveEmergency
<1> DEFINE r == [sessions[s] EXCEPT !.approved = a]
<1>2. /\ sessions[s].status = "requested" /\ sessions[s].type = "emergency"
      /\ sessions[s].approved = Nobody /\ sessions[s].by # a
      /\ sessions' = [sessions EXCEPT ![s].approved = a]
  BY <1>1 DEF EmergencyFirstApprove, SetEmergencyFirstApprover
<1>3. sessions[s] # NoSession /\ sessions[s] \in SupportRows
  BY <1>2, StatusOfRow DEF SupportInv
<1>4. r \in SupportRows BY <1>3 DEF SupportRows
<1>5. sessions' = [sessions EXCEPT ![s] = r] BY <1>2
<1>6. trail' = trail \cup emitOutboxTx("support.first_approved", s)
                     \cup insertAuditTx("support.first_approve", s)
  BY <1>1 DEF EmergencyFirstApprove, AppendRows
<1>7. Happened("support.first_approved", s)' BY <1>6 DEF Happened, emitOutboxTx
<1>8. sessions'[s] = r BY <1>5 DEF SupportInv, RowsTyped
<1>9. /\ r.by = sessions[s].by /\ r.type = sessions[s].type /\ r.status = sessions[s].status
      /\ r.second = sessions[s].second /\ r.approved = a
  BY <1>3 DEF SupportRows
<1>10. ApprovalStages(s) BY DEF SupportInv
<1>11. sessions[s].second = Nobody BY <1>2, <1>3, <1>10 DEF ApprovalStages
<1>12. ApprovalStages(s)' BY <1>2, <1>7, <1>8, <1>9, <1>11 DEF ApprovalStages
<1> QED BY <1>4, <1>5, <1>6, <1>12, OtherRowsStay

\* The second approver is neither who asked nor the first.
LEMMA SecondApprovalKeepsInv ==
    ASSUME SupportInv, secondApproveEmergency PROVE SupportInv'
<1>1. PICK s \in SupportIds, a \in Staff : EmergencySecondApprove(s, a)
  BY DEF secondApproveEmergency
<1> DEFINE r == [sessions[s] EXCEPT !.status = "active", !.second = a]
<1>2. /\ sessions[s].status = "requested" /\ sessions[s].type = "emergency"
      /\ sessions[s].approved \notin {Nobody, a} /\ sessions[s].by # a
      /\ sessions' = [sessions EXCEPT ![s].status = "active", ![s].second = a]
  BY <1>1 DEF EmergencySecondApprove, ApproveEmergencySupportSession
<1>3. sessions[s] # NoSession /\ sessions[s] \in SupportRows
  BY <1>2, StatusOfRow DEF SupportInv
<1>4. r \in SupportRows BY <1>3 DEF SupportRows, SupportStatuses
<1>5. sessions' = [sessions EXCEPT ![s] = r] BY <1>2 DEF SupportInv, RowsTyped
<1>6. trail' = trail \cup emitOutboxTx("support.approved", s)
                     \cup insertAuditTx("support.emergency_approve", s)
  BY <1>1 DEF EmergencySecondApprove, AppendRows
<1>7. Happened("support.approved", s)' BY <1>6 DEF Happened, emitOutboxTx
<1>8. sessions'[s] = r BY <1>5 DEF SupportInv, RowsTyped
<1>9. /\ r.by = sessions[s].by /\ r.type = sessions[s].type
      /\ r.approved = sessions[s].approved /\ r.second = a
  BY <1>3 DEF SupportRows
<1>10. ApprovalStages(s) BY DEF SupportInv
<1>11. Happened("support.first_approved", s)
  BY <1>2, <1>3, <1>10 DEF ApprovalStages
<1>12. Happened("support.first_approved", s)' BY <1>6, <1>11 DEF Happened
<1>13. a # Nobody BY StaffAssumption DEF Nobody
<1>14. ApprovalStages(s)' BY <1>2, <1>7, <1>8, <1>9, <1>10, <1>12, <1>13, <1>3 DEF ApprovalStages
<1> QED BY <1>4, <1>5, <1>6, <1>14, OtherRowsStay

\* A provider approves standard sessions only.
LEMMA ProviderApprovalKeepsInv ==
    ASSUME SupportInv, providerApproveSupportSession PROVE SupportInv'
<1>1. PICK s \in SupportIds : ApproveSupportSession(s) BY DEF providerApproveSupportSession
<1> DEFINE r == [sessions[s] EXCEPT !.status = "active", !.approved = "credential"]
<1>2. /\ sessions[s].status = "requested" /\ sessions[s].type = "standard"
      /\ sessions' = [sessions EXCEPT ![s].status = "active", ![s].approved = "credential"]
  BY <1>1 DEF ApproveSupportSession, ApproveStandard
<1>3. sessions[s] # NoSession /\ sessions[s] \in SupportRows
  BY <1>2, StatusOfRow DEF SupportInv
<1>4. r \in SupportRows BY <1>3 DEF SupportRows, SupportStatuses
<1>5. sessions' = [sessions EXCEPT ![s] = r] BY <1>2 DEF SupportInv, RowsTyped
<1>6. trail \subseteq trail' BY <1>1 DEF ApproveSupportSession, AppendRows
<1>7. sessions'[s] = r /\ r.type = "standard" BY <1>2, <1>3, <1>5 DEF SupportInv, RowsTyped, SupportRows
<1>8. ApprovalStages(s)' BY <1>7 DEF ApprovalStages
<1> QED BY <1>4, <1>5, <1>6, <1>8, OtherRowsStay

\* A denial or a revocation changes the status and no approver: only an active
\* session is revoked.
LEMMA EndingKeepsInv ==
    ASSUME SupportInv, NEW s \in SupportIds, NEW st \in {"denied", "revoked"},
           sessions[s].status \in {"requested", "active"},
           st = "revoked" => sessions[s].status = "active",
           sessions' = [sessions EXCEPT ![s].status = st], trail \subseteq trail'
    PROVE  SupportInv'
<1> DEFINE r == [sessions[s] EXCEPT !.status = st]
<1>1. sessions[s] # NoSession /\ sessions[s] \in SupportRows BY StatusOfRow DEF SupportInv
<1>2. r \in SupportRows BY <1>1 DEF SupportRows, SupportStatuses
<1>3. sessions' = [sessions EXCEPT ![s] = r] OBVIOUS
<1>4. sessions'[s] = r BY <1>3 DEF SupportInv, RowsTyped
<1>5. /\ r.by = sessions[s].by /\ r.type = sessions[s].type /\ r.status = st
      /\ r.approved = sessions[s].approved /\ r.second = sessions[s].second
  BY <1>1 DEF SupportRows
<1>6. ApprovalStages(s) BY DEF SupportInv
<1>7. ApprovalStages(s)' BY <1>1, <1>4, <1>5, <1>6 DEF ApprovalStages, Happened
<1> QED BY <1>2, <1>3, <1>7, OtherRowsStay

\* The sweep and the clock leave every row's approvers alone, and only active
\* rows expire.
LEMMA SweepAndClockKeepInv ==
    ASSUME SupportInv, NewSupportExpirySweeper \/ SupportClock PROVE SupportInv'
<1>0. trail' = trail BY DEF NewSupportExpirySweeper, ExpireSupportSessions, SupportClock
<1>1. CASE NewSupportExpirySweeper
  <2>1. sessions' = [s \in SupportIds |->
            IF sessions[s].status = "active" /\ sessions[s].left = 0
            THEN [sessions[s] EXCEPT !.status = "expired"] ELSE sessions[s]]
    BY <1>1 DEF NewSupportExpirySweeper, ExpireSupportSessions, ExpireRows
  <2>2. ASSUME NEW s \in SupportIds, sessions[s].status = "active"
        PROVE  /\ sessions[s] # NoSession /\ sessions[s] \in SupportRows
               /\ [sessions[s] EXCEPT !.status = "expired"] \in SupportRows
    <3>1. sessions[s] # NoSession /\ sessions[s] \in SupportRows
      BY <2>2, StatusOfRow DEF SupportInv
    <3> QED BY <3>1 DEF SupportRows, SupportStatuses
  <2>3. RowsTyped' BY <2>1, <2>2 DEF SupportInv, RowsTyped
  <2>4. ASSUME NEW s \in SupportIds PROVE ApprovalStages(s)'
    <3>1. ApprovalStages(s) BY DEF SupportInv
    <3>2. CASE sessions[s].status = "active" /\ sessions[s].left = 0
      <4>1. sessions'[s] = [sessions[s] EXCEPT !.status = "expired"] BY <2>1, <3>2
      <4>2. /\ sessions'[s].by = sessions[s].by /\ sessions'[s].type = sessions[s].type
            /\ sessions'[s].approved = sessions[s].approved /\ sessions'[s].second = sessions[s].second
        BY <2>2, <3>2, <4>1 DEF SupportRows
      <4> QED BY <1>0, <2>2, <3>1, <3>2, <4>2 DEF ApprovalStages, Happened
    <3>3. CASE ~(sessions[s].status = "active" /\ sessions[s].left = 0)
      <4>1. sessions'[s] = sessions[s] BY <2>1, <3>3
      <4> QED BY <1>0, <3>1, <4>1 DEF ApprovalStages, Happened
    <3> QED BY <3>2, <3>3
  <2> QED BY <2>3, <2>4 DEF SupportInv
<1>2. CASE SupportClock
  <2>1. sessions' = [s \in SupportIds |->
            IF sessions[s] # NoSession /\ sessions[s].left > 0
            THEN [sessions[s] EXCEPT !.left = @ - 1] ELSE sessions[s]]
    BY <1>2 DEF SupportClock
  <2>2. ASSUME NEW s \in SupportIds, sessions[s] # NoSession
        PROVE  /\ sessions[s] \in SupportRows
               /\ [sessions[s] EXCEPT !.left = @ - 1] \in SupportRows
    BY <2>2 DEF SupportInv, RowsTyped, SupportRows
  <2>3. RowsTyped' BY <2>1, <2>2 DEF SupportInv, RowsTyped
  <2>4. ASSUME NEW s \in SupportIds PROVE ApprovalStages(s)'
    <3>1. ApprovalStages(s) BY DEF SupportInv
    <3>2. CASE sessions[s] # NoSession /\ sessions[s].left > 0
      <4>1. sessions'[s] = [sessions[s] EXCEPT !.left = @ - 1] BY <2>1, <3>2
      <4>2. /\ sessions'[s].by = sessions[s].by /\ sessions'[s].type = sessions[s].type
            /\ sessions'[s].approved = sessions[s].approved /\ sessions'[s].second = sessions[s].second
            /\ sessions'[s].status = sessions[s].status
        BY <2>2, <3>2, <4>1 DEF SupportRows
      <4> QED BY <1>0, <3>1, <3>2, <4>2 DEF ApprovalStages, Happened
    <3>3. CASE ~(sessions[s] # NoSession /\ sessions[s].left > 0)
      <4>1. sessions'[s] = sessions[s] BY <2>1, <3>3
      <4> QED BY <1>0, <3>1, <4>1 DEF ApprovalStages, Happened
    <3> QED BY <3>2, <3>3
  <2> QED BY <2>3, <2>4 DEF SupportInv
<1> QED BY <1>1, <1>2

\* The stages of approval are kept by every call of support.go, the sweep and
\* the passing of time.
THEOREM ApprovalStagesHold == SupportSpec => []SupportInv
<1>1. SupportInit => SupportInv
  BY DEF SupportInit, SupportInv, RowsTyped, ApprovalStages
<1>2. SupportInv /\ [SupportNext]_supportVars => SupportInv'
  <2> SUFFICES ASSUME SupportInv, [SupportNext]_supportVars PROVE SupportInv'
    OBVIOUS
  <2>1. CASE requestSupportSession BY <2>1, RequestKeepsInv
  <2>2. CASE firstApproveEmergency BY <2>2, FirstApprovalKeepsInv
  <2>3. CASE secondApproveEmergency BY <2>3, SecondApprovalKeepsInv
  <2>4. CASE providerApproveSupportSession BY <2>4, ProviderApprovalKeepsInv
  <2>5. CASE providerDenySupportSession
    <3>1. PICK s \in SupportIds : DenySupportSession(s) BY <2>5 DEF providerDenySupportSession
    <3> QED BY <3>1, EndingKeepsInv DEF DenySupportSession, DenyRow, AppendRows
  <2>6. CASE operatorRevokeSupportSession \/ providerRevokeSupportSession
    <3>1. PICK s \in SupportIds : RevokeSupportSession(s)
      BY <2>6 DEF operatorRevokeSupportSession, providerRevokeSupportSession,
                  RevokeSupportSessionAsProvider
    <3> QED BY <3>1, EndingKeepsInv DEF RevokeSupportSession, RevokeRow, AppendRows
  <2>7. CASE NewSupportExpirySweeper \/ SupportClock BY <2>7, SweepAndClockKeepInv
  <2>8. CASE UNCHANGED supportVars
    BY <2>8 DEF supportVars, SupportInv, RowsTyped, ApprovalStages, Happened
  <2> QED BY <2>1, <2>2, <2>3, <2>4, <2>5, <2>6, <2>7, <2>8 DEF SupportNext
<1> QED BY <1>1, <1>2, PTL DEF SupportSpec

\* Emergency access was always asked for by one operator and approved by two
\* others, for any number of operators and sessions (support.go:229).
THEOREM EmergencyNeedsTwoOthers == SupportSpec => []TwoPersonRule
<1>1. SupportInv => TwoPersonRule
  <2> SUFFICES ASSUME SupportInv, NEW s \in SupportIds,
                      sessions[s].status \in {"active", "revoked", "expired"},
                      sessions[s].type = "emergency"
               PROVE  LET r == sessions[s] IN
                      /\ r.by # r.approved /\ r.approved # r.second /\ r.second # r.by
                      /\ Nobody \notin {r.approved, r.second}
                      /\ Happened("support.first_approved", s) /\ Happened("support.approved", s)
    BY DEF TwoPersonRule
  <2>1. sessions[s] # NoSession BY StatusOfRow DEF SupportInv
  <2>2. ApprovalStages(s) BY DEF SupportInv
  <2> QED BY <2>1, <2>2 DEF ApprovalStages
<1> QED BY <1>1, ApprovalStagesHold, PTL
=============================================================================
