--------------------------- MODULE MCControlPlane ---------------------------
(***************************************************************************)
(* The control plane on a small instance.  A behaviour picks one focus and *)
(* keeps it, so the state spaces add up instead of multiplying:            *)
(*   lifecycle   two operators on the lifecycle of one provider;           *)
(*   race        two operators, one failover and one migration of one      *)
(*               provider;                                                 *)
(*   shared      one operator, two failovers out of one cell, and a cell   *)
(*               changed or assigned by hand;                              *)
(*   import      two requests on one migration job;                        *)
(*   support     one session, three operators and the provider;            *)
(*   team        two requests on one member and its keys;                  *)
(*   directory   users, groups and the customers they link to;             *)
(*   workspace   two users of two workspaces;                              *)
(*   domain      two providers registering one host;                       *)
(*   export      an export and a deletion;                                 *)
(*   limiter     two goroutines, or the requests of a shared Redis;        *)
(*   gate        three requests with one idempotency key, two at a time.   *)
(***************************************************************************)
EXTENDS CellPlacement, MigrationJobs, ProviderLifecycle, Support, TeamMembers, Directory,
        Workspaces, CustomDomains, DataExports, RateLimiter, RequestGate, TLC

CONSTANTS c1, c2, p1, p2, o1, o2, j1, r1, r2, q1, q2, x1, x2, op1, op2, s1, s2, s3,
          a1, a2, m1, e1, e2, g1, u1, u2, t1, t2, h1, h2, d1, d2, n1, n2, k1, k2

\* Bound: outbox and audit rows of the directory, two for each kind of operation on an entity.
MaxDirectoryRows == 10

VARIABLE focus

MCRegionOf == [c \in Cells |-> 1]
MCRecordType == [r \in Records |-> "customer"]
AllFields == {"json", "name", "email", "type", "code"}
\* r2 has no e-mail: validation rejects it, and the importer would take it.
MCSourceFields == [r \in Records |-> IF r = r2 THEN AllFields \ {"email"} ELSE AllFields]
MCExternalCode == [r \in Records |-> x1]
MCGrantChoices == {{"read", "write"}}
\* A patch of two operations, one that does nothing, and one of a stranger.
MCUserPatches == {<<[op |-> "replace", path |-> "active", value |-> FALSE],
                    [op |-> "replace", path |-> "email", value |-> e1]>>,
                  <<[op |-> "add", path |-> "active", value |-> TRUE]>>}
MCGroupPatches == {<<[op |-> "add", path |-> "members", value |-> x1],
                     [op |-> "add", path |-> "members", value |-> x2]>>,
                   <<[op |-> "remove", path |-> "members", value |-> x1]>>}
\* Both users have the same e-mail local part.
MCslugForWorkspace == [u \in Subs |-> "acme"]
MCvalidateDomain(h) == h = h1
MCLevels == <<"provider", "endpoint">>
MCLimit == [lv \in {"ip", "provider", "endpoint"} |-> 1]

Foci == {"lifecycle", "race", "shared", "import", "support", "team", "directory", "workspace",
         "domain", "export", "limiter", "gate"}

MCInit ==
    /\ Init /\ PlacementInit /\ MigrationInit /\ SupportInit /\ TeamInit /\ DirectoryInit
    /\ WorkspaceInit /\ DomainInit /\ ExportInit /\ LimiterInit /\ GateInit
    /\ focus \in Foci
    /\ focus \in {"race", "shared"} \/ cellOf = [p \in Providers |-> c1]
    /\ focus \in {"import", "directory"} \/ customers = {}
    /\ focus = "workspace" \/ workspaces = <<>>
    /\ focus = "limiter" \/ backend = "memory"
    /\ focus = "gate" \/ ~scimRoute
    /\ scimRoute => ~writable
    /\ focus = "gate" \/ writable

\* Providers are moved away from c1; in the race both operators move p1, and
\* nothing is changed by hand.
AwayFromC1 == \A o \in CellOperators : "from" \in DOMAIN optx'[o] => optx'[o].from = c1

RaceBound ==
    /\ failovers'[<<"fo", 2>>] = NoRow
    /\ Manual' = {}
    /\ AwayFromC1
    /\ \A o \in CellOperators : "provider" \in DOMAIN optx'[o] => optx'[o].provider = p1

\* The cleanup works on the buckets of the first level only.
CleanupBound == Len(buckets'["endpoint"]) = 1

Focused(f, states) == focus = f /\ UNCHANGED states

lifecycleState == vars
platformState == <<workspaceState, limiterState, gateState>>
tenantState == <<sessions, members, credState, directoryState, domainState, exportState>>

MCNext ==
    /\ \/ /\ Focused("lifecycle", <<placementState, migrationState, customers, tenantState, platformState, trail>>)
          /\ Next
       \/ /\ Focused("race", <<lifecycleState, migrationState, customers, tenantState, platformState>>)
          /\ PlacementNext /\ RaceBound
       \/ /\ Focused("shared", <<lifecycleState, migrationState, customers, cellMigrations,
                               tenantState, platformState>>)
          /\ PlacementNext /\ optx'[o2] = Idle /\ AwayFromC1
       \/ /\ Focused("import", <<lifecycleState, placementState, tenantState, platformState>>)
          /\ MigrationNext
       \/ /\ Focused("support", <<lifecycleState, placementState, migrationState, customers, platformState,
                                  members, credState, directoryState, domainState, exportState>>)
          /\ SupportNext
       \/ /\ Focused("team", <<lifecycleState, placementState, migrationState, customers, platformState,
                               sessions, directoryState, domainState, exportState>>)
          /\ TeamNext
       \/ /\ Focused("directory", <<lifecycleState, placementState, migrationState, platformState,
                                    sessions, members, credState, domainState, exportState>>)
          /\ DirectoryNext /\ Cardinality(trail') <= MaxDirectoryRows
       \/ /\ Focused("workspace", <<lifecycleState, placementState, migrationState, customers, trail,
                                    tenantState, limiterState, gateState>>)
          /\ WorkspaceNext
       \/ /\ Focused("domain", <<lifecycleState, placementState, migrationState, customers, platformState,
                                 sessions, members, credState, directoryState, exportState>>)
          /\ DomainNext
       \/ /\ Focused("export", <<lifecycleState, placementState, migrationState, customers, platformState,
                                 sessions, members, credState, directoryState, domainState>>)
          /\ ExportNext
       \/ /\ Focused("limiter", <<lifecycleState, placementState, migrationState, customers, trail,
                                  tenantState, workspaceState, gateState>>)
          /\ LimiterNext /\ CleanupBound
       \/ /\ Focused("gate", <<lifecycleState, placementState, migrationState, customers,
                               tenantState, workspaceState, limiterState>>)
          /\ GateNext
    /\ UNCHANGED focus

MCvars == <<lifecycleState, placementState, migrationState, customers, tenantState, platformState,
            trail, focus>>

\* The fairness of each component, asked of it when it is in focus: a request
\* that is importing keeps being scheduled by the Go runtime; time passes; the
\* sweepers of sessions and of idempotency records are supervised workers that
\* run on a ticker and never stop for good.
MCSpec ==
    /\ MCInit /\ [][MCNext]_MCvars
    /\ \A q \in Requests : WF_migrationVars(focus = "import" /\ BatchStep(q))
    /\ WF_sessions(focus = "support" /\ NewSupportExpirySweeper)
    /\ WF_sessions(focus = "support" /\ SupportClock)
    /\ WF_gateState(focus = "gate" /\ Age)
    /\ WF_gateState(focus = "gate" /\ PurgeExpiredIdempotencyKeys)
=============================================================================
