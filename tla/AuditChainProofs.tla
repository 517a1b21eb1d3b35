--------------------------- MODULE AuditChainProofs ---------------------------
(***************************************************************************)
(* For every number of writers, purgers and archivers and every bound: the *)
(* audit chain never forks, and what is published is archived.             *)
(***************************************************************************)
EXTENDS AuditChain, TLAPS

(* The rows S are one list through p that ends in t. *)
Linear(p, S, t) ==
    /\ t \in S \cup {0}
    /\ \A i \in S : p[i] \in S \cup {0}
    /\ \A i \in S : p[i] # t
    /\ \A i, j \in S : p[i] = p[j] => i = j
    /\ \A i \in S : i # t => \E j \in S : p[j] = i

ChainType ==
    /\ auditEvents \in SUBSET Ids /\ purged \in SUBSET Ids /\ draft \in SUBSET Ids
    /\ prev \in [Ids -> 0 .. MaxId]
    /\ tail \in 0 .. MaxId /\ draftTail \in 0 .. MaxId
    /\ nextId \in Nat
    /\ drawn \in [Writers -> 0 .. MaxId]

(* An id that is drawn is in no row yet, and only its writer's. *)
IdsFresh ==
    /\ \A i \in Everyone \cup draft : i < nextId
    /\ \A w \in Writers : drawn[w] < nextId /\ drawn[w] \notin Everyone \cup draft
    /\ \A v, w \in Writers : drawn[v] # 0 /\ drawn[v] = drawn[w] => v = w

(* The committed rows are a list; so are they with the lock holder's rows. *)
ChainInv ==
    /\ ChainType
    /\ IdsFresh
    /\ Linear(prev, Everyone, tail)
    /\ IF holder = NoWriter THEN draft = {} ELSE Linear(prev, Everyone \cup draft, draftTail)

\* The chain starts empty.
LEMMA ChainInvInit == AuditInit => ChainInv
  BY BoundsAssumption DEF AuditInit, ChainInv, ChainType, IdsFresh, Linear, Everyone, Ids

\* A list stays one when a new row follows its last: the step of the trigger.
LEMMA AppendKeepsLinear ==
    ASSUME NEW S, NEW t, NEW n \in Ids, S \subseteq Ids, n \notin S,
           NEW p \in [Ids -> 0 .. MaxId], Linear(p, S, t),
           NEW q, q = [p EXCEPT ![n] = t]
    PROVE  Linear(q, S \cup {n}, n)
  <1> USE DEF Ids
  <1>1. \A i \in S : q[i] = p[i]
    OBVIOUS
  <1>2. q[n] = t
    OBVIOUS
  <1>3. n # 0 /\ 0 \notin S /\ t # n
    BY BoundsAssumption DEF Linear
  <1>4. \A i \in S \cup {n} : q[i] \in S \cup {n, 0} /\ q[i] # n
    BY <1>1, <1>2, <1>3 DEF Linear
  <1>5. \A i, j \in S \cup {n} : q[i] = q[j] => i = j
    BY <1>1, <1>2 DEF Linear
  <1>6. \A i \in S \cup {n} : i # n => \E j \in S \cup {n} : q[j] = i
    <2> SUFFICES ASSUME NEW i \in S PROVE \E j \in S \cup {n} : q[j] = i
      OBVIOUS
    <2>1. CASE i = t
      BY <2>1, <1>2
    <2>2. CASE i # t
      BY <2>2, <1>1 DEF Linear
    <2> QED BY <2>1, <2>2
  <1> QED BY <1>4, <1>5, <1>6 DEF Linear

\* Rows outside a list do not matter to it.
LEMMA LinearFrame ==
    ASSUME NEW S, NEW t, NEW p, NEW q, Linear(p, S, t), \A i \in S : q[i] = p[i]
    PROVE  Linear(q, S, t)
  BY DEF Linear

\* Taking an id from the sequence disturbs no row.
LEMMA DrawIdStep ==
    ASSUME ChainInv, NEW w \in Writers, DrawId(w)
    PROVE  ChainInv'
  <1> USE DEF DrawId, chain, Everyone, Ids
  <1>1. ChainType'
    BY BoundsAssumption DEF ChainInv, ChainType
  <1>2. IdsFresh'
    BY DEF ChainInv, ChainType, IdsFresh
  <1> QED BY <1>1, <1>2 DEF ChainInv, Linear

\* The trigger links the drawn id to the tail it holds.
LEMMA AppendStep ==
    ASSUME ChainInv, NEW w \in Writers, Append(w)
    PROVE  ChainInv'
  <1> DEFINE n == drawn[w]
             S == Everyone \cup draft
             t == TailSeen(w)
  <1>1. n \in Ids /\ n \notin S /\ S \subseteq Ids /\ n < nextId
    BY BoundsAssumption DEF ChainInv, ChainType, IdsFresh, Append, Ids, Everyone
  <1>2. Linear(prev, S, t)
    <2>1. CASE holder = w
      BY <2>1, WritersAssumption DEF ChainInv, TailSeen
    <2>2. CASE holder = NoWriter
      BY <2>2, WritersAssumption DEF ChainInv, TailSeen
    <2> QED BY <2>1, <2>2 DEF Append
  <1>3. prev' = [prev EXCEPT ![n] = t] /\ prev \in [Ids -> 0 .. MaxId]
    BY DEF Append, ChainInv, ChainType
  <1>4. t \in 0 .. MaxId
    BY DEF TailSeen, ChainInv, ChainType
  <1>5. Everyone' = Everyone /\ tail' = tail /\ nextId' = nextId
    BY DEF Append, Everyone
  <1>6. draft' = draft \cup {n} /\ draftTail' = n /\ holder' = w
    BY DEF Append
  <1>7. drawn' = [drawn EXCEPT ![w] = 0] /\ drawn \in [Writers -> 0 .. MaxId]
    BY DEF Append, ChainInv, ChainType
  <1>8. ChainType'
    BY <1>1, <1>3, <1>4, <1>6, <1>7, BoundsAssumption
    DEF ChainInv, ChainType, Append, Ids
  <1>9. IdsFresh'
    <2>1. \A i \in S \cup {n} : i < nextId
      BY <1>1 DEF ChainInv, IdsFresh
    <2>2. \A v \in Writers : drawn'[v] < nextId /\ drawn'[v] \notin S \cup {n}
      <3> SUFFICES ASSUME NEW v \in Writers
                   PROVE  drawn'[v] < nextId /\ drawn'[v] \notin S \cup {n}
        OBVIOUS
      <3>1. CASE v = w
        <4>1. drawn'[v] = 0
          BY <3>1, <1>7
        <4>2. 0 \notin S \cup {n} /\ 0 < nextId
          BY <1>1, BoundsAssumption DEF Ids, ChainInv, ChainType
        <4> QED BY <4>1, <4>2
      <3>2. CASE v # w
        BY <3>2, <1>1, <1>7 DEF ChainInv, IdsFresh, Ids
      <3> QED BY <3>1, <3>2
    <2>3. \A u, v \in Writers : drawn'[u] # 0 /\ drawn'[u] = drawn'[v] => u = v
      BY <1>7 DEF ChainInv, IdsFresh
    <2>4. (Everyone \cup draft)' = S \cup {n}
      BY <1>5, <1>6
    <2> QED BY <2>1, <2>2, <2>3, <2>4, <1>5 DEF IdsFresh
  <1>10. Linear(prev', Everyone', tail')
    <2>1. \A i \in Everyone : prev'[i] = prev[i]
      BY <1>1, <1>3
    <2>2. Linear(prev, Everyone, tail)
      BY DEF ChainInv
    <2> QED BY <2>1, <2>2, <1>5, LinearFrame
  <1>11. Linear(prev', S \cup {n}, n)
    <2> HIDE DEF n, S, t
    <2> QED BY <1>1, <1>2, <1>3, AppendKeepsLinear
  <1>12. Linear(prev', (Everyone \cup draft)', draftTail')
    BY <1>5, <1>6, <1>11
  <1> QED
    BY <1>6, <1>8, <1>9, <1>10, <1>12, WritersAssumption DEF ChainInv

\* The end of a transaction, with its rows kept or dropped.
LEMMA EndStep ==
    ASSUME ChainInv, NEW w \in Writers, EndTx(w), UNCHANGED <<prev, nextId, purged>>,
           \/ UNCHANGED <<auditEvents, tail>>
           \/ holder = w /\ auditEvents' = auditEvents \cup draft /\ tail' = draftTail
    PROVE  ChainInv'
  <1> USE WritersAssumption DEF Everyone
  <1>1. ChainType'
    BY BoundsAssumption DEF ChainInv, ChainType, EndTx
  <1>2. Everyone' \cup draft' \subseteq Everyone \cup draft
    BY DEF EndTx
  <1>3. \A v \in Writers : drawn'[v] \in {0, drawn[v]}
    BY DEF EndTx, ChainInv, ChainType
  <1>4. IdsFresh'
    <2>1. \A i \in Everyone' \cup draft' : i < nextId'
      BY <1>2 DEF ChainInv, IdsFresh
    <2>2. 0 < nextId /\ 0 \notin Everyone \cup draft
      BY BoundsAssumption DEF ChainInv, ChainType, IdsFresh, Ids
    <2>3. \A v \in Writers : drawn'[v] < nextId' /\ drawn'[v] \notin Everyone' \cup draft'
      BY <1>2, <1>3, <2>2 DEF ChainInv, IdsFresh
    <2>4. \A u, v \in Writers : drawn'[u] # 0 /\ drawn'[u] = drawn'[v] => u = v
      BY <1>3 DEF ChainInv, IdsFresh
    <2> QED BY <2>1, <2>3, <2>4 DEF IdsFresh
  <1>5. Linear(prev', Everyone', tail')
    <2>1. CASE UNCHANGED <<auditEvents, tail>>
      BY <2>1 DEF ChainInv
    <2>2. CASE holder = w /\ auditEvents' = auditEvents \cup draft /\ tail' = draftTail
      <3>1. Everyone' = Everyone \cup draft
        BY <2>2
      <3> QED BY <2>2, <3>1 DEF ChainInv
    <2> QED BY <2>1, <2>2
  <1>6. IF holder' = NoWriter THEN draft' = {} ELSE Linear(prev', Everyone' \cup draft', draftTail')
    <2>1. CASE holder = w
      BY <2>1 DEF EndTx
    <2>2. CASE holder # w
      <3>1. UNCHANGED <<holder, draft, draftTail, auditEvents, tail>>
        BY <2>2 DEF EndTx
      <3> QED BY <3>1 DEF ChainInv
    <2> QED BY <2>1, <2>2
  <1> QED BY <1>1, <1>4, <1>5, <1>6 DEF ChainInv

\* Retention moves rows from the table to its history; nobody is inserting.
LEMMA PurgeDeleteStep ==
    ASSUME ChainInv, NEW u \in Purgers, PurgeDelete(u)
    PROVE  ChainInv'
  <1> DEFINE D == Doomed(cutoff[u])
  <1>1. D \subseteq auditEvents
    BY DEF Doomed
  <1>2. auditEvents' = auditEvents \ D /\ purged' = purged \cup D
    BY DEF PurgeDelete
  <1>3. UNCHANGED <<prev, tail, nextId, drawn, holder, draft, draftTail>>
    BY DEF PurgeDelete, writing
  <1> HIDE DEF D
  <1>4. Everyone' = Everyone
    BY <1>1, <1>2 DEF Everyone
  <1>5. ChainType'
    BY <1>1, <1>2, <1>3 DEF ChainInv, ChainType
  <1>6. IdsFresh'
    BY <1>3, <1>4 DEF ChainInv, IdsFresh
  <1> QED BY <1>3, <1>4, <1>5, <1>6 DEF ChainInv

\* Every other step leaves the chain and its writers' rows alone.
LEMMA ChainInvFrame ==
    ASSUME ChainInv, UNCHANGED <<auditEvents, purged, prev, tail, nextId, drawn, holder, draft, draftTail>>
    PROVE  ChainInv'
  BY DEF ChainInv, ChainType, IdsFresh, Linear, Everyone

\* The invariant is inductive: one case per action.
LEMMA ChainInvStep == ChainInv /\ [AuditNext]_auditVars => ChainInv'
  <1> SUFFICES ASSUME ChainInv, [AuditNext]_auditVars PROVE ChainInv'
    OBVIOUS
  <1>1. ASSUME NEW w \in Writers, Begin(w) PROVE ChainInv'
    BY <1>1, ChainInvFrame DEF Begin, chain
  <1>2. ASSUME NEW w \in Writers, DrawId(w) PROVE ChainInv'
    BY <1>2, DrawIdStep
  <1>3. ASSUME NEW w \in Writers, Append(w) PROVE ChainInv'
    BY <1>3, AppendStep
  <1>4. ASSUME NEW w \in Writers, Commit(w) PROVE ChainInv'
    BY <1>4, EndStep DEF Commit
  <1>5. ASSUME NEW w \in Writers, Abort(w) PROVE ChainInv'
    BY <1>5, EndStep DEF Abort, chain
  <1>6. ASSUME NEW u \in Purgers, StartPurge(u) PROVE ChainInv'
    BY <1>6, ChainInvFrame DEF StartPurge, chain, writing
  <1>7. ASSUME NEW u \in Purgers, PurgeRead(u) PROVE ChainInv'
    BY <1>7, ChainInvFrame DEF PurgeRead, chain, writing
  <1>8. ASSUME NEW u \in Purgers, PurgeDelete(u) PROVE ChainInv'
    BY <1>8, PurgeDeleteStep
  <1>9. CASE Anchor
    BY <1>9, ChainInvFrame DEF Anchor, chain, writing
  <1>10. ASSUME NEW a \in Archivers, Sweep(a) \/ ListEmpty(a) \/ ArchiverCrash(a) PROVE ChainInv'
    <2>1. UNCHANGED <<chain, writing>>
      BY <1>10 DEF Sweep, List, Upload, UploadFails, MarkAuditAnchorPublished, MarkFails, ListEmpty,
                   ArchiverCrash, auditVars, chain, writing
    <2> QED BY <2>1, ChainInvFrame DEF chain, writing
  <1>11. CASE UNCHANGED auditVars
    BY <1>11, ChainInvFrame DEF auditVars
  <1> QED
    BY <1>1, <1>2, <1>3, <1>4, <1>5, <1>6, <1>7, <1>8, <1>9, <1>10, <1>11
    DEF AuditNext, Write, PurgeExpiredAuditEvents

\* The audit chain never forks: for any number of concurrent writers, commits
\* and rollbacks, and any retention, the rows ever committed are one list that
\* ends in the recorded tail.
THEOREM AuditChainLinear == AuditSpec => []ChainIsLinear
  <1>1. ChainInv => ChainIsLinear
    <2> SUFFICES ASSUME ChainInv PROVE ChainIsLinear
      OBVIOUS
    <2>1. Linear(prev, Everyone, tail) /\ 0 \notin Everyone
      BY BoundsAssumption DEF ChainInv, ChainType, Everyone, Ids
    <2>2. {i \in Everyone : \A j \in Everyone : prev[j] # i} = {tail} \ {0}
      BY <2>1 DEF Linear
    <2> QED BY <2>1, <2>2 DEF ChainIsLinear, Linear
  <1> QED BY <1>1, ChainInvInit, ChainInvStep, PTL DEF AuditSpec

-------------------------------------------------------------------------------
(* The archive *)

(* What an archiver is about to mark is in the bucket, as the row has it. *)
ArchiveInv ==
    /\ lastAnchor \in 0 .. MaxAnchors
    /\ anchors \in [AnchorIds -> 0 .. MaxId] /\ objects \in [AnchorIds -> 0 .. MaxId]
    /\ listed \in [Archivers -> SUBSET AnchorIds]
    /\ marking \in [Archivers -> AnchorIds \cup {NoAnchor}]
    /\ published \in SUBSET AnchorIds
    /\ \A a \in Archivers : \A k \in listed[a] : k <= lastAnchor
    /\ \A a \in Archivers : marking[a] # NoAnchor =>
           marking[a] <= lastAnchor /\ objects[marking[a]] = anchors[marking[a]]
    /\ PublishedIsArchived

\* Nothing is listed, marked or published at first.
LEMMA ArchiveInvInit == AuditInit => ArchiveInv
  BY BoundsAssumption DEF AuditInit, ArchiveInv, PublishedIsArchived, AnchorIds

\* A new anchor has an id that no sweep has seen.
LEMMA AnchorStep ==
    ASSUME ChainInv, ArchiveInv, Anchor
    PROVE  ArchiveInv'
  <1>1. /\ lastAnchor' = lastAnchor + 1 /\ lastAnchor' \in AnchorIds
        /\ lastAnchor' \in 0 .. MaxAnchors
    BY BoundsAssumption DEF Anchor, ArchiveInv, AnchorIds
  <1>2. anchors' = [anchors EXCEPT ![lastAnchor'] = tail]
    BY <1>1 DEF Anchor
  <1>3. anchors' \in [AnchorIds -> 0 .. MaxId]
    BY <1>2, <1>1 DEF ArchiveInv, ChainInv, ChainType
  <1>4. \A k \in AnchorIds : k <= lastAnchor => anchors'[k] = anchors[k] /\ k <= lastAnchor'
    BY <1>1, <1>2, BoundsAssumption DEF ArchiveInv, AnchorIds
  <1>5. UNCHANGED <<published, listed, marking, objects>>
    BY DEF Anchor
  <1> QED BY <1>1, <1>3, <1>4, <1>5 DEF ArchiveInv, PublishedIsArchived

\* A sweep lists anchors that exist.
LEMMA ListStep ==
    ASSUME ArchiveInv, NEW a \in Archivers, List(a)
    PROVE  ArchiveInv'
  <1>1. PICK L \in SUBSET Unpublished : listed' = [listed EXCEPT ![a] = L]
    BY DEF List
  <1>2. \A k \in L : k \in AnchorIds /\ k <= lastAnchor
    BY BoundsAssumption DEF Unpublished, ArchiveInv, AnchorIds
  <1>3. UNCHANGED <<lastAnchor, anchors, published, marking, objects>>
    BY DEF List
  <1> QED BY <1>1, <1>2, <1>3 DEF ArchiveInv, PublishedIsArchived

\* An upload writes the anchor's own row under its key, again or for the first
\* time, so no marked or published object changes.
LEMMA UploadStep ==
    ASSUME ArchiveInv, NEW a \in Archivers, NEW k \in AnchorIds, Upload(a, k)
    PROVE  ArchiveInv'
  <1>1. k <= lastAnchor
    BY DEF Upload, AnchorTurn, ArchiveInv
  <1>2. objects' = [objects EXCEPT ![k] = anchors[k]]
    BY DEF Upload
  <1>3. objects' \in [AnchorIds -> 0 .. MaxId]
    BY <1>2 DEF ArchiveInv
  <1>4. objects'[k] = anchors[k]
        /\ \A j \in AnchorIds : objects[j] = anchors[j] => objects'[j] = anchors[j]
    BY <1>2 DEF ArchiveInv
  <1>5. marking' = [marking EXCEPT ![a] = k]
    BY DEF Upload
  <1>6. \A b \in Archivers : marking'[b] # NoAnchor =>
           marking'[b] <= lastAnchor /\ objects'[marking'[b]] = anchors[marking'[b]]
    BY <1>1, <1>4, <1>5 DEF ArchiveInv
  <1>7. UNCHANGED <<lastAnchor, anchors, published, listed>>
    BY DEF Upload
  <1>8. marking' \in [Archivers -> AnchorIds \cup {NoAnchor}]
    BY <1>5 DEF ArchiveInv
  <1>9. PublishedIsArchived'
    BY <1>4, <1>7 DEF ArchiveInv, PublishedIsArchived
  <1> QED BY <1>3, <1>6, <1>7, <1>8, <1>9 DEF ArchiveInv

\* Going on to the next anchor, after a failure or a mark.
LEMMA SkipStep ==
    ASSUME ArchiveInv, NEW a \in Archivers, NEW L \in SUBSET AnchorIds,
           UNCHANGED <<lastAnchor, anchors>>,
           L \subseteq listed[a], listed' = [listed EXCEPT ![a] = L],
           marking' = [marking EXCEPT ![a] = NoAnchor],
           objects' \in [AnchorIds -> 0 .. MaxId],
           \A j \in AnchorIds : objects[j] = anchors[j] => objects'[j] = anchors[j],
           published' \in {published, published \cup ({marking[a]} \ {NoAnchor})}
    PROVE  ArchiveInv'
  <1>1. published' \in SUBSET AnchorIds
    BY DEF ArchiveInv
  <1>2. PublishedIsArchived'
    BY DEF ArchiveInv, PublishedIsArchived
  <1>3. listed' \in [Archivers -> SUBSET AnchorIds]
        /\ marking' \in [Archivers -> AnchorIds \cup {NoAnchor}]
    BY DEF ArchiveInv
  <1>4. \A b \in Archivers : \A k \in listed'[b] : k <= lastAnchor'
    BY DEF ArchiveInv
  <1>5. \A b \in Archivers : marking'[b] # NoAnchor =>
           marking'[b] <= lastAnchor' /\ objects'[marking'[b]] = anchors'[marking'[b]]
    BY DEF ArchiveInv
  <1> QED BY <1>1, <1>2, <1>3, <1>4, <1>5 DEF ArchiveInv

\* The steps of an archiver keep the invariant: one case per action.
LEMMA SweepStep ==
    ASSUME ArchiveInv, NEW a \in Archivers,
           Sweep(a) \/ ListEmpty(a) \/ ArchiverCrash(a)
    PROVE  ArchiveInv'
  <1>1. CASE List(a)
    BY <1>1, ListStep
  <1>2. ASSUME NEW k \in AnchorIds, Upload(a, k) PROVE ArchiveInv'
    BY <1>2, UploadStep
  <1>3. ASSUME NEW k \in AnchorIds, UploadFails(a, k) PROVE ArchiveInv'
    <2>1. listed' = [listed EXCEPT ![a] = listed[a] \ {k}]
      BY <1>3 DEF UploadFails, Skip
    <2>2. /\ objects' \in [AnchorIds -> 0 .. MaxId]
          /\ \A j \in AnchorIds : objects[j] = anchors[j] => objects'[j] = anchors[j]
      BY <1>3 DEF UploadFails, ArchiveInv
    <2>3. listed[a] \ {k} \in SUBSET AnchorIds
      BY DEF ArchiveInv
    <2> QED BY <1>3, <2>1, <2>2, <2>3, SkipStep DEF UploadFails, Skip
  <1>4. CASE MarkAuditAnchorPublished(a)
    <2>1. listed' = [listed EXCEPT ![a] = listed[a] \ {marking[a]}]
      BY <1>4 DEF MarkAuditAnchorPublished, Skip
    <2>2. published' = published \cup ({marking[a]} \ {NoAnchor})
      BY <1>4 DEF MarkAuditAnchorPublished
    <2>3. listed[a] \ {marking[a]} \in SUBSET AnchorIds /\ objects' \in [AnchorIds -> 0 .. MaxId]
      BY <1>4 DEF ArchiveInv, MarkAuditAnchorPublished
    <2> QED BY <1>4, <2>1, <2>2, <2>3, SkipStep DEF MarkAuditAnchorPublished, Skip
  <1>5. CASE MarkFails(a)
    <2>1. listed' = [listed EXCEPT ![a] = listed[a] \ {marking[a]}]
      BY <1>5 DEF MarkFails, Skip
    <2>2. listed[a] \ {marking[a]} \in SUBSET AnchorIds /\ objects' \in [AnchorIds -> 0 .. MaxId]
      BY <1>5 DEF ArchiveInv, MarkFails
    <2> QED BY <1>5, <2>1, <2>2, SkipStep DEF MarkFails, Skip
  <1>6. CASE ArchiverCrash(a)
    <2>1. objects' \in [AnchorIds -> 0 .. MaxId]
      BY <1>6 DEF ArchiveInv, ArchiverCrash
    <2>2. {} \in SUBSET AnchorIds /\ {} \subseteq listed[a]
      OBVIOUS
    <2>3. /\ listed' = [listed EXCEPT ![a] = {}] /\ marking' = [marking EXCEPT ![a] = NoAnchor]
          /\ UNCHANGED <<lastAnchor, anchors, published, objects>>
      BY <1>6 DEF ArchiverCrash
    <2> QED BY <2>1, <2>2, <2>3, SkipStep
  <1>7. CASE ListEmpty(a)
    BY <1>7 DEF ListEmpty, auditVars, ArchiveInv, PublishedIsArchived
  <1> QED BY <1>1, <1>2, <1>3, <1>4, <1>5, <1>6, <1>7 DEF Sweep

\* What is marked published is in the bucket as the database has it, whatever
\* number of archivers sweep, fail and crash between upload and mark.
THEOREM ArchivedBeforePublished == AuditSpec => []PublishedIsArchived
  <1>1. ChainInv /\ ArchiveInv /\ [AuditNext]_auditVars => ArchiveInv'
    <2> SUFFICES ASSUME ChainInv, ArchiveInv, [AuditNext]_auditVars PROVE ArchiveInv'
      OBVIOUS
    <2>1. CASE UNCHANGED archiving
      BY <2>1 DEF archiving, ArchiveInv, PublishedIsArchived
    <2>2. ASSUME NEW w \in Writers, Write(w) PROVE UNCHANGED archiving
      BY <2>2 DEF Write, Begin, DrawId, Append, Commit, Abort, archiving
    <2>3. ASSUME NEW u \in Purgers, PurgeExpiredAuditEvents(u) PROVE UNCHANGED archiving
      BY <2>3 DEF PurgeExpiredAuditEvents, StartPurge, PurgeRead, PurgeDelete, archiving
    <2>4. UNCHANGED auditVars => UNCHANGED archiving
      BY DEF auditVars, archiving
    <2> QED BY <2>1, <2>2, <2>3, <2>4, AnchorStep, SweepStep DEF AuditNext
  <1>2. ArchiveInv => PublishedIsArchived
    BY DEF ArchiveInv
  <1> QED BY <1>1, <1>2, ArchiveInvInit, ChainInvInit, ChainInvStep, PTL DEF AuditSpec

-------------------------------------------------------------------------------
(* The pruned boundary *)

(* Doomed, with its state as parameters. *)
DoomedIn(R, B, c) ==
    {i \in {r \in R : B[r] < c} :
        Cardinality({j \in {r \in R : B[r] < c} :
                        B[j] < B[i] \/ (B[j] = B[i] /\ j < i)}) < PurgeBatch}

(* Open transactions, and with them the rows they will commit, are younger *)
(* than the cutoff of a purge.                                             *)
YoungInv ==
    /\ starts \in Nat
    /\ start \in [Writers -> Nat] /\ \A w \in Writers : start[w] <= starts
    /\ born \in [Ids -> Nat]
    /\ cutoff \in [Purgers -> Nat] /\ \A u \in Purgers : cutoff[u] <= starts + 1
    /\ \A u \in Purgers, w \in Writers : start[w] # 0 => cutoff[u] <= start[w]
    /\ \A w \in Writers : drawn[w] # 0 \/ holder = w => start[w] # 0
    /\ holder \in Writers \cup {NoWriter}
    /\ \A i \in draft : holder \in Writers /\ born[i] = start[holder]

(* What is doomed when the boundary is read is doomed when it is deleted, *)
(* unless another sweeper deletes in between.                             *)
ReadInv(u) ==
    boundary[u] # -1 =>
        /\ boundary[u] >= 0 /\ cutoff[u] # 0
        /\ u \in overtaken \/ \A i \in DoomedIn(auditEvents, born, cutoff[u]) : i <= boundary[u]

BoundaryInv ==
    /\ pruned \in Nat
    /\ boundary \in [Purgers -> Int]
    /\ \A u \in Purgers : ReadInv(u)
    /\ BoundaryMissesOnlyStrays

\* No transaction is open and nothing is purged at first.
LEMMA PurgeInvInit == AuditInit => YoungInv /\ BoundaryInv
  BY BoundsAssumption, WritersAssumption
  DEF AuditInit, YoungInv, BoundaryInv, ReadInv, BoundaryMissesOnlyStrays, Ids

\* The doomed rows depend on the old rows only.
LEMMA DoomedFrame ==
    ASSUME NEW R, NEW B, NEW Q, NEW C, NEW c,
           {r \in R : B[r] < c} = {r \in Q : C[r] < c},
           \A r \in R : B[r] < c => B[r] = C[r]
    PROVE  DoomedIn(R, B, c) = DoomedIn(Q, C, c)
  <1> DEFINE O == {r \in R : B[r] < c}
  <1>1. \A i \in O : {j \in O : B[j] < B[i] \/ (B[j] = B[i] /\ j < i)}
                     = {j \in O : C[j] < C[i] \/ (C[j] = C[i] /\ j < i)}
    OBVIOUS
  <1>2. O = {r \in Q : C[r] < c}
    OBVIOUS
  <1>3. DoomedIn(R, B, c)
          = {i \in O : Cardinality({j \in O : B[j] < B[i] \/ (B[j] = B[i] /\ j < i)}) < PurgeBatch}
    BY DEF DoomedIn
  <1>4. DoomedIn(Q, C, c)
          = {i \in O : Cardinality({j \in O : C[j] < C[i] \/ (C[j] = C[i] /\ j < i)}) < PurgeBatch}
    BY <1>2 DEF DoomedIn
  <1> HIDE DEF O
  <1> QED BY <1>1, <1>3, <1>4

\* Transactions start after every cutoff in use, and cutoffs are chosen before
\* every open transaction: one case per action.
LEMMA YoungInvStep == ChainInv /\ YoungInv /\ [AuditNext]_auditVars => YoungInv'
  <1> SUFFICES ASSUME ChainInv, YoungInv, [AuditNext]_auditVars PROVE YoungInv'
    OBVIOUS
  <1> USE WritersAssumption, BoundsAssumption
  <1>1. ASSUME NEW w \in Writers, Begin(w) PROVE YoungInv'
    <2>1. starts' = starts + 1 /\ start' = [start EXCEPT ![w] = starts + 1]
      BY <1>1 DEF Begin
    <2>2. UNCHANGED <<born, cutoff, drawn, holder, draft>>
      BY <1>1 DEF Begin, chain, purging
    <2>3. start[w] = 0
      BY <1>1 DEF Begin
    <2>4. \A v \in Writers : v # w => start'[v] = start[v]
      BY <2>1 DEF YoungInv
    <2>5. holder # w
      BY <2>3 DEF YoungInv
    <2>6. \A i \in draft : holder \in Writers /\ born[i] = start'[holder]
      BY <2>4, <2>5 DEF YoungInv
    <2>7. \A u \in Purgers, v \in Writers : start'[v] # 0 => cutoff[u] <= start'[v]
      BY <2>1, <2>4 DEF YoungInv
    <2> QED BY <2>1, <2>2, <2>4, <2>6, <2>7 DEF YoungInv
  <1>2. ASSUME NEW w \in Writers, DrawId(w) PROVE YoungInv'
    BY <1>2 DEF DrawId, chain, purging, YoungInv, ChainInv, ChainType
  <1>3. ASSUME NEW w \in Writers, Append(w) PROVE YoungInv'
    <2>1. drawn[w] \in Ids /\ drawn[w] \notin draft
      BY <1>3 DEF Append, ChainInv, ChainType, IdsFresh, Ids
    <2>2. /\ born' = [born EXCEPT ![drawn[w]] = start[w]] /\ holder' = w
          /\ draft' = draft \cup {drawn[w]} /\ drawn' = [drawn EXCEPT ![w] = 0]
          /\ UNCHANGED <<starts, start, cutoff>> /\ holder \in {w, NoWriter} /\ drawn[w] # 0
      BY <1>3 DEF Append, purging
    <2>3. \A i \in draft' : born'[i] = start[w]
      BY <2>1, <2>2 DEF YoungInv, ChainInv, ChainType
    <2>4. born' \in [Ids -> Nat]
      BY <2>1, <2>2 DEF YoungInv
    <2>5. \A v \in Writers : drawn'[v] # 0 \/ holder' = v => start[v] # 0
      BY <2>2 DEF YoungInv, ChainInv, ChainType
    <2> QED BY <2>2, <2>3, <2>4, <2>5 DEF YoungInv
  <1>4. ASSUME NEW w \in Writers, EndTx(w), UNCHANGED <<starts, born, cutoff>> PROVE YoungInv'
    <2>1. start' = [start EXCEPT ![w] = 0] /\ drawn' = [drawn EXCEPT ![w] = 0]
      BY <1>4 DEF EndTx
    <2>2. CASE holder = w
      <3>1. holder' = NoWriter /\ draft' = {}
        BY <1>4, <2>2 DEF EndTx
      <3> QED BY <1>4, <2>1, <3>1 DEF YoungInv, ChainInv, ChainType
    <2>3. CASE holder # w
      <3>1. holder' = holder /\ draft' = draft
        BY <1>4, <2>3 DEF EndTx
      <3> QED BY <1>4, <2>1, <2>3, <3>1 DEF YoungInv, ChainInv, ChainType
    <2> QED BY <2>2, <2>3
  <1>5. ASSUME NEW w \in Writers, Commit(w) \/ Abort(w) PROVE YoungInv'
    BY <1>4, <1>5 DEF Commit, Abort, chain, purging
  <1>6. ASSUME NEW u \in Purgers, StartPurge(u) PROVE YoungInv'
    <2>1. PICK c \in 2 .. starts + 1 :
            /\ \A w \in Writers : start[w] # 0 => c <= start[w]
            /\ cutoff' = [cutoff EXCEPT ![u] = c]
      BY <1>6 DEF StartPurge
    <2>2. UNCHANGED <<starts, start, born, drawn, holder, draft>>
      BY <1>6 DEF StartPurge, chain, writing
    <2> QED BY <2>1, <2>2 DEF YoungInv
  <1>7. ASSUME NEW u \in Purgers, PurgeRead(u) \/ PurgeDelete(u) PROVE YoungInv'
    <2>1. UNCHANGED <<starts, start, born, drawn, holder, draft>>
      BY <1>7 DEF PurgeRead, PurgeDelete, chain, writing
    <2>2. cutoff' = cutoff \/ cutoff' = [cutoff EXCEPT ![u] = 0]
      BY <1>7 DEF PurgeRead, PurgeDelete, YoungInv
    <2> QED BY <2>1, <2>2 DEF YoungInv
  <1>8. CASE UNCHANGED <<chain, writing, purging>>
    BY <1>8 DEF chain, writing, purging, YoungInv
  <1>9. Anchor => UNCHANGED <<chain, writing, purging>>
    BY DEF Anchor
  <1>10. ASSUME NEW a \in Archivers, Sweep(a) \/ ListEmpty(a) \/ ArchiverCrash(a)
         PROVE  UNCHANGED <<chain, writing, purging>>
    BY <1>10 DEF Sweep, List, Upload, UploadFails, MarkAuditAnchorPublished, MarkFails, ListEmpty,
                 ArchiverCrash, auditVars, chain, writing, purging
  <1>11. UNCHANGED auditVars => UNCHANGED <<chain, writing, purging>>
    BY DEF auditVars, chain, writing, purging
  <1> QED
    BY <1>1, <1>2, <1>3, <1>5, <1>6, <1>7, <1>8, <1>9, <1>10, <1>11 DEF AuditNext, Write, PurgeExpiredAuditEvents

\* A step that leaves the purger and the doomed rows alone keeps the boundary.
LEMMA BoundaryFrame ==
    ASSUME BoundaryInv, UNCHANGED <<pruned, purged, purging>>,
           \A u \in Purgers : cutoff[u] # 0 =>
               DoomedIn(auditEvents', born', cutoff[u]) = DoomedIn(auditEvents, born, cutoff[u])
    PROVE  BoundaryInv'
  BY DEF BoundaryInv, ReadInv, BoundaryMissesOnlyStrays, purging

\* For any number of retention sweepers: one case per action.
LEMMA BoundaryInvStep == ChainInv /\ YoungInv /\ BoundaryInv /\ [AuditNext]_auditVars => BoundaryInv'
  <1> SUFFICES ASSUME ChainInv, YoungInv, BoundaryInv, [AuditNext]_auditVars PROVE BoundaryInv'
    OBVIOUS
  <1>1. CASE UNCHANGED <<auditEvents, born, pruned, purged, purging>>
    BY <1>1, BoundaryFrame
  <1>2. ASSUME NEW w \in Writers, Append(w) PROVE BoundaryInv'
    <2>1. drawn[w] \in Ids /\ drawn[w] \notin auditEvents
      BY <1>2, BoundsAssumption DEF Append, ChainInv, ChainType, IdsFresh, Ids, Everyone
    <2>2. born' = [born EXCEPT ![drawn[w]] = start[w]]
          /\ UNCHANGED <<auditEvents, pruned, purged, purging>>
      BY <1>2 DEF Append
    <2>3. \A i \in auditEvents : born'[i] = born[i]
      BY <2>1, <2>2 DEF YoungInv, ChainInv, ChainType
    <2>4. \A u \in Purgers :
             DoomedIn(auditEvents, born, cutoff[u]) = DoomedIn(auditEvents', born', cutoff[u])
      <3> SUFFICES ASSUME NEW u \in Purgers
                   PROVE  DoomedIn(auditEvents, born, cutoff[u]) = DoomedIn(auditEvents', born', cutoff[u])
        OBVIOUS
      <3>1. {r \in auditEvents : born[r] < cutoff[u]} = {r \in auditEvents' : born'[r] < cutoff[u]}
        BY <2>2, <2>3
      <3> QED BY <2>3, <3>1, DoomedFrame
    <2> QED BY <2>2, <2>4, BoundaryFrame
  <1>3. ASSUME NEW w \in Writers, Commit(w) PROVE BoundaryInv'
    <2>1. UNCHANGED <<born, pruned, purged, purging>>
      BY <1>3 DEF Commit
    <2>2. ASSUME NEW u \in Purgers, cutoff[u] # 0
          PROVE  DoomedIn(auditEvents, born, cutoff[u]) = DoomedIn(auditEvents', born', cutoff[u])
      <3>1. \A i \in draft : ~ (born[i] < cutoff[u])
        BY <1>3, <2>2 DEF YoungInv, Commit
      <3>2. auditEvents' = auditEvents \/ auditEvents' = auditEvents \cup draft
        BY <1>3 DEF Commit
      <3>3. {r \in auditEvents : born[r] < cutoff[u]} = {r \in auditEvents' : born'[r] < cutoff[u]}
        BY <2>1, <3>1, <3>2
      <3> QED BY <2>1, <3>3, DoomedFrame
    <2> QED BY <2>1, <2>2, BoundaryFrame
  <1>4. ASSUME NEW u \in Purgers, StartPurge(u) PROVE BoundaryInv'
    <2>1. cutoff[u] = 0 /\ \A v \in Purgers : v # u => cutoff'[v] = cutoff[v]
      BY <1>4 DEF StartPurge, YoungInv
    <2>2. UNCHANGED <<auditEvents, born, pruned, purged, boundary, overtaken, strays>>
      BY <1>4 DEF StartPurge, chain
    <2>3. boundary[u] = -1
      BY <2>1 DEF BoundaryInv, ReadInv
    <2>4. ASSUME NEW v \in Purgers PROVE ReadInv(v)'
      <3>1. CASE v = u
        BY <2>2, <2>3, <3>1 DEF ReadInv
      <3>2. CASE v # u
        BY <2>1, <2>2, <3>2 DEF BoundaryInv, ReadInv
      <3> QED BY <3>1, <3>2
    <2> QED BY <2>2, <2>4 DEF BoundaryInv, BoundaryMissesOnlyStrays
  <1>5. ASSUME NEW u \in Purgers, PurgeRead(u) PROVE BoundaryInv'
    <2> DEFINE D == DoomedIn(auditEvents, born, cutoff[u])
    <2>1. Doomed(cutoff[u]) = D
      BY DEF Doomed, DoomedIn
    <2>a. D \subseteq Nat
      <3>1. D \subseteq auditEvents
        BY DEF DoomedIn
      <3>2. auditEvents \subseteq Nat
        BY BoundsAssumption DEF ChainInv, ChainType, Ids
      <3> QED BY <3>1, <3>2
    <2>2. PICK b \in D \cup {0} :
            /\ \A i \in D : i <= b
            /\ boundary' = [boundary EXCEPT ![u] = b]
      BY <1>5, <2>1 DEF PurgeRead
    <2> HIDE DEF D
    <2>3. b \in Nat
      BY <2>a
    <2>4. cutoff[u] # 0 /\ UNCHANGED <<auditEvents, born, pruned, purged, cutoff, overtaken, strays>>
      BY <1>5 DEF PurgeRead, chain
    <2>5. boundary' \in [Purgers -> Int] /\ boundary'[u] = b
      BY <2>2, <2>3 DEF BoundaryInv
    <2>6. ASSUME NEW v \in Purgers PROVE ReadInv(v)'
      <3>1. CASE v = u
        BY <2>2, <2>3, <2>4, <2>5, <3>1 DEF D, ReadInv
      <3>2. CASE v # u
        BY <2>2, <2>4, <3>2 DEF BoundaryInv, ReadInv
      <3> QED BY <3>1, <3>2
    <2> QED BY <2>4, <2>5, <2>6 DEF BoundaryInv, BoundaryMissesOnlyStrays
  <1>6. ASSUME NEW u \in Purgers, PurgeDelete(u) PROVE BoundaryInv'
    <2> DEFINE D == DoomedIn(auditEvents, born, cutoff[u])
    <2>1. /\ purged' = purged \cup D /\ boundary' = [boundary EXCEPT ![u] = -1]
          /\ pruned' = IF D = {} THEN pruned ELSE Raise(boundary[u])
          /\ boundary[u] # -1
          /\ strays' = IF u \in overtaken THEN strays \cup D ELSE strays
      <3>1. Doomed(cutoff[u]) = D
        BY DEF Doomed, DoomedIn
      <3> HIDE DEF D
      <3> QED BY <1>6, <3>1 DEF PurgeDelete
    <2>2. /\ boundary[u] \in Nat /\ cutoff[u] # 0
          /\ u \in overtaken \/ \A i \in D : i <= boundary[u]
      BY <2>1 DEF BoundaryInv, ReadInv
    <2> HIDE DEF D
    <2>3. pruned' \in Nat /\ pruned' >= pruned /\ (D # {} => pruned' >= boundary[u])
      <3>1. pruned \in Nat
        BY DEF BoundaryInv
      <3>2. Raise(boundary[u]) \in Nat /\ Raise(boundary[u]) >= pruned
            /\ Raise(boundary[u]) >= boundary[u]
        BY <2>2, <3>1 DEF Raise
      <3>3. CASE D = {}
        BY <2>1, <3>1, <3>3
      <3>4. CASE D # {}
        BY <2>1, <3>2, <3>4
      <3> QED BY <3>3, <3>4
    <2>4. ASSUME NEW v \in Purgers PROVE ReadInv(v)'
      <3>1. boundary'[u] = -1 /\ (v # u => boundary'[v] = boundary[v])
        BY <2>1 DEF BoundaryInv
      <3>2. v # u /\ boundary[v] # -1 => v \in overtaken'
        BY <1>6 DEF PurgeDelete
      <3>3. v # u => cutoff'[v] = cutoff[v]
        BY <1>6 DEF PurgeDelete, YoungInv
      <3> QED BY <3>1, <3>2, <3>3 DEF BoundaryInv, ReadInv
    <2>5. \A i \in purged \cup D : i \in Nat
      <3>1. D \subseteq auditEvents
        BY DEF D, DoomedIn
      <3>2. auditEvents \subseteq Nat /\ purged \subseteq Nat
        BY BoundsAssumption DEF ChainInv, ChainType, Ids
      <3> QED BY <3>1, <3>2
    <2>6. \A i \in (purged \cup D) \ strays' : i <= pruned'
      <3> SUFFICES ASSUME NEW i \in (purged \cup D) \ strays' PROVE i <= pruned'
        OBVIOUS
      <3>1. i \in Nat /\ pruned \in Nat
        BY <2>5 DEF BoundaryInv
      <3>2. CASE i \in purged
        <4>1. i \notin strays
          BY <2>1
        <4>2. i <= pruned
          BY <3>2, <4>1 DEF BoundaryInv, BoundaryMissesOnlyStrays
        <4> QED BY <2>3, <3>1, <4>2
      <3>3. CASE i \in D /\ i \notin purged
        <4>1. u \notin overtaken
          BY <2>1, <3>3
        <4>2. i <= boundary[u] /\ pruned' >= boundary[u]
          BY <2>2, <2>3, <3>3, <4>1
        <4> QED BY <2>2, <2>3, <3>1, <4>2
      <3> QED BY <3>2, <3>3
    <2>7. boundary' \in [Purgers -> Int]
      BY <2>1 DEF BoundaryInv
    <2>8. BoundaryMissesOnlyStrays'
      BY <2>1, <2>6 DEF BoundaryMissesOnlyStrays
    <2> QED BY <2>3, <2>4, <2>7, <2>8 DEF BoundaryInv
  <1>7. ASSUME NEW w \in Writers, Begin(w) \/ DrawId(w) \/ Abort(w)
        PROVE  UNCHANGED <<auditEvents, born, pruned, purged, purging>>
    BY <1>7 DEF Begin, DrawId, Abort, chain, purging
  <1>8. Anchor => UNCHANGED <<auditEvents, born, pruned, purged, purging>>
    BY DEF Anchor, chain, purging
  <1>9. ASSUME NEW a \in Archivers, Sweep(a) \/ ListEmpty(a) \/ ArchiverCrash(a)
        PROVE  UNCHANGED <<auditEvents, born, pruned, purged, purging>>
    BY <1>9 DEF Sweep, List, Upload, UploadFails, MarkAuditAnchorPublished, MarkFails, ListEmpty,
                ArchiverCrash, auditVars, chain, purging
  <1>10. UNCHANGED auditVars => UNCHANGED <<auditEvents, born, pruned, purged, purging>>
    BY DEF auditVars, purging
  <1> QED
    BY <1>1, <1>2, <1>3, <1>4, <1>5, <1>6, <1>7, <1>8, <1>9, <1>10 DEF AuditNext, Write, PurgeExpiredAuditEvents

\* For any number of retention sweepers, the recorded boundary covers every purged
\* row except those of a call that another sweeper's delete overtook: rows that
\* commit between the read of the boundary and the delete are too young to be
\* among the doomed, and only a second sweeper changes which rows those are.
THEOREM BoundaryMissesStraysOnly == AuditSpec => []BoundaryMissesOnlyStrays
  <1>1. BoundaryInv => BoundaryMissesOnlyStrays
    BY DEF BoundaryInv
  <1> QED
    BY <1>1, PurgeInvInit, ChainInvInit, ChainInvStep, YoungInvStep, BoundaryInvStep, PTL
    DEF AuditSpec
===============================================================================
