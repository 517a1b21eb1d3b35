------------------------------ MODULE AuditChain ------------------------------
(***************************************************************************)
(* The tamper-evident audit log: db/migrations/0031_audit_hash_chain.sql   *)
(* (append trigger, purge, verify, anchor), the service methods that call  *)
(* it, and the archiver of internal/service/audit_archive.go.              *)
(*                                                                         *)
(* An event is its id, drawn from a sequence.  Its hash covers its id and  *)
(* the previous hash, so the hash is abstracted to the id itself, and      *)
(* prev_hash to the id of the predecessor (0 for NULL).  created_at is the *)
(* start of the inserting transaction, abstracted to the order of starts.  *)
(***************************************************************************)
EXTENDS Integers, FiniteSets, FiniteSetsExt

CONSTANTS
    Writers,           \* concurrent transactions that write audit events
    Purgers,           \* retention sweepers, one in each API process
    Archivers,         \* archive sweepers, one in each API process
    MaxId,             \* bound: ids drawn
    MaxStarts,         \* bound: transactions started
    PurgeBatch,        \* auditPurgeBatchSize
    MaxAnchors,        \* bound: anchors made
    ArchiveBatch,      \* batchSize of ArchiveAuditAnchors
    MaxArchiveFaults,  \* bound: failed uploads and marks, crashed archivers
    NoWriter, NoAnchor

ASSUME WritersAssumption == NoWriter \notin Writers
ASSUME BoundsAssumption ==
    /\ {MaxId, MaxStarts, MaxAnchors, MaxArchiveFaults} \subseteq Nat
    /\ {PurgeBatch, ArchiveBatch} \subseteq Nat \ {0}
ASSUME NoAnchorAssumption == NoAnchor \notin 1 .. MaxAnchors

Ids == 1 .. MaxId
AnchorIds == 1 .. MaxAnchors

VARIABLES
    auditEvents,  \* audit_events: committed rows
    purged,       \* history: rows retention has deleted
    prev,         \* prev_hash of the rows inserted so far
    born,         \* created_at of the rows inserted so far
    tail,         \* audit_chain_tail.tail_event_id and tail_hash, as committed
    pruned,       \* audit_chain_tail.pruned_through_id
    nextId,       \* the id sequence
    starts,       \* transactions started
    start,        \* start of a writer's open transaction, 0 when there is none
    drawn,        \* id a writer has drawn and not inserted yet, or 0
    holder,       \* the writer that holds the row lock on the tail
    draft,        \* its uncommitted rows
    draftTail,    \* its uncommitted tail
    cutoff,       \* a purger's cutoff, 0 when it is idle
    boundary,     \* pruned_through as its function call read it, or -1
    overtaken,    \* history: purgers whose read is older than another's delete
    strays,       \* history: rows deleted by a purger that was overtaken
    lastAnchor,   \* audit_chain_anchors: the last id
    anchors,      \* tail_event_id and tail_hash of the anchors
    published,    \* anchors with published_at
    listed,       \* anchors of an archiver's sweep not finished yet
    marking,      \* the anchor an archiver has uploaded and is about to mark
    objects,      \* external: the tail in an anchor's object, 0 without object
    archiveFaults

chain == <<auditEvents, purged, prev, born, tail, pruned>>
writing == <<nextId, starts, start, drawn, holder, draft, draftTail>>
purging == <<cutoff, boundary, overtaken, strays>>
archiving == <<lastAnchor, anchors, published, listed, marking, objects, archiveFaults>>
auditVars == <<auditEvents, purged, prev, born, tail, pruned, nextId, starts, start, drawn,
               holder, draft, draftTail, cutoff, boundary, overtaken, strays, lastAnchor,
               anchors, published, listed, marking, objects, archiveFaults>>

AuditTypeOK ==
    /\ auditEvents \in SUBSET Ids /\ purged \in SUBSET Ids
    /\ prev \in [Ids -> 0 .. MaxId]
    /\ born \in [Ids -> 0 .. MaxStarts]
    /\ tail \in 0 .. MaxId /\ pruned \in 0 .. MaxId
    /\ nextId \in 1 .. MaxId + 1
    /\ starts \in 0 .. MaxStarts
    /\ start \in [Writers -> 0 .. MaxStarts]
    /\ drawn \in [Writers -> 0 .. MaxId]
    /\ holder \in Writers \cup {NoWriter}
    /\ draft \in SUBSET Ids /\ draftTail \in 0 .. MaxId
    /\ cutoff \in [Purgers -> 0 .. MaxStarts + 1]
    /\ boundary \in [Purgers -> -1 .. MaxId]
    /\ overtaken \in SUBSET Purgers /\ strays \in SUBSET Ids
    /\ lastAnchor \in 0 .. MaxAnchors
    /\ anchors \in [AnchorIds -> 0 .. MaxId]
    /\ \A k \in 1 .. lastAnchor : anchors[k] # 0
    /\ published \in SUBSET AnchorIds
    /\ listed \in [Archivers -> SUBSET AnchorIds]
    /\ marking \in [Archivers -> AnchorIds \cup {NoAnchor}]
    /\ objects \in [AnchorIds -> 0 .. MaxId]
    /\ archiveFaults \in 0 .. MaxArchiveFaults

AuditInit ==
    /\ auditEvents = {} /\ purged = {}
    /\ prev = [i \in Ids |-> 0] /\ born = [i \in Ids |-> 0]
    /\ tail = 0 /\ pruned = 0
    /\ nextId = 1 /\ starts = 0
    /\ start = [w \in Writers |-> 0] /\ drawn = [w \in Writers |-> 0]
    /\ holder = NoWriter /\ draft = {} /\ draftTail = 0
    /\ cutoff = [u \in Purgers |-> 0] /\ boundary = [u \in Purgers |-> -1]
    /\ overtaken = {} /\ strays = {}
    /\ lastAnchor = 0 /\ anchors = [k \in AnchorIds |-> 0] /\ published = {}
    /\ listed = [a \in Archivers |-> {}] /\ marking = [a \in Archivers |-> NoAnchor]
    /\ objects = [k \in AnchorIds |-> 0]
    /\ archiveFaults = 0

-------------------------------------------------------------------------------
(* Writers: transactions that call insertAuditTx, any number of times *)

Begin(w) ==
    /\ start[w] = 0
    /\ starts < MaxStarts
    /\ starts' = starts + 1
    /\ start' = [start EXCEPT ![w] = starts + 1]
    /\ UNCHANGED <<chain, nextId, drawn, holder, draft, draftTail, purging, archiving>>

\* INSERT: the DEFAULT of id is evaluated before the BEFORE INSERT trigger runs.
DrawId(w) ==
    /\ start[w] # 0 /\ drawn[w] = 0
    /\ nextId <= MaxId
    /\ drawn' = [drawn EXCEPT ![w] = nextId]
    /\ nextId' = nextId + 1
    /\ UNCHANGED <<chain, starts, start, holder, draft, draftTail, purging, archiving>>

\* SELECT tail_hash ... FOR UPDATE: the writer's own tail, or the last committed.
TailSeen(w) == IF holder = w THEN draftTail ELSE tail

\* audit_events_hash_trigger, once the tail's row lock is free; kept to commit.
Append(w) ==
    /\ drawn[w] # 0
    /\ holder \in {w, NoWriter}
    /\ prev' = [prev EXCEPT ![drawn[w]] = TailSeen(w)]
    /\ born' = [born EXCEPT ![drawn[w]] = start[w]]
    /\ holder' = w
    /\ draft' = draft \cup {drawn[w]}
    /\ draftTail' = drawn[w]
    /\ drawn' = [drawn EXCEPT ![w] = 0]
    /\ UNCHANGED <<auditEvents, purged, tail, pruned, nextId, starts, start, purging, archiving>>

\* The transaction ends and releases the tail if it holds it.
EndTx(w) ==
    /\ start' = [start EXCEPT ![w] = 0]
    /\ drawn' = [drawn EXCEPT ![w] = 0]
    /\ holder' = IF holder = w THEN NoWriter ELSE holder
    /\ draft' = IF holder = w THEN {} ELSE draft
    /\ draftTail' = IF holder = w THEN 0 ELSE draftTail

Commit(w) ==
    /\ start[w] # 0 /\ drawn[w] = 0
    /\ auditEvents' = IF holder = w THEN auditEvents \cup draft ELSE auditEvents
    /\ tail' = IF holder = w THEN draftTail ELSE tail
    /\ EndTx(w)
    /\ UNCHANGED <<purged, prev, born, pruned, nextId, starts, purging, archiving>>

\* Mutant: the new tail outlives a rollback, as a sequence would.
MutAbort(w) ==
    /\ start[w] # 0
    /\ tail' = IF holder = w THEN draftTail ELSE tail
    /\ EndTx(w)
    /\ UNCHANGED <<auditEvents, purged, prev, born, pruned, nextId, starts, purging, archiving>>

\* A rollback, also while the insert waits for the tail: ids drawn are not reused.
Abort(w) ==
    /\ start[w] # 0
    /\ EndTx(w)
    /\ UNCHANGED <<chain, nextId, starts, purging, archiving>>

-------------------------------------------------------------------------------
(* PurgeExpiredAuditEvents: purge_audit_events until a batch is not full *)

\* The retention is days, so the cutoff is older than any open transaction.
StartPurge(u) ==
    /\ cutoff[u] = 0
    /\ \E c \in 2 .. starts + 1 :
          /\ \A w \in Writers : start[w] # 0 => c <= start[w]
          /\ cutoff' = [cutoff EXCEPT ![u] = c]
    /\ UNCHANGED <<chain, writing, boundary, overtaken, strays, archiving>>

\* WHERE created_at < cutoff ORDER BY created_at LIMIT max_rows.  Rows of one
\* transaction tie; idx_audit_events_created_at returns them in insertion order.
Doomed(c) ==
    LET old == {i \in auditEvents : born[i] < c}
        Before(j, i) == born[j] < born[i] \/ (born[j] = born[i] /\ j < i)
    IN {i \in old : Cardinality({j \in old : Before(j, i)}) < PurgeBatch}

\* The function first reads the largest id about to be deleted ...
PurgeRead(u) ==
    /\ cutoff[u] # 0 /\ boundary[u] = -1
    /\ \E b \in Doomed(cutoff[u]) \cup {0} :
          /\ \A i \in Doomed(cutoff[u]) : i <= b
          /\ boundary' = [boundary EXCEPT ![u] = b]
    /\ UNCHANGED <<chain, writing, cutoff, overtaken, strays, archiving>>

\* ALTER TABLE ... DISABLE TRIGGER waits for every transaction that inserts.
NoInserts == holder = NoWriter /\ \A w \in Writers : drawn[w] = 0

\* Mutant: the boundary is overwritten, not raised.
MutRaise(b) == b

\* GREATEST(COALESCE(pruned_through_id, 0), pruned_through)
Raise(b) == IF b > pruned THEN b ELSE pruned

\* ... then deletes what a new snapshot selects, records the boundary and
\* commits; the caller goes on after a full batch.
PurgeDelete(u) ==
    /\ boundary[u] # -1
    /\ NoInserts
    /\ LET D == Doomed(cutoff[u])
       IN /\ auditEvents' = auditEvents \ D
          /\ purged' = purged \cup D
          /\ pruned' = IF D = {} THEN pruned ELSE Raise(boundary[u])
          /\ cutoff' = [cutoff EXCEPT ![u] = IF Cardinality(D) < PurgeBatch THEN 0 ELSE @]
          /\ strays' = IF u \in overtaken THEN strays \cup D ELSE strays
    /\ overtaken' = {v \in Purgers \ {u} : boundary[v] # -1}
    /\ boundary' = [boundary EXCEPT ![u] = -1]
    /\ UNCHANGED <<prev, born, tail, writing, archiving>>

-------------------------------------------------------------------------------
(* AnchorAuditChain and ArchiveAuditAnchors *)

\* anchor_audit_chain: checkpoint the committed tail; nothing to do without one.
Anchor ==
    /\ tail # 0
    /\ lastAnchor < MaxAnchors
    /\ lastAnchor' = lastAnchor + 1
    /\ anchors' = [anchors EXCEPT ![lastAnchor + 1] = tail]
    /\ UNCHANGED <<chain, writing, purging, published, listed, marking, objects, archiveFaults>>

\* Mutant: the list takes every anchor, oldest first.
MutUnpublished == 1 .. lastAnchor

Unpublished == (1 .. lastAnchor) \ published

\* ListAuditAnchorsForPublish: ORDER BY id LIMIT batch_size.
List(a) ==
    /\ listed[a] = {}
    /\ Unpublished # {}
    /\ listed' = [listed EXCEPT ![a] =
                    {k \in Unpublished : Cardinality({j \in Unpublished : j < k}) < ArchiveBatch}]
    /\ UNCHANGED <<chain, writing, purging, lastAnchor, anchors, published, marking, objects, archiveFaults>>

\* Nothing to publish: wait for the next tick.
ListEmpty(a) ==
    /\ listed[a] = {}
    /\ Unpublished = {}
    /\ UNCHANGED auditVars

\* The sweep goes on with its oldest anchor.
AnchorTurn(a, k) ==
    /\ marking[a] = NoAnchor
    /\ k \in listed[a] /\ \A j \in listed[a] : k <= j

\* PublishAnchor: PutObject under the anchor's key, replacing identical content.
Upload(a, k) ==
    /\ AnchorTurn(a, k)
    /\ objects' = [objects EXCEPT ![k] = anchors[k]]
    /\ marking' = [marking EXCEPT ![a] = k]
    /\ UNCHANGED <<chain, writing, purging, lastAnchor, anchors, published, listed, archiveFaults>>

Skip(a, k) ==
    /\ listed' = [listed EXCEPT ![a] = @ \ {k}]
    /\ marking' = [marking EXCEPT ![a] = NoAnchor]

\* Mutant: an anchor whose upload failed is marked all the same.
MutUploadFails(a, k) ==
    /\ AnchorTurn(a, k)
    /\ archiveFaults < MaxArchiveFaults /\ archiveFaults' = archiveFaults + 1
    /\ marking' = [marking EXCEPT ![a] = k]
    /\ UNCHANGED <<chain, writing, purging, lastAnchor, anchors, published, listed, objects>>

\* The put fails, though its object may be there: next anchor.
UploadFails(a, k) ==
    /\ AnchorTurn(a, k)
    /\ archiveFaults < MaxArchiveFaults /\ archiveFaults' = archiveFaults + 1
    /\ objects' \in {objects, [objects EXCEPT ![k] = anchors[k]]}
    /\ Skip(a, k)
    /\ UNCHANGED <<chain, writing, purging, lastAnchor, anchors, published>>

\* MarkAuditAnchorPublished, guarded by published_at IS NULL.
MarkAuditAnchorPublished(a) ==
    /\ marking[a] # NoAnchor
    /\ published' = published \cup {marking[a]}
    /\ Skip(a, marking[a])
    /\ UNCHANGED <<chain, writing, purging, lastAnchor, anchors, objects, archiveFaults>>

\* The mark fails: next anchor.
MarkFails(a) ==
    /\ marking[a] # NoAnchor
    /\ archiveFaults < MaxArchiveFaults /\ archiveFaults' = archiveFaults + 1
    /\ Skip(a, marking[a])
    /\ UNCHANGED <<chain, writing, purging, lastAnchor, anchors, published, objects>>

\* The process dies in a sweep, also between upload and mark.
ArchiverCrash(a) ==
    /\ listed[a] # {}
    /\ archiveFaults < MaxArchiveFaults /\ archiveFaults' = archiveFaults + 1
    /\ listed' = [listed EXCEPT ![a] = {}]
    /\ marking' = [marking EXCEPT ![a] = NoAnchor]
    /\ UNCHANGED <<chain, writing, purging, lastAnchor, anchors, published, objects>>

-------------------------------------------------------------------------------
Write(w) == Begin(w) \/ DrawId(w) \/ Append(w) \/ Commit(w) \/ Abort(w)

PurgeExpiredAuditEvents(u) == StartPurge(u) \/ PurgeRead(u) \/ PurgeDelete(u)

Sweep(a) ==
    \/ List(a)
    \/ \E k \in AnchorIds : Upload(a, k) \/ UploadFails(a, k)
    \/ MarkAuditAnchorPublished(a) \/ MarkFails(a)

AuditNext ==
    \/ \E w \in Writers : Write(w)
    \/ \E u \in Purgers : PurgeExpiredAuditEvents(u)
    \/ Anchor
    \/ \E a \in Archivers : Sweep(a) \/ ListEmpty(a) \/ ArchiverCrash(a)

AuditSpec == AuditInit /\ [][AuditNext]_auditVars

(* The archive sweeper runs on a ticker and its HTTP and database calls    *)
(* return.                                                                 *)
AuditFairSpec == AuditSpec /\ \A a \in Archivers : WF_auditVars(Sweep(a))

-------------------------------------------------------------------------------
(* Verification *)

\* audit_chain_verify(0, 0): in id order from the first id after the pruned
\* head to the tail, every row's prev_hash is the hash of the row before it; a
\* missing first row ends the verification with "ok".
VerifyOk ==
    LET first == pruned + 1
        range == {i \in auditEvents : first <= i /\ i <= tail}
    IN first \in auditEvents =>
          \A i \in range \ {first} : prev[i] = Max({j \in range : j < i} \cup {first})

-------------------------------------------------------------------------------
(* Properties *)

Everyone == auditEvents \cup purged

\* "The chain never forks": whatever the interleaving of inserts, commits and
\* rollbacks, the rows ever committed are one list, in which no two rows follow
\* the same row, none follows a row that was rolled back, and only the recorded
\* tail is followed by none.
ChainIsLinear ==
    /\ \A i \in Everyone : prev[i] \in Everyone \cup {0}
    /\ \A i, j \in Everyone : prev[i] = prev[j] => i = j
    /\ {i \in Everyone : \A j \in Everyone : prev[j] # i} = {tail} \ {0}

\* purge_audit_events "records how far the chain head was pruned": the recorded
\* boundary covers every row that was deleted.
BoundaryCoversPurged == \A i \in purged : i <= pruned

\* What is left of that with a retention sweeper in every process: rows commit
\* between the read of the boundary and the delete, and yet the boundary misses a
\* deleted row only when another sweeper's delete came in between as well.
BoundaryMissesOnlyStrays == \A i \in purged \ strays : i <= pruned

\* A published anchor has its object in the bucket, with the tail of the row: no
\* crash, failed upload or second archiver publishes what was not archived.
PublishedIsArchived ==
    \A k \in published : k <= lastAnchor /\ objects[k] = anchors[k]

\* Every anchor is eventually published, however uploads, marks and sweeps fail.
AnchorsArchived ==
    \A k \in AnchorIds : []<>(k <= lastAnchor => k \in published)

\* "BrokenAt is nil when the segment is intact" (AuditChainVerifyResult): nothing
\* in this model touches a committed row, so the verification succeeds.
IntactChainVerifies == VerifyOk
===============================================================================
