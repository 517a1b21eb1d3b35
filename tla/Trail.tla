------------------------------- MODULE Trail -------------------------------
(***************************************************************************)
(* The rows that every state-changing service call appends in its own      *)
(* transaction: one outbox event for the relay and one audit event.        *)
(* Payloads, hashes and actors are left out.  A row is its table, its type *)
(* and the entity it is about; `trail' is the set of rows ever committed,  *)
(* so it also tells which operations an entity has been through.           *)
(***************************************************************************)

VARIABLE trail

\* service.emitOutboxTx: the outbox row of a business fact.
emitOutboxTx(type, id) == {<<"outbox", type, id>>}

\* service.emitOutboxWithTxIDTx: the row carries the caller's transaction id,
\* and a second row with that id is a no-op (ON CONFLICT DO NOTHING).
emitOutboxWithTxIDTx(type, txID) == {<<"outbox", type, txID>>}

\* service.insertAuditTx: the audit row of an operation.
insertAuditTx(action, id) == {<<"audit", action, id>>}

\* The rows of a transaction become visible when it commits.
AppendRows(rows) == trail' = trail \cup rows

\* An operation of this type has committed for this entity.
Happened(type, id) == <<"outbox", type, id>> \in trail

Audited(action, id) == <<"audit", action, id>> \in trail
=============================================================================
