----------------------------- MODULE Customers -----------------------------
(***************************************************************************)
(* Customer accounts of one provider environment, by external id.  They    *)
(* are created by the API and by the record importer; nothing deletes one. *)
(***************************************************************************)
EXTENDS Trail

CONSTANT ExternalIds    \* non-empty external ids

VARIABLE customers      \* customer_accounts, UNIQUE (provider, environment, external_id)

ValidAccountType(t) == t \in {"individual", "business"}

GetCustomerByExternalID(x) == x \in customers

\* InsertCustomerAccount fails on the unique index when the id is taken.
InsertCustomerAccount(x) == x \notin customers /\ customers' = customers \cup {x}

\* Service.CreateCustomer: the account, its event and its audit row in one transaction.
CreateCustomer(x, type) ==
    /\ x \in ExternalIds
    /\ ValidAccountType(type)
    /\ InsertCustomerAccount(x)
    /\ AppendRows(emitOutboxTx("customer.created", x) \cup insertAuditTx("customer.create", x))

createCustomer == \E x \in ExternalIds, t \in {"individual", "business"} : CreateCustomer(x, t)
=============================================================================
