----------------------------- MODULE EventDelivery -----------------------------
(***************************************************************************)
(* What the outbox promises about an event, whoever delivers it.  Once     *)
(* committed it is owed to the billing engine, until it is published, for  *)
(* usage events only after the engine took it, or buried.  A deliverer is  *)
(* overdue when it goes on without its lease; that begins only while the   *)
(* event is owed, and an event settled with nobody overdue on it stays as  *)
(* it is until it is deleted.                                              *)
(***************************************************************************)
CONSTANTS Events, Usage

VARIABLES fate,    \* "absent", "owed", "published", "dead_letter" or "purged"
          billed,  \* events the billing engine has taken
          overdue  \* events somebody works on without a lease

edVars == <<fate, billed, overdue>>

EDInit ==
    /\ fate = [e \in Events |-> "absent"]
    /\ billed = {}
    /\ overdue = {}

Become(e, from, to) ==
    /\ fate[e] = from
    /\ fate' = [fate EXCEPT ![e] = to]
    /\ UNCHANGED <<billed, overdue>>

EDEmit(e) == Become(e, "absent", "owed")

EDPurge(e) == \E settled \in {"published", "dead_letter"} : Become(e, settled, "purged")

\* A lease ends under a deliverer.
EDLapse(e) ==
    /\ fate[e] = "owed"
    /\ overdue' = overdue \cup {e}
    /\ UNCHANGED <<fate, billed>>

\* Overdue deliverers give up.
EDAbandon ==
    /\ overdue' \in SUBSET overdue
    /\ UNCHANGED <<fate, billed>>

EDBill(e) ==
    /\ e \in Usage
    /\ fate[e] = "owed" \/ e \in overdue
    /\ billed' = billed \cup {e}
    /\ overdue' \in SUBSET overdue
    /\ UNCHANGED fate

\* One deliverer's verdict: to be retried, published or buried.  An overdue one
\* may overwrite the verdict of another.
EDSettle(e) ==
    /\ \/ fate[e] = "owed"
       \/ fate[e] \in {"published", "dead_letter"} /\ e \in overdue
    /\ \E to \in {"owed", "published", "dead_letter"} :
          /\ to = "published" /\ e \in Usage => e \in billed
          /\ fate' = [fate EXCEPT ![e] = to]
    /\ overdue' \in {overdue, overdue \ {e}}
    /\ UNCHANGED billed

EDNext ==
    \/ EDAbandon
    \/ \E e \in Events : EDEmit(e) \/ EDLapse(e) \/ EDBill(e) \/ EDSettle(e) \/ EDPurge(e)

EDSpec == EDInit /\ [][EDNext]_edVars
===============================================================================
