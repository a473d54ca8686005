--------------------------- MODULE DecisionStore ----------------------------
(***************************************************************************)
(* DecisionStore of backend/src/store.rs: durable decisions and audits, as *)
(* the workflow sees the in-memory and the PostgreSQL implementation.      *)
(*                                                                         *)
(* A decision row carries the request's digest.  SHA-256 is taken to be    *)
(* free of collisions, so the request itself stands for its digest; key,   *)
(* order id and decision id are functions of it.                           *)
(***************************************************************************)
EXTENDS Sequences, Integers, FiniteSets

CONSTANTS
    Requests,       \* the requests clients send (see OrderAuthorization)
    StoreFaults     \* the codes with which a store operation may fail

Outcomes == {"approved", "manual_review", "rejected"}

Decision == [request : Requests, outcome : Outcomes]

\* record failed before its COMMIT: nothing is stored (DefiniteNoCommit)
DefiniteCodes == {"decision_transaction_begin_failed",
                  "decision_insert_failed", "audit_insert_failed"}

\* record lost the answer of a statement that stores nothing, but is
\* classified CommitUnknown: the lookup of the row in conflict and ROLLBACK
ConflictPathCodes == {"decision_lookup_failed", "decision_rollback_failed"}

\* the answer of COMMIT was lost
CommitLost == "decision_commit_unknown"

\* find failed
LookupFailed == "decision_lookup_failed"

ASSUME StoreFaultsAssumption ==
    StoreFaults \subseteq DefiniteCodes \cup ConflictPathCodes \cup {CommitLost}

VARIABLES
    decisions,      \* committed rows of order_authorization_decisions
    audits,         \* committed rows of order_authorization_audit, in order
    unsettled       \* rows whose COMMIT was sent and whose answer was lost

storeVars == <<decisions, audits, unsettled>>

\* Types of the store
StoreTypeOK ==
    /\ decisions \in SUBSET Decision
    /\ audits \in Seq(Decision)
    /\ unsettled \in SUBSET Decision

StoreInit ==
    /\ decisions = {}
    /\ audits = <<>>
    /\ unsettled = {}

\* Mutant of Find: it also sees rows of transactions that have not ended
FindDirty(key) == { d \in decisions \cup unsettled : d.request.key = key }

\* find: the committed rows with this idempotency key (at most one)
Find(key) == { d \in decisions : d.request.key = key }

\* a row in an open transaction holds the unique index entry of its key, so
\* that another INSERT with the key waits for that transaction to end
Locked(key) == \E d \in unsettled : d.request.key = key

\* record found no row with the key: decision and audit commit together
Insert(decision) ==
    /\ decisions' = decisions \cup {decision}
    /\ audits' = Append(audits, decision)
    /\ UNCHANGED unsettled

\* COMMIT is on its way and nobody waits for its answer any more
LeaveUnsettled(decision) ==
    /\ unsettled' = unsettled \cup {decision}
    /\ UNCHANGED <<decisions, audits>>

\* the server executes such a COMMIT, or rolls the transaction back
SettleCommit(d) ==
    /\ d \in unsettled
    /\ unsettled' = unsettled \ {d}
    /\ decisions' = decisions \cup {d}
    /\ audits' = Append(audits, d)

SettleAbort(d) ==
    /\ d \in unsettled
    /\ unsettled' = unsettled \ {d}
    /\ UNCHANGED <<decisions, audits>>

-----------------------------------------------------------------------------
(***************************************************************************)
(* One durable decision per idempotency key, and exactly one audit record  *)
(* for each decision and none for anything else: "PostgreSQL atomically    *)
(* stores the terminal decision and redacted audit event" (README).  It    *)
(* has to hold while commits whose answer was lost land late.              *)
(***************************************************************************)
OneAuditedDecisionPerKey ==
    /\ \A d, e \in decisions : d.request.key = e.request.key => d = e
    /\ \A d \in decisions : \E i \in DOMAIN audits : audits[i] = d
    /\ \A i \in DOMAIN audits : audits[i] \in decisions
    /\ \A i, j \in DOMAIN audits : audits[i] = audits[j] => i = j
=============================================================================
