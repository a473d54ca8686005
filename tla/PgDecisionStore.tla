--------------------------- MODULE PgDecisionStore --------------------------
(***************************************************************************)
(* PgDecisionStore::record of backend/src/store.rs, statement by           *)
(* statement, for concurrent calls on one PostgreSQL database.             *)
(*                                                                         *)
(* The transaction of a call is READ COMMITTED.  decisions and audits are  *)
(* the committed tables; unsettled holds the rows whose COMMIT was sent    *)
(* and not executed.  INSERT .. ON CONFLICT (idempotency_key) is two       *)
(* steps of the server: a check of the unique index on the key, which      *)
(* waits for a transaction that holds the key, and the insertion into all  *)
(* indexes.  The insertion backs out when the key has been taken since the *)
(* check, but a collision on the PRIMARY KEY, which ON CONFLICT does not   *)
(* name, is an error.  decision_id is a hash of the request's digest: two  *)
(* rows have the same one exactly when they have the same request.         *)
(***************************************************************************)
EXTENDS DecisionStore

CONSTANTS
    Calls,          \* the calls of record
    Rows,           \* the rows they may be asked to store
    Modes,          \* RecordModes they may be asked for
    MayAbandon      \* may a caller be dropped?  (BOOLEAN)

ASSUME RowsAssumption == Rows \subseteq Decision
ASSUME ModesAssumption ==
    /\ Modes \subseteq {"Normal", "DefiniteFailure", "LoseCommitAcknowledgement"}
    /\ MayAbandon \in BOOLEAN

VARIABLES
    row, mode,      \* per call, its arguments
    step,           \* per call, the statement it is at: begin, check, insert,
                    \* lookup, rollback, audit, commit, wait (for its answer),
                    \* committed, aborted, done or gone
    reply           \* per call, what it returned, and the row it found

callVars == <<row, mode, step, reply>>
pgVars == <<storeVars, callVars>>

Returned(status, found) == [status |-> status, found |-> found]

KeyOf(c) == row[c].request.key

\* rows of other transactions that have not ended
InProgress(c) ==
    unsettled \cup { row[b] : b \in { e \in Calls \ {c} : step[e] \in {"audit", "commit"} } }

\* Mutant of SameKey: idempotency_key is not UNIQUE
SameKeyNotUnique(c, rows) == {}

SameKey(c, rows) == { d \in rows : d.request.key = KeyOf(c) }
SameId(c, rows)  == { d \in rows : d.request = row[c].request }

PgInit ==
    /\ StoreInit
    /\ row \in [Calls -> Rows]
    /\ mode \in [Calls -> Modes]
    /\ step = [c \in Calls |-> "begin"]
    /\ reply = [c \in Calls |-> Returned("none", {})]

Goto(c, next) ==
    /\ step' = [step EXCEPT ![c] = next]
    /\ UNCHANGED <<row, mode, reply>>

Return(c, status, found) ==
    /\ step' = [step EXCEPT ![c] = "done"]
    /\ reply' = [reply EXCEPT ![c] = Returned(status, found)]
    /\ UNCHANGED <<row, mode>>

\* the statement fails, and with it the transaction and the call
Fails(c, code) ==
    /\ code \in StoreFaults
    /\ Return(c, code, {})

\* mode and pool.begin()
Begin(c) ==
    /\ step[c] = "begin"
    /\ \/ /\ mode[c] = "DefiniteFailure"
          /\ Return(c, "decision_write_failed", {})
       \/ /\ mode[c] # "DefiniteFailure"
          /\ Goto(c, "check") \/ Fails(c, "decision_transaction_begin_failed")
    /\ UNCHANGED storeVars

\* Mutant of CheckKey: a conflict waits for the row to go away
CheckKeyWaits(c) ==
    /\ step[c] = "check"
    /\ \/ /\ SameKey(c, decisions \cup InProgress(c)) = {}
          /\ Goto(c, "insert")
       \/ Fails(c, "decision_insert_failed")
    /\ UNCHANGED storeVars

\* INSERT looks the key up; it waits while another transaction holds it
CheckKey(c) ==
    /\ step[c] = "check"
    /\ \/ /\ Find(KeyOf(c)) # {}
          /\ Goto(c, "lookup")
       \/ /\ Find(KeyOf(c)) = {}
          /\ SameKey(c, InProgress(c)) = {}
          /\ Goto(c, "insert")
       \/ Fails(c, "decision_insert_failed")
    /\ UNCHANGED storeVars

\* INSERT enters the row into the indexes, the primary key first
InsertRow(c) ==
    /\ step[c] = "insert"
    /\ \/ /\ SameId(c, decisions) # {}
          /\ Return(c, "decision_insert_failed", {})
       \/ /\ SameId(c, decisions \cup InProgress(c)) = {}
          /\ SameKey(c, decisions \cup InProgress(c)) # {}
          /\ Goto(c, "check")
       \/ /\ SameKey(c, decisions \cup InProgress(c)) = {}
          /\ Goto(c, "audit")
       \/ Fails(c, "decision_insert_failed")
    /\ UNCHANGED storeVars

\* no row was inserted: the transaction reads the one that has the key
LookUp(c) ==
    /\ step[c] = "lookup"
    /\ \/ Goto(c, "rollback")
       \/ Fails(c, "decision_lookup_failed")
    /\ UNCHANGED storeVars

RollBack(c) ==
    /\ step[c] = "rollback"
    /\ \/ \E d \in Find(KeyOf(c)) : Return(c, "existing", {d})
       \/ Fails(c, "decision_rollback_failed")
    /\ UNCHANGED storeVars

InsertAudit(c) ==
    /\ step[c] = "audit"
    /\ Goto(c, "commit") \/ Fails(c, "audit_insert_failed")
    /\ UNCHANGED storeVars

SendCommit(c) ==
    /\ step[c] = "commit"
    /\ LeaveUnsettled(row[c])
    /\ Goto(c, "wait")

\* the server executes COMMIT, or loses the connection and rolls back
ExecuteCommit(c) ==
    /\ step[c] = "wait"
    /\ SettleCommit(row[c])
    /\ Goto(c, "committed")

AbortCommit(c) ==
    /\ step[c] = "wait"
    /\ CommitLost \in StoreFaults
    /\ SettleAbort(row[c])
    /\ Goto(c, "aborted")

\* the answer of COMMIT arrives
Acknowledge(c) ==
    /\ step[c] = "committed"
    /\ Return(c, IF mode[c] = "LoseCommitAcknowledgement"
                   THEN "decision_commit_ack_lost" ELSE "inserted", {})
    /\ UNCHANGED storeVars

\* Mutant of LoseAnswer: a lost answer of COMMIT is a definite failure
LoseAnswerDefinitely(c) ==
    /\ step[c] \in {"wait", "committed", "aborted"}
    /\ CommitLost \in StoreFaults
    /\ Return(c, "decision_insert_failed", {})
    /\ UNCHANGED storeVars

\* the answer is an error, or the connection is gone
LoseAnswer(c) ==
    /\ step[c] \in {"wait", "committed", "aborted"}
    /\ Fails(c, CommitLost)
    /\ UNCHANGED storeVars

\* the caller is dropped: its transaction ends, unless COMMIT was sent
Abandon(c) ==
    /\ MayAbandon
    /\ step[c] \notin {"done", "gone"}
    /\ step' = [step EXCEPT ![c] = "gone"]
    /\ reply' = [reply EXCEPT ![c] = Returned("gone", {})]
    /\ UNCHANGED <<storeVars, row, mode>>

\* rows whose COMMIT nobody waits for
Orphans == unsettled \ { row[c] : c \in { e \in Calls : step[e] = "wait" } }

SettleOrphan ==
    /\ \E d \in Orphans : SettleCommit(d) \/ SettleAbort(d)
    /\ UNCHANGED callVars

Finished ==
    /\ \A c \in Calls : step[c] \in {"done", "gone"}
    /\ unsettled = {}
    /\ UNCHANGED pgVars

Statement(c) ==
    \/ Begin(c)
    \/ CheckKey(c)
    \/ InsertRow(c)
    \/ LookUp(c)
    \/ RollBack(c)
    \/ InsertAudit(c)
    \/ SendCommit(c)
    \/ ExecuteCommit(c)
    \/ AbortCommit(c)
    \/ Acknowledge(c)
    \/ LoseAnswer(c)

PgNext ==
    \/ \E c \in Calls : Statement(c) \/ Abandon(c)
    \/ SettleOrphan
    \/ Finished

\* the insertion meets the row of a twin, and can only fail
Collides(c) == step[c] = "insert" /\ SameId(c, decisions) # {}

\* what the server does although nothing goes wrong: a call only fails here when
\* the primary key leaves nothing else, or after its COMMIT was rolled back
Answers(c) ==
    /\ Statement(c)
    /\ step'[c] # "aborted"
    /\ reply'[c].status \in StoreFaults => Collides(c) \/ step[c] = "aborted"

\* the server answers statements and ends transactions.  No failure is fair: a
\* statement that waits is not failed to end the wait.
PgSpec ==
    /\ PgInit
    /\ [][PgNext]_pgVars
    /\ \A c \in Calls : WF_pgVars(Answers(c))
    /\ WF_pgVars(SettleOrphan)

-----------------------------------------------------------------------------
(***************************************************************************)
(* The transaction is the atomic step the workflow takes it for.  The row  *)
(* is stored when the server executes COMMIT; a row whose COMMIT is on its *)
(* way is unsettled only once nobody waits for the answer.                 *)
(***************************************************************************)
Atomic == INSTANCE AtomicStore WITH
    unsettled <- Orphans,
    reply     <- [c \in Calls |-> IF step[c] = "committed"
                                    THEN Returned("stored", {}) ELSE reply[c]]

ImplementsAtomicStore == Atomic!AtomicSpec

(***************************************************************************)
(* Every call whose caller stays returns although no statement need fail:  *)
(* a wait for a key ends with the transaction that holds it, the waits     *)
(* cannot form a circle, and the insertion that backs out is not repeated  *)
(* forever.                                                                *)
(***************************************************************************)
RecordsReturn ==
    \A c \in Calls : step[c] = "begin" ~> step[c] \in {"done", "gone"}

(***************************************************************************)
(* "decision and audit were not committed" (domain.rs:868), the answer to  *)
(* a definite failure: at that moment no row has the decision's id.        *)
(***************************************************************************)
DefiniteFailureProvesAbsence ==
    [][\A c \in Calls :
          reply'[c] # reply[c] /\ reply'[c].status \in DefiniteCodes
            => SameId(c, decisions) = {}]_pgVars
=============================================================================
