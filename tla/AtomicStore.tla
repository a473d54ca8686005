----------------------------- MODULE AtomicStore ----------------------------
(***************************************************************************)
(* What the workflow takes DecisionStore::record to be: one atomic step    *)
(* per call, whatever happens inside.  A call stores its row and audit     *)
(* together, or finds the row that has its key, or fails; a failure of     *)
(* definite certainty has stored nothing and never will, an unknown one    *)
(* may leave a commit that lands later.                                    *)
(***************************************************************************)
EXTENDS DecisionStore

CONSTANTS
    Calls,          \* the calls of record
    Rows            \* the rows they may be asked to store

VARIABLES
    row,            \* per call, the row it has to store
    reply           \* per call, what it returned, and the row it found

atomicVars == <<storeVars, row, reply>>

UnknownCodes == ConflictPathCodes \cup {CommitLost, "decision_commit_ack_lost"}

Returned(status, found) == [status |-> status, found |-> found]
NotReturned == Returned("none", {})

KeyOf(c) == row[c].request.key
Free(c)  == Find(KeyOf(c)) = {} /\ ~Locked(KeyOf(c))

AtomicInit ==
    /\ StoreInit
    /\ row \in [Calls -> Rows]
    /\ reply = [c \in Calls |-> NotReturned]

Return(c, status, found) ==
    /\ reply' = [reply EXCEPT ![c] = Returned(status, found)]
    /\ UNCHANGED row

\* the row is stored; its caller has not been told yet
Store(c) ==
    /\ reply[c] = NotReturned
    /\ Free(c)
    /\ Insert(row[c])
    /\ Return(c, "stored", {})

ReportStored(c) ==
    /\ reply[c].status = "stored"
    /\ \E status \in {"inserted", "gone"} \cup UnknownCodes : Return(c, status, {})
    /\ UNCHANGED storeVars

FindExisting(c) ==
    /\ reply[c] = NotReturned
    /\ \E d \in Find(KeyOf(c)) : Return(c, "existing", {d})
    /\ UNCHANGED storeVars

FailDefinitely(c) ==
    /\ reply[c] = NotReturned
    /\ \E code \in DefiniteCodes \cup {"decision_write_failed"} : Return(c, code, {})
    /\ UNCHANGED storeVars

\* an unknown failure, or a caller that went away
FailUnknown(c) ==
    /\ reply[c] = NotReturned
    /\ \E status \in {"gone"} \cup UnknownCodes : Return(c, status, {})
    /\ UNCHANGED storeVars \/ (Free(c) /\ LeaveUnsettled(row[c]))

SettleLate ==
    /\ \E d \in unsettled : SettleCommit(d) \/ SettleAbort(d)
    /\ UNCHANGED <<row, reply>>

AtomicNext ==
    \/ \E c \in Calls : Store(c) \/ ReportStored(c) \/ FindExisting(c)
                          \/ FailDefinitely(c) \/ FailUnknown(c)
    \/ SettleLate

AtomicSpec == AtomicInit /\ [][AtomicNext]_atomicVars
=============================================================================
