------------------------- MODULE OrderAuthorization -------------------------
(***************************************************************************)
(* The order-authorization workflow of backend/src/domain.rs: concurrent   *)
(* executions of one seven-step Axon over a shared effect ledger and a     *)
(* shared decision store.                                                  *)
(*                                                                         *)
(* An ATTEMPT is one HTTP request: its body is parsed, the Axon runs, one  *)
(* answer is sent.  A client's retry is another attempt with the same      *)
(* request.  An action is one transition of the Axon, except that          *)
(* RecordDecision is cut at its awaits: the store's record, the lookup     *)
(* that reconciles an unknown commit, the compensation and the return of   *)
(* the fault after it are four actions, and so are the compensation and    *)
(* the fault of a declined payment.  Trace entries of a transition are     *)
(* written with its operation; no step reads them.                         *)
(***************************************************************************)
EXTENDS HttpContract, EffectLedger, DecisionStore

CONSTANTS
    Attempts,       \* the executions
    Keys,           \* idempotency keys
    Details,        \* customer, items, amount, currency, payment reference
    MayDrop,        \* may a handler's future be dropped?  (BOOLEAN)
    MayRestart      \* may the process crash and restart?   (BOOLEAN)

Fixtures == {"normal", "manual_review", "policy_rejected", "out_of_stock",
             "payment_declined", "decision_write_failure",
             "ack_lost_after_commit"}

\* OrderAuthorizationRequest; flaws are the checks of validate_request it fails
RequestType == [order : Orders, key : Keys, details : Details,
                fixture : Fixtures, flaws : SUBSET ValidationCodes]

ASSUME RequestsAssumption == Requests \subseteq RequestType
ASSUME FailuresAssumption == MayDrop \in BOOLEAN /\ MayRestart \in BOOLEAN

VARIABLES
    request,        \* per attempt, the body it carries
    pc,             \* per attempt, the transition it is about to run
    workflow,       \* per attempt, WorkflowState without the request, and
                    \* undone, the outcomes a compensation returned to it
    pending,        \* per attempt, the fault its transition is working on
    answer,         \* per attempt, the response body
    traces          \* per attempt, its DomainTraceEvents <<step, state>>

attemptVars == <<request, pc, workflow, pending, answer, traces>>
vars == <<attemptVars, ledgerVars, storeVars>>

Transitions == {"ValidateRequest", "ResolveIdempotency", "ScreenPolicy",
                "ReserveInventory", "AuthorizePayment", "RecordDecision",
                "CompleteAuthorization"}
InFlight == Transitions \cup {"Reconcile", "Compensate", "ReturnFault"}

WorkflowState == [replayed : BOOLEAN, result : Outcomes \cup {"none"},
                  reservation : BOOLEAN, payment : BOOLEAN,
                  undone : SUBSET CompensationOutcome]

Absent == "decision_absence_proven_after_unknown_commit"

\* the codes RecordDecision's store calls return, and those it makes of them
RecordCodes == DefiniteCodes \cup ConflictPathCodes \cup ConflictCodes \cup
    {"decision_write_failed", "decision_commit_ack_lost", CommitLost, Absent}

FaultCodes == ValidationCodes \cup BusinessCodes \cup RecordCodes
                \cup {"idempotency_lookup_failed"}

\* AuthorizationEnvelope; code "ok" is a success, "none" is no answer yet
Answer == [code : FaultCodes \cup {"ok", "none"},
           outcome : Outcomes \cup {"none"},
           step : Transitions \cup {"none"},
           retryable : BOOLEAN, operator : BOOLEAN,
           compensations : SUBSET CompensationOutcome]

\* DomainTraceEvent
TraceEntry == Transitions \X {"entered", "next", "fault"}

\* Types: in particular every code of an answer is one the HTTP mapping knows
TypeOK ==
    /\ LedgerTypeOK
    /\ StoreTypeOK
    /\ request \in [Attempts -> Requests]
    /\ pc \in [Attempts -> InFlight \cup {"idle", "answered", "dropped"}]
    /\ workflow \in [Attempts -> WorkflowState]
    /\ pending \in [Attempts -> RecordCodes \cup {"payment_declined", "none"}]
    /\ answer \in [Attempts -> Answer]
    /\ traces \in [Attempts -> Seq(TraceEntry)]

-----------------------------------------------------------------------------
FreshWorkflow == [replayed |-> FALSE, result |-> "none",
                  reservation |-> FALSE, payment |-> FALSE, undone |-> {}]

Success(outcome) ==
    [code |-> "ok", outcome |-> outcome, step |-> "none",
     retryable |-> FALSE, operator |-> FALSE, compensations |-> {}]

\* AuthorizationFault::new, with_compensations and requiring_operator
Fault(code, step, retryable, operator, compensations) ==
    [code |-> code, outcome |-> "none", step |-> step,
     retryable |-> retryable, operator |-> operator,
     compensations |-> compensations]

NoAnswer == Fault("none", "none", FALSE, FALSE, {})

Status(reply) == IF reply.code = "ok" THEN SuccessStatus
                                      ELSE FaultStatus(reply.code)

\* Mutant of FirstFlaw: one code for every flaw
FirstFlawUncoded(r) == "request_invalid"

\* the first check of validate_request that r fails
FirstFlaw(r) ==
    ValidationOrder[CHOOSE i \in 1..7 :
                        /\ ValidationOrder[i] \in r.flaws
                        /\ \A j \in 1..(i - 1) : ValidationOrder[j] \notin r.flaws]

Init ==
    /\ LedgerInit
    /\ StoreInit
    /\ request \in [Attempts -> Requests]
    /\ pc = [a \in Attempts |-> "idle"]
    /\ workflow = [a \in Attempts |-> FreshWorkflow]
    /\ pending = [a \in Attempts |-> "none"]
    /\ answer = [a \in Attempts |-> NoAnswer]
    /\ traces = [a \in Attempts |-> <<>>]

Trace(a, entries) == traces' = [traces EXCEPT ![a] = @ \o entries]
Goto(a, step)     == pc' = [pc EXCEPT ![a] = step]

\* run() of a transition: "entered", then Next into the following transition
Advance(a, step, next) ==
    /\ Goto(a, next)
    /\ Trace(a, << <<step, "entered">>, <<step, "next">> >>)
    /\ UNCHANGED <<request, pending, answer>>

\* run() of a transition: "entered", then a fault ends the execution
FailAt(a, step, code, retryable, operator, compensations) ==
    /\ Goto(a, "answered")
    /\ Trace(a, << <<step, "entered">>, <<step, "fault">> >>)
    /\ answer' = [answer EXCEPT ![a] =
                    Fault(code, step, retryable, operator, compensations)]
    /\ UNCHANGED <<request, workflow, pending>>

\* the HTTP request of attempt a reaches the handler
Arrive(a) ==
    /\ pc[a] = "idle"
    /\ Goto(a, "ValidateRequest")
    /\ UNCHANGED <<request, workflow, pending, answer, traces,
                   ledgerVars, storeVars>>

ValidateRequest(a) ==
    /\ pc[a] = "ValidateRequest"
    /\ \/ /\ request[a].flaws = {}
          /\ Advance(a, "ValidateRequest", "ResolveIdempotency")
          /\ UNCHANGED workflow
       \/ /\ request[a].flaws # {}
          /\ FailAt(a, "ValidateRequest", FirstFlaw(request[a]), FALSE, FALSE, {})
    /\ UNCHANGED <<ledgerVars, storeVars>>

ResolveIdempotency(a) ==
    /\ pc[a] = "ResolveIdempotency"
    /\ \/ \E d \in Find(request[a].key) :
            /\ d.request = request[a]
            /\ workflow' = [workflow EXCEPT ![a].replayed = TRUE,
                                            ![a].result = d.outcome]
            /\ Advance(a, "ResolveIdempotency", "ScreenPolicy")
       \/ /\ \E d \in Find(request[a].key) : d.request # request[a]
          /\ FailAt(a, "ResolveIdempotency", "idempotency_key_conflict",
                    FALSE, FALSE, {})
       \/ /\ Find(request[a].key) = {}
          /\ Advance(a, "ResolveIdempotency", "ScreenPolicy")
          /\ UNCHANGED workflow
       \/ /\ LookupFailed \in StoreFaults
          /\ FailAt(a, "ResolveIdempotency", "idempotency_lookup_failed",
                    TRUE, TRUE, {})
    /\ UNCHANGED <<ledgerVars, storeVars>>

PolicyResult(r) ==
    CASE r.fixture = "manual_review"   -> "manual_review"
      [] r.fixture = "policy_rejected" -> "rejected"
      [] OTHER                         -> "none"

\* the outcome of an execution that no fault stops
Eligible(r) ==
    /\ r.flaws = {}
    /\ r.fixture \notin {"out_of_stock", "payment_declined",
                         "decision_write_failure"}

WorkflowVerdict(r) ==
    IF ~Eligible(r) THEN "refused"
    ELSE IF PolicyResult(r) = "none" THEN "approved" ELSE PolicyResult(r)

ScreenPolicy(a) ==
    /\ pc[a] = "ScreenPolicy"
    /\ workflow' = [workflow EXCEPT ![a].result =
                      IF workflow[a].replayed THEN @ ELSE PolicyResult(request[a])]
    /\ Advance(a, "ScreenPolicy", "ReserveInventory")
    /\ UNCHANGED <<ledgerVars, storeVars>>

\* Mutant of NeedsEffects: effects the order already has are not asked for
NeedsMissingEffects(a) ==
    /\ ~workflow[a].replayed
    /\ workflow[a].result = "none"
    /\ request[a].order \notin reservations

\* the execution has no result yet, neither replayed nor from the policy
NeedsEffects(a) == ~workflow[a].replayed /\ workflow[a].result = "none"

ReserveInventory(a) ==
    /\ pc[a] = "ReserveInventory"
    /\ \/ /\ ~NeedsEffects(a)
          /\ Advance(a, "ReserveInventory", "AuthorizePayment")
          /\ UNCHANGED <<workflow, ledgerVars>>
       \/ /\ NeedsEffects(a)
          /\ request[a].fixture = "out_of_stock"
          /\ FailAt(a, "ReserveInventory", "inventory_out_of_stock",
                    FALSE, FALSE, {})
          /\ UNCHANGED ledgerVars
       \/ /\ NeedsEffects(a)
          /\ request[a].fixture # "out_of_stock"
          /\ Reserve(request[a].order)
          /\ workflow' = [workflow EXCEPT ![a].reservation = TRUE]
          /\ Advance(a, "ReserveInventory", "AuthorizePayment")
    /\ UNCHANGED storeVars

\* one lock of the ledger; the fault is still to be traced and returned
Undo(a, void, release) ==
    /\ Compensate(request[a].order, void, release)
    /\ workflow' = [workflow EXCEPT ![a].undone =
                      CompensationOutcomes(request[a].order, void, release)]
    /\ Goto(a, "ReturnFault")
    /\ UNCHANGED <<request, answer>>

\* a decline releases the reservation this execution holds
AuthorizePayment(a) ==
    /\ pc[a] = "AuthorizePayment"
    /\ \/ /\ ~NeedsEffects(a)
          /\ Advance(a, "AuthorizePayment", "RecordDecision")
          /\ UNCHANGED <<workflow, ledgerVars>>
       \/ /\ NeedsEffects(a)
          /\ request[a].fixture = "payment_declined"
          /\ Undo(a, FALSE, workflow[a].reservation)
          /\ pending' = [pending EXCEPT ![a] = "payment_declined"]
          /\ Trace(a, << <<"AuthorizePayment", "entered">> >>)
       \/ /\ NeedsEffects(a)
          /\ request[a].fixture # "payment_declined"
          /\ Authorize(request[a].order)
          /\ workflow' = [workflow EXCEPT ![a].payment = TRUE]
          /\ Advance(a, "AuthorizePayment", "RecordDecision")
    /\ UNCHANGED storeVars

-----------------------------------------------------------------------------
(***************************************************************************)
(* RecordDecision: Recorded is the transition's normal end; RecordFails    *)
(* and RecordUnknown lead to Compensate and Reconcile with the code of the *)
(* fault in pending[a].                                                    *)
(***************************************************************************)
DecisionOf(a) ==
    [request |-> request[a],
     outcome |-> IF workflow[a].result = "none" THEN "approved"
                                                ELSE workflow[a].result]

Recorded(a, outcome, entries) ==
    /\ workflow' = [workflow EXCEPT ![a].result = outcome]
    /\ Goto(a, "CompleteAuthorization")
    /\ Trace(a, entries)
    /\ UNCHANGED <<request, pending, answer>>

Suspend(a, step, code, entries) ==
    /\ pending' = [pending EXCEPT ![a] = code]
    /\ Goto(a, step)
    /\ Trace(a, entries)
    /\ UNCHANGED <<request, workflow, answer>>

\* Mutant of Entered: a record that fails leaves no entry
EnteredOmitted == <<>>

Entered == << <<"RecordDecision", "entered">> >>
EnteredNext == << <<"RecordDecision", "entered">>, <<"RecordDecision", "next">> >>

RecordFails(a, code)   == Suspend(a, "Compensate", code, Entered)
RecordUnknown(a, code) == Suspend(a, "Reconcile", code, Entered)

CallsStore(a) ==
    /\ pc[a] = "RecordDecision"
    /\ ~workflow[a].replayed

\* the store accepts the record call of a: it is not the fixture that fails
Writes(a) ==
    /\ CallsStore(a)
    /\ request[a].fixture # "decision_write_failure"

\* Mutant of KeyFree: INSERT does not wait for the transaction with the key
KeyFreeUnlocked(a) == Find(request[a].key) = {}

\* no row has the key and no open transaction holds it
KeyFree(a) == Find(request[a].key) = {} /\ ~Locked(request[a].key)

RecordReplayed(a) ==
    /\ pc[a] = "RecordDecision"
    /\ workflow[a].replayed
    /\ Advance(a, "RecordDecision", "CompleteAuthorization")
    /\ UNCHANGED <<workflow, ledgerVars, storeVars>>

\* RecordMode::DefiniteFailure
RecordWriteFailure(a) ==
    /\ CallsStore(a)
    /\ request[a].fixture = "decision_write_failure"
    /\ RecordFails(a, "decision_write_failed")
    /\ UNCHANGED <<ledgerVars, storeVars>>

\* a statement before COMMIT fails; the audit is only written for a new row
RecordDefiniteFailure(a) ==
    /\ Writes(a)
    /\ \E code \in StoreFaults \cap DefiniteCodes :
         /\ code = "audit_insert_failed" => KeyFree(a)
         /\ RecordFails(a, code)
    /\ UNCHANGED <<ledgerVars, storeVars>>

\* RecordMode::LoseCommitAcknowledgement commits, then reports it unknown
RecordInserted(a) ==
    /\ Writes(a)
    /\ KeyFree(a)
    /\ Insert(DecisionOf(a))
    /\ \/ /\ request[a].fixture = "ack_lost_after_commit"
          /\ RecordUnknown(a, "decision_commit_ack_lost")
       \/ /\ request[a].fixture # "ack_lost_after_commit"
          /\ Recorded(a, DecisionOf(a).outcome, EnteredNext)
    /\ UNCHANGED ledgerVars

\* Mutant of RecordCommitLost: an unanswered COMMIT is taken for a success
RecordCommitAssumed(a) ==
    /\ Writes(a)
    /\ KeyFree(a)
    /\ CommitLost \in StoreFaults
    /\ LeaveUnsettled(DecisionOf(a))
    /\ Recorded(a, DecisionOf(a).outcome, EnteredNext)
    /\ UNCHANGED ledgerVars

RecordCommitLost(a) ==
    /\ Writes(a)
    /\ KeyFree(a)
    /\ CommitLost \in StoreFaults
    /\ LeaveUnsettled(DecisionOf(a))
    /\ RecordUnknown(a, CommitLost)
    /\ UNCHANGED ledgerVars

\* RecordStatus::Existing, or an error while the row in conflict is read
RecordExisting(a) ==
    /\ Writes(a)
    /\ \/ \E d \in Find(request[a].key) :
            /\ d.request = request[a]
            /\ Recorded(a, d.outcome, EnteredNext)
       \/ /\ \E d \in Find(request[a].key) : d.request # request[a]
          /\ RecordFails(a, "idempotency_key_conflict")
       \/ /\ Find(request[a].key) # {}
          /\ \E code \in StoreFaults \cap ConflictPathCodes :
               RecordUnknown(a, code)
    /\ UNCHANGED <<ledgerVars, storeVars>>

RecordDecision(a) ==
    \/ RecordReplayed(a)
    \/ RecordWriteFailure(a)
    \/ RecordDefiniteFailure(a)
    \/ RecordInserted(a)
    \/ RecordCommitLost(a)
    \/ RecordExisting(a)

\* Mutant of Reconcile: it waits until the row can be found
ReconcileFound(a) ==
    /\ pc[a] = "Reconcile"
    /\ \E d \in Find(request[a].key) :
         /\ d.request = request[a]
         /\ Recorded(a, d.outcome, << <<"RecordDecision", "next">> >>)
    /\ UNCHANGED <<ledgerVars, storeVars>>

\* the lookup after an unknown commit
Reconcile(a) ==
    /\ pc[a] = "Reconcile"
    /\ \/ \E d \in Find(request[a].key) :
            /\ d.request = request[a]
            /\ Recorded(a, d.outcome, << <<"RecordDecision", "next">> >>)
       \/ /\ \E d \in Find(request[a].key) : d.request # request[a]
          /\ Suspend(a, "Compensate", "decision_reconciliation_conflict", <<>>)
       \/ /\ Find(request[a].key) = {}
          /\ Suspend(a, "Compensate", Absent, <<>>)
       \/ /\ LookupFailed \in StoreFaults
          /\ Goto(a, "answered")
          /\ Trace(a, << <<"RecordDecision", "fault">> >>)
          /\ answer' = [answer EXCEPT ![a] =
                          Fault(pending[a], "RecordDecision", TRUE, TRUE, {})]
          /\ UNCHANGED <<request, workflow, pending>>
    /\ UNCHANGED <<ledgerVars, storeVars>>

\* void the payment and release the inventory, whichever the execution holds
CompensateDecision(a) ==
    /\ pc[a] = "Compensate"
    /\ Undo(a, workflow[a].payment, workflow[a].reservation)
    /\ UNCHANGED <<pending, traces, storeVars>>

\* after a compensation: the fault is traced, which waits for the ledger's
\* lock, and leaves through the Axon and the adapter.  The branch of a
\* concurrent conflict is the only one that writes no trace entry.
ReturnFault(a) ==
    LET step      == IF pending[a] = "payment_declined" THEN "AuthorizePayment"
                                                        ELSE "RecordDecision"
        retryable == pending[a] \notin ConflictCodes \cup BusinessCodes
    IN  /\ pc[a] = "ReturnFault"
        /\ Goto(a, "answered")
        /\ answer' = [answer EXCEPT ![a] =
                        Fault(pending[a], step, retryable, FALSE, workflow[a].undone)]
        /\ Trace(a, IF pending[a] = "idempotency_key_conflict"
                      THEN <<>> ELSE << <<step, "fault">> >>)
        /\ UNCHANGED <<request, workflow, pending, ledgerVars, storeVars>>

CompleteAuthorization(a) ==
    /\ pc[a] = "CompleteAuthorization"
    /\ Goto(a, "answered")
    /\ answer' = [answer EXCEPT ![a] = Success(workflow[a].result)]
    /\ Trace(a, << <<"CompleteAuthorization", "entered">>,
                   <<"CompleteAuthorization", "next">> >>)
    /\ UNCHANGED <<request, workflow, pending, ledgerVars, storeVars>>

-----------------------------------------------------------------------------
(***************************************************************************)
(* The environment.  A handler's future is dropped at an await when the    *)
(* client goes away, or when the native server's shutdown cancels it: what *)
(* it has done stays done, nothing is compensated.  If it was waiting for  *)
(* COMMIT, the commit may still be executed.  A crash drops every future   *)
(* and the ledger with them; the database stays.                           *)
(***************************************************************************)
Drop(a) ==
    /\ MayDrop
    /\ pc[a] \in InFlight
    /\ Goto(a, "dropped")
    /\ UNCHANGED <<request, workflow, pending, answer, traces,
                   ledgerVars, storeVars>>

AbandonCommit(a) ==
    /\ MayDrop
    /\ Writes(a)
    /\ KeyFree(a)
    /\ CommitLost \in StoreFaults
    /\ LeaveUnsettled(DecisionOf(a))
    /\ Goto(a, "dropped")
    /\ Trace(a, Entered)
    /\ UNCHANGED <<request, workflow, pending, answer, ledgerVars>>

Restart ==
    /\ MayRestart
    /\ pc' = [a \in Attempts |-> IF pc[a] \in InFlight THEN "dropped" ELSE pc[a]]
    /\ workflow' = [a \in Attempts |-> FreshWorkflow]
    /\ pending' = [a \in Attempts |-> "none"]
    /\ traces' = [a \in Attempts |-> <<>>]
    /\ reservations' = {}
    /\ payments' = {}
    /\ events' = [o \in Orders |-> <<>>]
    /\ UNCHANGED <<request, answer, storeVars>>

Settle ==
    /\ \E d \in unsettled : SettleCommit(d) \/ SettleAbort(d)
    /\ UNCHANGED <<attemptVars, ledgerVars>>

\* every attempt has ended: there is nothing left to do
Quiescent ==
    /\ \A a \in Attempts : pc[a] \in {"answered", "dropped"}
    /\ unsettled = {}
    /\ UNCHANGED vars

\* what the runtime schedules for an attempt that has arrived
Run(a) ==
    \/ ValidateRequest(a)
    \/ ResolveIdempotency(a)
    \/ ScreenPolicy(a)
    \/ ReserveInventory(a)
    \/ AuthorizePayment(a)
    \/ RecordDecision(a)
    \/ Reconcile(a)
    \/ CompensateDecision(a)
    \/ ReturnFault(a)
    \/ CompleteAuthorization(a)

Proceed ==
    \/ \E a \in Attempts : Arrive(a) \/ Run(a) \/ Drop(a) \/ AbandonCommit(a)
    \/ Settle
    \/ Quiescent

Next == Proceed \/ Restart

(***************************************************************************)
(* The runtime polls every future that can go on, and the database ends    *)
(* every transaction.  No client has to send anything, and nothing has to  *)
(* fail.                                                                   *)
(***************************************************************************)
Fairness ==
    /\ \A a \in Attempts : WF_vars(Run(a))
    /\ WF_vars(Settle)

Spec == Init /\ [][Next]_vars /\ Fairness

-----------------------------------------------------------------------------
Answered(a) == pc[a] = "answered"

(***************************************************************************)
(* A client that was told "ok" was told what is durable: the row of its    *)
(* key has its digest and its outcome, from the moment of the answer on,   *)
(* through every later conflict, late commit and restart.  Covers replays, *)
(* twins that lose the race to INSERT, and reconciled commits.             *)
(***************************************************************************)
AnsweredIsDurable ==
    \A a \in Attempts : Answered(a) /\ answer[a].code = "ok" =>
        [request |-> request[a], outcome |-> answer[a].outcome] \in decisions

(***************************************************************************)
(* A 4xx answer is final: the request it refuses is never decided, neither *)
(* before nor after the answer, and a 409 is only given when the key       *)
(* durably belongs to a different request.                                 *)
(***************************************************************************)
ClientFaultIsFinal ==
    \A a \in Attempts : Answered(a) /\ Status(answer[a]) \in 400..499 =>
        /\ \A d \in decisions : d.request # request[a]
        /\ Status(answer[a]) = 409 => Find(request[a].key) # {}

(***************************************************************************)
(* No effect is left behind by an execution that was allowed to end: an    *)
(* active reservation or payment belongs to an approved durable decision   *)
(* on the order, to an execution that is still running and has not come to *)
(* undo it, to one whose future was dropped, or to one that told an        *)
(* operator to step in.                                                    *)
(***************************************************************************)
ApprovedOrder(o) ==
    \E d \in decisions : d.request.order = o /\ d.outcome = "approved"

Accountable(a, o) ==
    /\ request[a].order = o
    /\ \/ pc[a] \in InFlight \ {"ReturnFault"}
       \/ pc[a] = "dropped"
       \/ Answered(a) /\ answer[a].operator

NoOrphanedEffects ==
    \A o \in Orders :
        /\ o \in reservations =>
             \/ ApprovedOrder(o)
             \/ \E a \in Attempts : workflow[a].reservation /\ Accountable(a, o)
        /\ o \in payments =>
             \/ ApprovedOrder(o)
             \/ \E a \in Attempts : workflow[a].payment /\ Accountable(a, o)

(***************************************************************************)
(* What is undone is told, by whoever stays to tell it: every void and     *)
(* every release in the event log is reported as applied to the client of  *)
(* some execution on the order, by one answer each, or is among the        *)
(* outcomes of one execution that has yet to answer, or whose future was   *)
(* dropped between undoing and answering: then nobody is told.  Effects    *)
(* belong to orders and compensation to executions, so an order may lose   *)
(* its effects to an execution on another key, even after it was approved; *)
(* then that answer is the only one that says so.  (A restart clears the   *)
(* log, the answers stay.)                                                 *)
(***************************************************************************)
Logged(o, action) == { i \in DOMAIN events[o] : events[o][i] = action }

AppliedBy(action, outcomes) == [action |-> action, status |-> "applied"] \in outcomes

Tellers(o, action) ==
    { a \in Attempts :
        /\ request[a].order = o
        /\ pc[a] = "answered"
        /\ AppliedBy(action, answer[a].compensations) }

\* the undoing is known to the execution alone
StillToTell(o, action) ==
    { a \in Attempts :
        /\ request[a].order = o
        /\ pc[a] \in {"ReturnFault", "dropped"}
        /\ AppliedBy(action, workflow[a].undone) }

UndoneEffectsAreTold ==
    \A o \in Orders :
        /\ Cardinality(Logged(o, "payment_voided"))
             <= Cardinality(Tellers(o, "void_payment")
                              \cup StillToTell(o, "void_payment"))
        /\ Cardinality(Logged(o, "inventory_released"))
             <= Cardinality(Tellers(o, "release_inventory")
                              \cup StillToTell(o, "release_inventory"))

(***************************************************************************)
(* RecordDecision never meets the two "workflow_state_invalid" returns and *)
(* CompleteAuthorization never the "workflow_result_missing" one, which is *)
(* why no action models them.                                              *)
(***************************************************************************)
WorkflowStateIsValid ==
    \A a \in Attempts :
        /\ CallsStore(a) /\ workflow[a].result = "none" =>
             workflow[a].reservation /\ workflow[a].payment
        /\ pc[a] = "CompleteAuthorization" => workflow[a].result # "none"

(***************************************************************************)
(* What a fault tells the client: retryable is only ever said with a 503,  *)
(* and a 4xx never asks for an operator, so a client that retries on       *)
(* "retryable" never repeats a request that was refused for good.          *)
(* Compensations listed in an answer never exclude an operator's: the      *)
(* unknown outcome that needs an operator has compensated nothing.         *)
(***************************************************************************)
FaultsAreConsistent ==
    \A a \in Attempts : Answered(a) =>
        /\ answer[a].retryable => Status(answer[a]) = 503
        /\ answer[a].operator => answer[a].compensations = {}
                                 /\ Status(answer[a]) = 503

(***************************************************************************)
(* The trace of an execution tells how it ended: a fault leaves a "fault"  *)
(* entry at the step the answer names, with one exception the code makes:  *)
(* a conflict that RecordDecision meets leaves only its "entered" entry.   *)
(* An operator reads the traces from the evidence endpoint (a restart      *)
(* clears them).                                                           *)
(***************************************************************************)
LastEntry(a) == traces[a][Len(traces[a])]

TracesTellAnswers ==
    \A a \in Attempts : Answered(a) /\ traces[a] # <<>> =>
        LastEntry(a) =
            CASE answer[a].code = "ok" -> <<"CompleteAuthorization", "next">>
              [] answer[a].code = "idempotency_key_conflict"
                 /\ answer[a].step = "RecordDecision" ->
                    <<"RecordDecision", "entered">>
              [] OTHER -> <<answer[a].step, "fault">>

(***************************************************************************)
(* "a different durable request proves this request did not commit.  It is *)
(* safe to compensate the effects created by this execution"               *)
(* (domain.rs:879-881): that compensation never takes its payment from an  *)
(* order that has been approved.                                           *)
(***************************************************************************)
ReconciledConflictIsSafe ==
    [][\A a \in Attempts :
          CompensateDecision(a) /\ pending[a] = "decision_reconciliation_conflict"
            => \A o \in payments : ApprovedOrder(o) => o \in payments']_vars

(***************************************************************************)
(* "decision absence was proven after an unknown commit outcome"           *)
(* (domain.rs:919): an attempt that was told so, and that nobody repeated, *)
(* has no durable decision.                                                *)
(***************************************************************************)
AbsenceProvenIsFinal ==
    \A a \in Attempts :
        /\ Answered(a)
        /\ answer[a].code = Absent
        /\ \A b \in Attempts \ {a} : request[b] # request[a]
        => \A d \in decisions : d.request # request[a]

(***************************************************************************)
(* Every attempt that arrives ends, if its future is not dropped: nobody   *)
(* waits forever for the key of an unsettled commit.                       *)
(***************************************************************************)
ArrivalsEnd ==
    \A a \in Attempts :
        pc[a] = "ValidateRequest" ~> pc[a] \in {"answered", "dropped"}

(***************************************************************************)
(* Every payment authorization and every reservation is eventually backed  *)
(* by an approved decision or undone, whichever execution has to do it,    *)
(* unless the future of one that took it was dropped, or one told an       *)
(* operator to step in.                                                    *)
(***************************************************************************)
LeftBehind(a, o) ==
    /\ request[a].order = o
    /\ pc[a] = "dropped" \/ (Answered(a) /\ answer[a].operator)

Resolved(o) ==
    /\ o \in payments =>
         ApprovedOrder(o) \/ \E a \in Attempts : workflow[a].payment /\ LeftBehind(a, o)
    /\ o \in reservations =>
         ApprovedOrder(o) \/ \E a \in Attempts : workflow[a].reservation /\ LeftBehind(a, o)

EffectsAreResolved == \A o \in Orders : []<>Resolved(o)
=============================================================================
