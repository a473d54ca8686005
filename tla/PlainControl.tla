---------------------------- MODULE PlainControl ----------------------------
(***************************************************************************)
(* The plain Axum control (plain-axum-control/src/domain.rs): the same     *)
(* contract without the framework, one async method per step, chained by   *)
(* `?' in OrderService::authorize.  It has its own workflow code; its      *)
(* ledger has the operations of EffectLedger, and its store, whose file is *)
(* its own too, the statements of PgDecisionStore.                         *)
(*                                                                         *)
(* A method is one action, but record_decision is cut at its awaits: each  *)
(* statement of the store's transaction is an action, and the arms of the  *)
(* `match' on what record returns are taken with the statement that ends   *)
(* the call.  A compensation and the tracing of the fault after it are two *)
(* actions.  COMMIT and its answer are one action here; what happens       *)
(* between the two is in PgDecisionStore.                                  *)
(***************************************************************************)
EXTENDS RequestValidation, EffectLedger, DecisionStore

CONSTANTS Attempts, Keys, Details, MayDrop, MayRestart

\* the flaws of a request are those the canonical service finds in its body
ASSUME BodiesAssumption ==
    \A r \in Requests : r.details \in BodyType /\ r.flaws = Flaws(r.details)

\* an INSERT may fail: it does when the same request has just been stored, by
\* the primary key, even where nothing else can fail
ASSUME CollisionAssumption == "decision_insert_failed" \in StoreFaults

VARIABLES
    request,        \* per attempt, the body it carries
    at,             \* per attempt, the method it is about to enter
    state,          \* per attempt, WorkflowState
    fault,          \* per attempt, the Err that a method is handling
    response,       \* per attempt, what authorize returned
    log,            \* per attempt, its trace entries
    row,            \* per attempt, the decision it asks the store to record
    stmt,           \* per attempt, the statement of record it is at: idle,
                    \* begin, check, insert, lookup, rollback, audit, commit,
                    \* done, gone, or sent for a COMMIT nobody waits for
    recorded        \* per attempt, what record returned

methodVars == <<request, at, state, fault, response, log>>
callVars == <<row, stmt, recorded>>
serviceVars == <<methodVars, callVars>>
controlVars == <<serviceVars, ledgerVars, storeVars>>

NewState == [replayed |-> FALSE, result |-> "none",
             reservation_id |-> FALSE, payment_id |-> FALSE]

\* AuthorizationFault, before with_compensations
Err(code, step, retryable) ==
    [code |-> code, outcome |-> "none", step |-> step, retryable |-> retryable,
     operator |-> FALSE, compensations |-> {}]

Nothing == Err("none", "none", FALSE)

\* Mutant of RequiringOperator: nobody is called
RequiringNobody(err) == err

RequiringOperator(err) == [err EXCEPT !.operator = TRUE]

\* serialised at the call; the store is asked for a mode by the fixture
RecordModeOf(a) ==
    CASE request[a].fixture = "decision_write_failure" -> "DefiniteFailure"
      [] request[a].fixture = "ack_lost_after_commit"  -> "LoseCommitAcknowledgement"
      [] OTHER                                         -> "Normal"

Store == INSTANCE PgDecisionStore WITH
    Calls <- Attempts, Rows <- Decision, Modes <- {"Normal"}, MayAbandon <- FALSE,
    mode <- [a \in Attempts |-> RecordModeOf(a)],
    step <- stmt, reply <- recorded

Terminal(a) == IF state[a].result = "none" THEN "approved" ELSE state[a].result
RowOf(a)    == [request |-> request[a], outcome |-> Terminal(a)]

ControlInit ==
    /\ LedgerInit
    /\ StoreInit
    /\ request \in [Attempts -> Requests]
    /\ at = [a \in Attempts |-> "idle"]
    /\ state = [a \in Attempts |-> NewState]
    /\ fault = [a \in Attempts |-> Nothing]
    /\ response = [a \in Attempts |-> Nothing]
    /\ log = [a \in Attempts |-> <<>>]
    /\ row = [a \in Attempts |-> RowOf(a)]
    /\ stmt = [a \in Attempts |-> "idle"]
    /\ recorded = [a \in Attempts |-> Store!Returned("none", {})]

Says(step, words) == [i \in DOMAIN words |-> <<step, words[i]>>]
TraceStep(a, step, words) == log' = [log EXCEPT ![a] = @ \o Says(step, words)]
GoTo(a, method) == at' = [at EXCEPT ![a] = method]

\* a method returns Ok, having changed the state to s
Ok(a, step, s, following) ==
    /\ state' = [state EXCEPT ![a] = s]
    /\ GoTo(a, following)
    /\ TraceStep(a, step, <<"entered", "next">>)
    /\ UNCHANGED <<request, fault, response>>

\* authorize returns the Err of a method
Responds(a, reply) ==
    /\ GoTo(a, "answered")
    /\ response' = [response EXCEPT ![a] = reply]
    /\ UNCHANGED <<request, state, fault>>

Refuses(a, err) ==
    /\ Responds(a, err)
    /\ TraceStep(a, err.step, <<"entered", "fault">>)

Called(a) ==
    /\ at[a] = "idle"
    /\ GoTo(a, "ValidateRequest")
    /\ UNCHANGED <<request, state, fault, response, log, callVars, ledgerVars, storeVars>>

\* valid_identifier, and the checks of validate_request, by their code
Fits(text) == text.length > 0 /\ text.length <= 128 /\ text.safe

Offends(body) ==
    [order_id_invalid          |-> ~Fits(body.order_id),
     idempotency_key_invalid   |-> ~Fits(body.idempotency_key),
     customer_id_invalid       |-> ~Fits(body.customer_id),
     payment_reference_invalid |-> ~Fits(body.payment_reference),
     items_invalid             |->
         ~(body.items # {} /\ \A item \in body.items :
                                 Fits(item.item_id) /\ item.quantity > 0),
     amount_invalid            |-> body.amount_minor <= 0,
     currency_invalid          |->
         ~(body.currency.length = 3 /\ body.currency.uppercase)]

Validate(a) ==
    LET offends(i) == Offends(request[a].details)[ValidationOrder[i]]
    IN  /\ at[a] = "ValidateRequest"
        /\ \/ /\ \A i \in DOMAIN ValidationOrder : ~offends(i)
              /\ Ok(a, "ValidateRequest", state[a], "ResolveIdempotency")
           \/ \E i \in DOMAIN ValidationOrder :
                 /\ offends(i)
                 /\ \A j \in 1..(i - 1) : ~offends(j)
                 /\ Refuses(a, Err(ValidationOrder[i], "ValidateRequest", FALSE))
        /\ UNCHANGED <<callVars, ledgerVars, storeVars>>

Existing(a) == Find(request[a].key)
Same(a)     == { d \in Existing(a) : d.request = request[a] }
Other(a)    == Existing(a) \ Same(a)

Resolve(a) ==
    /\ at[a] = "ResolveIdempotency"
    /\ \/ \E d \in Same(a) :
             Ok(a, "ResolveIdempotency",
                [state[a] EXCEPT !.replayed = TRUE, !.result = d.outcome],
                "ScreenPolicy")
       \/ /\ Other(a) # {}
          /\ Refuses(a, Err("idempotency_key_conflict", "ResolveIdempotency", FALSE))
       \/ /\ Existing(a) = {}
          /\ Ok(a, "ResolveIdempotency", state[a], "ScreenPolicy")
       \/ /\ LookupFailed \in StoreFaults
          /\ Refuses(a, RequiringOperator(
                 Err("idempotency_lookup_failed", "ResolveIdempotency", TRUE)))
    /\ UNCHANGED <<callVars, ledgerVars, storeVars>>

Screened(r) ==
    CASE r.fixture = "manual_review"   -> "manual_review"
      [] r.fixture = "policy_rejected" -> "rejected"
      [] OTHER                         -> "none"

Screen(a) ==
    /\ at[a] = "ScreenPolicy"
    /\ Ok(a, "ScreenPolicy",
          IF state[a].replayed THEN state[a]
          ELSE [state[a] EXCEPT !.result = Screened(request[a])],
          "ReserveInventory")
    /\ UNCHANGED <<callVars, ledgerVars, storeVars>>

Undecided(a) == ~state[a].replayed /\ state[a].result = "none"

ReserveStock(a) ==
    /\ at[a] = "ReserveInventory"
    /\ \/ /\ ~Undecided(a)
          /\ Ok(a, "ReserveInventory", state[a], "AuthorizePayment")
          /\ UNCHANGED ledgerVars
       \/ /\ Undecided(a)
          /\ request[a].fixture = "out_of_stock"
          /\ Refuses(a, Err("inventory_out_of_stock", "ReserveInventory", FALSE))
          /\ UNCHANGED ledgerVars
       \/ /\ Undecided(a)
          /\ request[a].fixture # "out_of_stock"
          /\ Reserve(request[a].order)
          /\ Ok(a, "ReserveInventory",
                [state[a] EXCEPT !.reservation_id = TRUE], "AuthorizePayment")
    /\ UNCHANGED <<callVars, storeVars>>

\* compensate(payment id, reservation id), and the Err with its outcomes; the
\* method has yet to trace the fault
Undoes(a, err, void, release) ==
    /\ Compensate(request[a].order, void, release)
    /\ fault' = [fault EXCEPT ![a] = [err EXCEPT !.compensations =
                    CompensationOutcomes(request[a].order, void, release)]]
    /\ GoTo(a, "ReturnFault")
    /\ UNCHANGED <<request, state, response>>

ChargePayment(a) ==
    LET release == state[a].reservation_id
        declined == Err("payment_declined", "AuthorizePayment", FALSE)
    IN  /\ at[a] = "AuthorizePayment"
        /\ \/ /\ ~Undecided(a)
              /\ Ok(a, "AuthorizePayment", state[a], "RecordDecision")
              /\ UNCHANGED ledgerVars
           \/ /\ Undecided(a)
              /\ request[a].fixture = "payment_declined"
              /\ Undoes(a, declined, FALSE, release)
              /\ TraceStep(a, "AuthorizePayment", <<"entered">>)
           \/ /\ Undecided(a)
              /\ request[a].fixture # "payment_declined"
              /\ Authorize(request[a].order)
              /\ Ok(a, "AuthorizePayment",
                    [state[a] EXCEPT !.payment_id = TRUE], "RecordDecision")
        /\ UNCHANGED <<callVars, storeVars>>

-----------------------------------------------------------------------------
(***************************************************************************)
(* record_decision, up to the match on what record returns.                *)
(***************************************************************************)
\* the Ok of record_decision
Settled(a, outcome, words) ==
    /\ state' = [state EXCEPT ![a].result = outcome]
    /\ GoTo(a, "CompleteAuthorization")
    /\ TraceStep(a, "RecordDecision", words)
    /\ UNCHANGED <<request, fault, response>>

\* record_decision goes on with an error: to reconcile or to compensate
Handles(a, method, err) ==
    /\ fault' = [fault EXCEPT ![a] = err]
    /\ GoTo(a, method)
    /\ UNCHANGED <<request, state, response, log>>

FailsToRecord(a, code, retryable) ==
    Handles(a, "Compensate", Err(code, "RecordDecision", retryable))
UnknownRecord(a, code) ==
    Handles(a, "Reconcile", Err(code, "RecordDecision", TRUE))

\* the match on what record returned
Matches(a, returned) ==
    \/ /\ returned.status = "inserted"
       /\ Settled(a, Terminal(a), <<"next">>)
    \/ /\ returned.status = "existing"
       /\ \E d \in returned.found :
            IF d.request = request[a]
              THEN Settled(a, d.outcome, <<"next">>)
              ELSE FailsToRecord(a, "idempotency_key_conflict", FALSE)
    \/ /\ returned.status \in DefiniteCodes \cup {"decision_write_failed"}
       /\ FailsToRecord(a, returned.status, TRUE)
    \/ /\ returned.status \in ConflictPathCodes
                               \cup {CommitLost, "decision_commit_ack_lost"}
       /\ UnknownRecord(a, returned.status)

RecordReplay(a) ==
    /\ at[a] = "RecordDecision"
    /\ state[a].replayed
    /\ Ok(a, "RecordDecision", state[a], "CompleteAuthorization")
    /\ UNCHANGED <<callVars, ledgerVars, storeVars>>

\* up to the call of record
AskStore(a) ==
    /\ at[a] = "RecordDecision"
    /\ ~state[a].replayed
    /\ stmt[a] = "idle"
    /\ stmt' = [stmt EXCEPT ![a] = "begin"]
    /\ row' = [row EXCEPT ![a] = RowOf(a)]
    /\ TraceStep(a, "RecordDecision", <<"entered">>)
    /\ UNCHANGED <<request, at, state, fault, response, recorded,
                   ledgerVars, storeVars>>

\* after a statement: the match if it ended the call
Awaits(a) ==
    /\ IF stmt'[a] = "done" THEN Matches(a, recorded'[a])
                            ELSE UNCHANGED methodVars
    /\ UNCHANGED ledgerVars

BeginRecord(a) ==
    UNCHANGED request /\ Store!Begin(a) /\ Awaits(a)

InsertDecision(a) ==
    UNCHANGED request /\ (Store!CheckKey(a) \/ Store!InsertRow(a)) /\ Awaits(a)

FindConflict(a) ==
    UNCHANGED request /\ Store!LookUp(a) /\ Awaits(a)

RollBackConflict(a) ==
    UNCHANGED request /\ Store!RollBack(a) /\ Awaits(a)

AuditDecision(a) ==
    UNCHANGED request /\ Store!InsertAudit(a) /\ Awaits(a)

\* COMMIT is acknowledged, and the mode decides what record makes of it
CommitDecision(a) ==
    /\ stmt[a] = "commit"
    /\ UNCHANGED request
    /\ Insert(row[a])
    /\ Store!Return(a, IF RecordModeOf(a) = "LoseCommitAcknowledgement"
                         THEN "decision_commit_ack_lost" ELSE "inserted", {})
    /\ Awaits(a)

\* COMMIT is not answered
CommitUnanswered(a) ==
    /\ stmt[a] = "commit"
    /\ UNCHANGED request
    /\ LeaveUnsettled(row[a])
    /\ Store!Fails(a, CommitLost)
    /\ Awaits(a)

\* reconcile_unknown
ReconcileUnknown(a) ==
    /\ at[a] = "Reconcile"
    /\ \/ \E d \in Same(a) : Settled(a, d.outcome, <<"next">>)
       \/ /\ Other(a) # {}
          /\ Handles(a, "Compensate",
                Err("decision_reconciliation_conflict", "RecordDecision", FALSE))
       \/ /\ Existing(a) = {}
          /\ Handles(a, "Compensate",
                Err("decision_absence_proven_after_unknown_commit",
                    "RecordDecision", TRUE))
       \/ /\ LookupFailed \in StoreFaults
          /\ Responds(a, RequiringOperator(fault[a]))
          /\ TraceStep(a, "RecordDecision", <<"fault">>)
    /\ UNCHANGED <<callVars, ledgerVars, storeVars>>

\* compensate_state
CompensateState(a) ==
    /\ at[a] = "Compensate"
    /\ Undoes(a, fault[a], state[a].payment_id, state[a].reservation_id)
    /\ UNCHANGED <<log, callVars, storeVars>>

\* Mutant of ReturnUndone: the conflict is not traced
ReturnUndoneQuietly(a) ==
    /\ at[a] = "ReturnFault"
    /\ Responds(a, fault[a])
    /\ TraceStep(a, fault[a].step,
           IF fault[a].code = "idempotency_key_conflict" THEN <<>> ELSE <<"fault">>)
    /\ UNCHANGED <<callVars, ledgerVars, storeVars>>

\* after a compensation the fault is traced, whatever the fault, and returned
ReturnUndone(a) ==
    /\ at[a] = "ReturnFault"
    /\ Responds(a, fault[a])
    /\ TraceStep(a, fault[a].step, <<"fault">>)
    /\ UNCHANGED <<callVars, ledgerVars, storeVars>>

Complete(a) ==
    /\ at[a] = "CompleteAuthorization"
    /\ Responds(a, [Nothing EXCEPT !.code = "ok", !.outcome = state[a].result])
    /\ TraceStep(a, "CompleteAuthorization", <<"entered", "next">>)
    /\ UNCHANGED <<callVars, ledgerVars, storeVars>>

-----------------------------------------------------------------------------
Methods(a) ==
    \/ Validate(a)
    \/ Resolve(a)
    \/ Screen(a)
    \/ ReserveStock(a)
    \/ ChargePayment(a)
    \/ RecordReplay(a)
    \/ AskStore(a)
    \/ BeginRecord(a)
    \/ InsertDecision(a)
    \/ FindConflict(a)
    \/ RollBackConflict(a)
    \/ AuditDecision(a)
    \/ CommitDecision(a)
    \/ CommitUnanswered(a)
    \/ ReconcileUnknown(a)
    \/ CompensateState(a)
    \/ ReturnUndone(a)
    \/ Complete(a)

Running(a) == at[a] \notin {"idle", "answered", "dropped"}

\* the statement of a call whose future is gone
Ended(now) == IF now \in {"idle", "done", "sent"} THEN now ELSE "gone"

\* the future of authorize is dropped: an open transaction ends, a COMMIT that
\* is on its way may still be executed
FutureDropped(a) ==
    /\ MayDrop
    /\ Running(a)
    /\ GoTo(a, "dropped")
    /\ \/ /\ stmt' = [stmt EXCEPT ![a] = Ended(@)]
          /\ UNCHANGED storeVars
       \/ /\ stmt[a] = "commit"
          /\ CommitLost \in StoreFaults
          /\ stmt' = [stmt EXCEPT ![a] = "sent"]
          /\ LeaveUnsettled(row[a])
    /\ UNCHANGED <<request, state, fault, response, log, row, recorded, ledgerVars>>

\* OrderService::new after a crash; responses already sent stay sent
CrashAndRestart ==
    /\ MayRestart
    /\ at' = [a \in Attempts |-> IF Running(a) THEN "dropped" ELSE at[a]]
    /\ state' = [a \in Attempts |-> NewState]
    /\ fault' = [a \in Attempts |-> Nothing]
    /\ log' = [a \in Attempts |-> <<>>]
    /\ stmt' = [a \in Attempts |-> Ended(stmt[a])]
    /\ reservations' = {}
    /\ payments' = {}
    /\ events' = [o \in Orders |-> <<>>]
    /\ UNCHANGED <<request, response, row, recorded, storeVars>>

CommitSettles ==
    /\ \E d \in unsettled : SettleCommit(d) \/ SettleAbort(d)
    /\ UNCHANGED <<serviceVars, ledgerVars>>

AllOver ==
    /\ \A a \in Attempts : at[a] \in {"answered", "dropped"}
    /\ unsettled = {}
    /\ UNCHANGED controlVars

ControlNext ==
    \/ \E a \in Attempts : Called(a) \/ Methods(a) \/ FutureDropped(a)
    \/ CrashAndRestart
    \/ CommitSettles
    \/ AllOver

ControlSpec == ControlInit /\ [][ControlNext]_controlVars

\* Mutant of FaultResponse: the reconciled conflict has no arm
FaultResponseOneConflict(code) ==
    CASE code \in BadRequestCodes             -> 400
      [] code = "idempotency_key_conflict"    -> 409
      [] code \in BusinessCodes               -> 422
      [] OTHER                                -> 503

\* fault_response of http.rs, the control's own mapping
FaultResponse(code) ==
    CASE code \in {"order_id_invalid", "idempotency_key_invalid",
                   "customer_id_invalid", "payment_reference_invalid",
                   "items_invalid", "amount_invalid", "currency_invalid",
                   "request_json_invalid"} -> 400
      [] code \in {"idempotency_key_conflict",
                   "decision_reconciliation_conflict"} -> 409
      [] code \in {"inventory_out_of_stock", "payment_declined"} -> 422
      [] OTHER -> 503

\* the status of what authorize returned
Replied(a) == IF response[a].code = "ok" THEN 200 ELSE FaultResponse(response[a].code)

-----------------------------------------------------------------------------
(***************************************************************************)
(* "It implements the same S1-S8 public contract, PostgreSQL decision and  *)
(* audit transaction, idempotency reconciliation, effect ledger,           *)
(* compensation order" (plain-axum-control/README.md:3-5): every behaviour *)
(* of the control is one of the canonical service, with the same answers,  *)
(* rows, effects and events, also where executions meet and calls fail.    *)
(* Traces agree except for the fault entry of a conflict that              *)
(* record_decision meets, which only the control writes.                   *)
(***************************************************************************)
TracedConflict(a) ==
    /\ at[a] = "answered"
    /\ response[a].code = "idempotency_key_conflict"
    /\ response[a].step = "RecordDecision"

\* an entry that the canonical service writes with the end of the call
PendingEntry(a) == stmt[a] \notin {"idle", "done", "sent"}

CanonicalLog(a) ==
    IF (TracedConflict(a) \/ PendingEntry(a)) /\ log[a] # <<>>
      THEN SubSeq(log[a], 1, Len(log[a]) - 1) ELSE log[a]

Canonical == INSTANCE OrderAuthorization WITH
    pc       <- at,
    workflow <- [a \in Attempts |->
                   [replayed    |-> state[a].replayed,
                    result      |-> state[a].result,
                    reservation |-> state[a].reservation_id,
                    payment     |-> state[a].payment_id,
                    undone      |-> fault[a].compensations]],
    pending  <- [a \in Attempts |-> fault[a].code],
    answer   <- response,
    traces   <- [a \in Attempts |-> CanonicalLog(a)]

ASSUME ControlAssumption ==
    /\ Requests \subseteq Canonical!RequestType
    /\ MayDrop \in BOOLEAN /\ MayRestart \in BOOLEAN

BehavesAsCanonical == Canonical!Init /\ [][Canonical!Next]_(Canonical!vars)

(***************************************************************************)
(* The control answers with the status the canonical service gives the     *)
(* same response, for every code its executions can meet.                  *)
(***************************************************************************)
StatusesAgree ==
    \A a \in Attempts : at[a] = "answered" =>
        Replied(a) = Canonical!Status(response[a])

(***************************************************************************)
(* The trace of the control tells how an execution ended, without          *)
(* exception: its last entry is the end of the last step, or the fault of  *)
(* the step the answer names.                                              *)
(***************************************************************************)
LogTellsResponse ==
    \A a \in Attempts : at[a] = "answered" /\ log[a] # <<>> =>
        log[a][Len(log[a])] =
            IF response[a].code = "ok" THEN <<"CompleteAuthorization", "next">>
                                       ELSE <<response[a].step, "fault">>
=============================================================================
