----------------------- MODULE OrderAuthorizationProof ----------------------
(***************************************************************************)
(* Type correctness of OrderAuthorization, then: what clients are told is  *)
(* durable, proofs of AnsweredIsDurable, ClientFaultIsFinal and            *)
(* WorkflowStateIsValid; and of OneAuditedDecisionPerKey, for what is      *)
(* durable.                                                                *)
(*                                                                         *)
(* None is inductive.  They rest on what the store holds (RowsAreVerdicts: *)
(* one row per key, committed or on its way, with the verdict of its       *)
(* request; AuditInv) and on what each execution knows at each step        *)
(* (ExecutionInv): whether the request is valid, where its result comes    *)
(* from, which effects it has applied, and which conflict its pending      *)
(* fault stands for.                                                       *)
(*                                                                         *)
(* The last section puts the invariants together (ClientInv) and says what *)
(* becomes of them while another service uses the same store (Bystander):  *)
(* all they need of it is that it adds verdicts under free keys.           *)
(***************************************************************************)
EXTENDS OrderAuthorization, TLAPS

(***************************************************************************)
(* A request that fails validate_request gets one of its codes, and that   *)
(* code is a flaw the request has.                                         *)
(***************************************************************************)
LEMMA FirstFlawIsFlaw ==
    ASSUME NEW r \in Requests, r.flaws # {}
    PROVE  FirstFlaw(r) \in ValidationCodes /\ FirstFlaw(r) \in r.flaws
<1> DEFINE has(i) == ValidationOrder[i] \in r.flaws
<1>1. r.flaws \subseteq {ValidationOrder[i] : i \in 1..7}
  BY RequestsAssumption DEF RequestType, ValidationCodes
<1>2. PICK n \in 1..7 : has(n)
  BY <1>1
<1>3. \E i \in 1..7 : has(i) /\ \A j \in 1..(i - 1) : ~has(j)
  <2> SUFFICES ASSUME \A i \in 1..7 : has(i) => \E j \in 1..(i - 1) : has(j)
               PROVE  FALSE
    OBVIOUS
  <2> HIDE DEF has
  <2>1. ~has(1)
    OBVIOUS
  <2>2. ~has(2)
    BY <2>1
  <2>3. ~has(3)
    BY <2>1, <2>2
  <2>4. ~has(4)
    BY <2>1, <2>2, <2>3
  <2>5. ~has(5)
    BY <2>1, <2>2, <2>3, <2>4
  <2>6. ~has(6)
    BY <2>1, <2>2, <2>3, <2>4, <2>5
  <2>7. ~has(7)
    BY <2>1, <2>2, <2>3, <2>4, <2>5, <2>6
  <2> QED
    BY <1>2, <2>1, <2>2, <2>3, <2>4, <2>5, <2>6, <2>7
<1>4. PICK i \in 1..7 : /\ FirstFlaw(r) = ValidationOrder[i]
                        /\ has(i)
  BY <1>3 DEF FirstFlaw
<1> QED
  BY <1>4 DEF ValidationCodes

(***************************************************************************)
(* Every operation on the ledger keeps its type.                           *)
(***************************************************************************)
LEMMA ReserveType ==
    ASSUME LedgerTypeOK, NEW o \in Orders, Reserve(o)
    PROVE  LedgerTypeOK'
BY DEF LedgerTypeOK, Reserve, EventActions

LEMMA AuthorizeType ==
    ASSUME LedgerTypeOK, NEW o \in Orders, Authorize(o)
    PROVE  LedgerTypeOK'
BY DEF LedgerTypeOK, Authorize, EventActions

LEMMA CompensateType ==
    ASSUME LedgerTypeOK, NEW o \in Orders,
           NEW void \in BOOLEAN, NEW release \in BOOLEAN,
           Compensate(o, void, release)
    PROVE  /\ LedgerTypeOK'
           /\ CompensationOutcomes(o, void, release) \in SUBSET CompensationOutcome
<1>0. /\ <<>> \in Seq(EventActions)
      /\ <<"payment_voided">> \in Seq(EventActions)
      /\ <<"inventory_released">> \in Seq(EventActions)
  BY DEF EventActions
<1>1. VoidEvents(o, void) \in Seq(EventActions)
  BY <1>0, Zenon DEF VoidEvents
<1>2. ReleaseEvents(o, release) \in Seq(EventActions)
  BY <1>0, Zenon DEF ReleaseEvents
<1>3. events[o] \in Seq(EventActions)
  BY DEF LedgerTypeOK
<1>4. events[o] \o VoidEvents(o, void) \o ReleaseEvents(o, release)
        \in Seq(EventActions)
  BY <1>1, <1>2, <1>3
<1>5. LedgerTypeOK'
  BY <1>4 DEF LedgerTypeOK, Compensate
<1> QED
  BY <1>5 DEF CompensationOutcomes

(***************************************************************************)
(* Every operation on the store keeps its type.                            *)
(***************************************************************************)
LEMMA StoreOperationType ==
    ASSUME StoreTypeOK, NEW d \in Decision,
           Insert(d) \/ LeaveUnsettled(d) \/ SettleCommit(d) \/ SettleAbort(d)
    PROVE  StoreTypeOK'
BY DEF StoreTypeOK, Insert, LeaveUnsettled, SettleCommit, SettleAbort

-----------------------------------------------------------------------------
(***************************************************************************)
(* The four ways a transition's run() ends keep the type of what they      *)
(* write: into the next transition, with a fault, into a later part of     *)
(* RecordDecision, and with the result of RecordDecision.                  *)
(***************************************************************************)
AttemptTypeOK ==
    /\ request \in [Attempts -> Requests]
    /\ pc \in [Attempts -> InFlight \cup {"idle", "answered", "dropped"}]
    /\ workflow \in [Attempts -> WorkflowState]
    /\ pending \in [Attempts -> RecordCodes \cup {"payment_declined", "none"}]
    /\ answer \in [Attempts -> Answer]
    /\ traces \in [Attempts -> Seq(TraceEntry)]

LEMMA TypeOKParts == TypeOK <=> LedgerTypeOK /\ StoreTypeOK /\ AttemptTypeOK
BY DEF TypeOK, AttemptTypeOK

LEMMA TraceType ==
    ASSUME AttemptTypeOK, NEW a \in Attempts,
           NEW entries \in Seq(TraceEntry), Trace(a, entries)
    PROVE  traces' \in [Attempts -> Seq(TraceEntry)]
<1>1. traces[a] \o entries \in Seq(TraceEntry)
  BY DEF AttemptTypeOK
<1> QED
  BY <1>1 DEF AttemptTypeOK, Trace

LEMMA EntriesType ==
    /\ <<>> \in Seq(TraceEntry)
    /\ Entered \in Seq(TraceEntry)
    /\ EnteredNext \in Seq(TraceEntry)
    /\ << <<"RecordDecision", "next">> >> \in Seq(TraceEntry)
    /\ << <<"RecordDecision", "fault">> >> \in Seq(TraceEntry)
    /\ \A step \in Transitions :
         /\ << <<step, "entered">> >> \in Seq(TraceEntry)
         /\ << <<step, "fault">> >> \in Seq(TraceEntry)
         /\ << <<step, "entered">>, <<step, "next">> >> \in Seq(TraceEntry)
         /\ << <<step, "entered">>, <<step, "fault">> >> \in Seq(TraceEntry)
<1>1. /\ <<"RecordDecision", "entered">> \in TraceEntry
      /\ <<"RecordDecision", "next">> \in TraceEntry
      /\ <<"RecordDecision", "fault">> \in TraceEntry
  BY DEF TraceEntry, Transitions
<1>2. \A step \in Transitions : /\ <<step, "entered">> \in TraceEntry
                               /\ <<step, "next">> \in TraceEntry
                               /\ <<step, "fault">> \in TraceEntry
  BY DEF TraceEntry
<1>3. \A e, f \in TraceEntry : /\ <<>> \in Seq(TraceEntry)
                               /\ <<e>> \in Seq(TraceEntry)
                               /\ <<e, f>> \in Seq(TraceEntry)
  OBVIOUS
<1> QED
  BY <1>1, <1>2, <1>3 DEF Entered, EnteredNext

LEMMA AdvanceType ==
    ASSUME AttemptTypeOK, NEW a \in Attempts, NEW step \in Transitions,
           NEW next \in Transitions, Advance(a, step, next),
           workflow' \in [Attempts -> WorkflowState]
    PROVE  AttemptTypeOK'
<1>1. traces' \in [Attempts -> Seq(TraceEntry)]
  BY TraceType, EntriesType DEF Advance
<1> QED
  BY <1>1 DEF AttemptTypeOK, Advance, Goto, InFlight

LEMMA FailAtType ==
    ASSUME AttemptTypeOK, NEW a \in Attempts, NEW step \in Transitions,
           NEW code \in FaultCodes, NEW retryable \in BOOLEAN,
           NEW operator \in BOOLEAN,
           NEW compensations \in SUBSET CompensationOutcome,
           FailAt(a, step, code, retryable, operator, compensations)
    PROVE  AttemptTypeOK'
<1>1. traces' \in [Attempts -> Seq(TraceEntry)]
  BY TraceType, EntriesType DEF FailAt
<1>2. Fault(code, step, retryable, operator, compensations) \in Answer
  BY DEF Fault, Answer
<1> QED
  BY <1>1, <1>2 DEF AttemptTypeOK, FailAt, Goto

LEMMA SuspendType ==
    ASSUME AttemptTypeOK, NEW a \in Attempts,
           NEW step \in {"Reconcile", "Compensate"}, NEW code \in RecordCodes,
           NEW entries \in Seq(TraceEntry), Suspend(a, step, code, entries)
    PROVE  AttemptTypeOK'
<1>1. traces' \in [Attempts -> Seq(TraceEntry)]
  BY TraceType DEF Suspend
<1> QED
  BY <1>1 DEF AttemptTypeOK, Suspend, Goto, InFlight

\* Setting one field of an execution's workflow state keeps its type.
LEMMA WorkflowEdits ==
    ASSUME AttemptTypeOK, NEW a \in Attempts
    PROVE  /\ \A r \in Outcomes \cup {"none"} :
                [workflow EXCEPT ![a].result = r] \in [Attempts -> WorkflowState]
           /\ [workflow EXCEPT ![a].reservation = TRUE]
                \in [Attempts -> WorkflowState]
           /\ [workflow EXCEPT ![a].payment = TRUE]
                \in [Attempts -> WorkflowState]
           /\ \A s \in SUBSET CompensationOutcome :
                [workflow EXCEPT ![a].undone = s] \in [Attempts -> WorkflowState]
<1>1. workflow \in [Attempts -> WorkflowState] /\ workflow[a] \in WorkflowState
  BY DEF AttemptTypeOK
<1>2. /\ \A r \in Outcomes \cup {"none"} :
            [workflow[a] EXCEPT !.result = r] \in WorkflowState
      /\ [workflow[a] EXCEPT !.reservation = TRUE] \in WorkflowState
      /\ [workflow[a] EXCEPT !.payment = TRUE] \in WorkflowState
      /\ \A s \in SUBSET CompensationOutcome :
            [workflow[a] EXCEPT !.undone = s] \in WorkflowState
  BY <1>1 DEF WorkflowState
<1>3. ASSUME NEW w \in WorkflowState
      PROVE  [workflow EXCEPT ![a] = w] \in [Attempts -> WorkflowState]
  BY <1>1
<1> QED
  BY <1>2, <1>3

LEMMA RecordedType ==
    ASSUME AttemptTypeOK, NEW a \in Attempts, NEW outcome \in Outcomes,
           NEW entries \in Seq(TraceEntry), Recorded(a, outcome, entries)
    PROVE  AttemptTypeOK'
<1>1. traces' \in [Attempts -> Seq(TraceEntry)]
  BY TraceType DEF Recorded
<1>2. workflow' \in [Attempts -> WorkflowState]
  BY WorkflowEdits DEF Recorded
<1> QED
  BY <1>1, <1>2 DEF AttemptTypeOK, Recorded, Goto, InFlight, Transitions

LEMMA DecisionOfType ==
    ASSUME AttemptTypeOK, NEW a \in Attempts
    PROVE  DecisionOf(a) \in Decision
BY DEF AttemptTypeOK, DecisionOf, Decision, WorkflowState, Outcomes

-----------------------------------------------------------------------------
(***************************************************************************)
(* One lemma per action: it keeps TypeOK.                                  *)
(***************************************************************************)
LEMMA RequestFields ==
    ASSUME AttemptTypeOK, NEW a \in Attempts
    PROVE  /\ request[a] \in Requests
           /\ request[a].order \in Orders
           /\ workflow[a] \in WorkflowState
           /\ workflow[a].reservation \in BOOLEAN
           /\ workflow[a].payment \in BOOLEAN
           /\ workflow[a].undone \in SUBSET CompensationOutcome
BY RequestsAssumption DEF AttemptTypeOK, RequestType, WorkflowState

\* A compensation, with the outcomes it returns to the execution.
LEMMA UndoType ==
    ASSUME AttemptTypeOK, LedgerTypeOK, NEW a \in Attempts,
           NEW void \in BOOLEAN, NEW release \in BOOLEAN, Undo(a, void, release),
           pending' \in [Attempts -> RecordCodes \cup {"payment_declined", "none"}],
           traces' \in [Attempts -> Seq(TraceEntry)]
    PROVE  AttemptTypeOK' /\ LedgerTypeOK'
<1> DEFINE outcomes == CompensationOutcomes(request[a].order, void, release)
<1>1. /\ LedgerTypeOK'
      /\ outcomes \in SUBSET CompensationOutcome
  BY RequestFields, CompensateType DEF Undo
<1>2. workflow' = [workflow EXCEPT ![a].undone = outcomes]
  BY DEF Undo
<1>3. workflow' \in [Attempts -> WorkflowState]
  <2> HIDE DEF outcomes
  <2> QED
    BY <1>1, <1>2, WorkflowEdits
<1> QED
  BY <1>1, <1>3 DEF AttemptTypeOK, Undo, Goto, InFlight

LEMMA ValidateRequestType ==
    ASSUME TypeOK, NEW a \in Attempts, ValidateRequest(a)
    PROVE  TypeOK'
<1>1. LedgerTypeOK' /\ StoreTypeOK'
  BY DEF TypeOK, LedgerTypeOK, StoreTypeOK, ValidateRequest, ledgerVars, storeVars
<1>2. AttemptTypeOK
  BY TypeOKParts
<1>3. CASE Advance(a, "ValidateRequest", "ResolveIdempotency") /\ UNCHANGED workflow
  <2>1. AttemptTypeOK'
    BY <1>2, <1>3, AdvanceType DEF AttemptTypeOK, Transitions
  <2> QED
    BY <1>1, <2>1 DEF TypeOK, AttemptTypeOK
<1>4. CASE /\ request[a].flaws # {}
           /\ FailAt(a, "ValidateRequest", FirstFlaw(request[a]), FALSE, FALSE, {})
  <2> DEFINE code == FirstFlaw(request[a])
  <2>1. code \in FaultCodes
    BY <1>2, <1>4, RequestFields, FirstFlawIsFlaw DEF FaultCodes
  <2>2. AttemptTypeOK'
    <3> HIDE DEF code
    <3>1. "ValidateRequest" \in Transitions
      BY DEF Transitions
    <3>2. FailAt(a, "ValidateRequest", code, FALSE, FALSE, {})
      BY <1>4 DEF code
    <3>3. FALSE \in BOOLEAN /\ {} \in SUBSET CompensationOutcome
      OBVIOUS
    <3> QED
      BY <1>2, <2>1, <3>1, <3>2, <3>3, FailAtType, Zenon
  <2> QED
    BY <1>1, <2>2 DEF TypeOK, AttemptTypeOK
<1> QED
  BY <1>3, <1>4 DEF ValidateRequest

LEMMA ResolveIdempotencyType ==
    ASSUME TypeOK, NEW a \in Attempts, ResolveIdempotency(a)
    PROVE  TypeOK'
<1>1. LedgerTypeOK' /\ StoreTypeOK'
  BY DEF TypeOK, LedgerTypeOK, StoreTypeOK, ResolveIdempotency, ledgerVars, storeVars
<1>2. AttemptTypeOK
  BY TypeOKParts
<1>3. CASE \E d \in Find(request[a].key) :
             /\ workflow' = [workflow EXCEPT ![a].replayed = TRUE,
                                             ![a].result = d.outcome]
             /\ Advance(a, "ResolveIdempotency", "ScreenPolicy")
  <2>1. PICK d \in decisions :
             workflow' = [workflow EXCEPT ![a].replayed = TRUE,
                                          ![a].result = d.outcome]
    BY <1>3 DEF Find
  <2>2. d.outcome \in Outcomes
    BY DEF TypeOK, StoreTypeOK, Decision
  <2>3. workflow[a] \in WorkflowState /\ workflow \in [Attempts -> WorkflowState]
    BY <1>2 DEF AttemptTypeOK
  <2>4. [workflow[a] EXCEPT !.replayed = TRUE, !.result = d.outcome]
          \in WorkflowState
    BY <2>2, <2>3 DEF WorkflowState
  <2>5. workflow' = [workflow EXCEPT ![a] =
            [workflow[a] EXCEPT !.replayed = TRUE, !.result = d.outcome]]
    BY <2>1, <2>3
  <2>6. workflow' \in [Attempts -> WorkflowState]
    BY <2>3, <2>4, <2>5
  <2>7. AttemptTypeOK'
    BY <1>2, <1>3, <2>6, AdvanceType DEF Transitions
  <2> QED
    BY <1>1, <2>7 DEF TypeOK, AttemptTypeOK
<1>4. CASE Advance(a, "ResolveIdempotency", "ScreenPolicy") /\ UNCHANGED workflow
  <2>1. AttemptTypeOK'
    BY <1>2, <1>4, AdvanceType DEF AttemptTypeOK, Transitions
  <2> QED
    BY <1>1, <2>1 DEF TypeOK, AttemptTypeOK
<1>5. CASE \E code \in {"idempotency_key_conflict", "idempotency_lookup_failed"},
              flag \in BOOLEAN :
              FailAt(a, "ResolveIdempotency", code, flag, flag, {})
  <2>1. {"idempotency_key_conflict", "idempotency_lookup_failed"}
          \subseteq FaultCodes
    BY DEF FaultCodes, RecordCodes, ConflictCodes
  <2>2. AttemptTypeOK'
    BY <1>2, <1>5, <2>1, FailAtType DEF Transitions
  <2> QED
    BY <1>1, <2>2 DEF TypeOK, AttemptTypeOK
<1> QED
  BY <1>3, <1>4, <1>5 DEF ResolveIdempotency

LEMMA ScreenPolicyType ==
    ASSUME TypeOK, NEW a \in Attempts, ScreenPolicy(a)
    PROVE  TypeOK'
<1>1. LedgerTypeOK' /\ StoreTypeOK'
  BY DEF TypeOK, LedgerTypeOK, StoreTypeOK, ScreenPolicy, ledgerVars, storeVars
<1>2. AttemptTypeOK
  BY TypeOKParts
<1>3. PolicyResult(request[a]) \in Outcomes \cup {"none"}
  BY DEF PolicyResult, Outcomes
<1>4. workflow' \in [Attempts -> WorkflowState]
  <2> DEFINE r == IF workflow[a].replayed THEN workflow[a].result
                                          ELSE PolicyResult(request[a])
  <2>1. r \in Outcomes \cup {"none"}
    BY <1>2, <1>3 DEF AttemptTypeOK, WorkflowState
  <2>2. workflow' = [workflow EXCEPT ![a].result = r]
    BY DEF ScreenPolicy
  <2> QED
    BY <1>2, <2>1, <2>2, WorkflowEdits
<1>5. AttemptTypeOK'
  BY <1>2, <1>4, AdvanceType DEF ScreenPolicy, Transitions
<1> QED
  BY <1>1, <1>5 DEF TypeOK, AttemptTypeOK

LEMMA ReserveInventoryType ==
    ASSUME TypeOK, NEW a \in Attempts, ReserveInventory(a)
    PROVE  TypeOK'
<1>1. AttemptTypeOK /\ LedgerTypeOK
  BY TypeOKParts
<1>2. StoreTypeOK'
  BY DEF TypeOK, StoreTypeOK, ReserveInventory, storeVars
<1>3. CASE /\ Advance(a, "ReserveInventory", "AuthorizePayment")
           /\ UNCHANGED <<workflow, ledgerVars>>
  <2>1. AttemptTypeOK'
    BY <1>1, <1>3, AdvanceType DEF AttemptTypeOK, Transitions
  <2> QED
    BY <1>1, <1>2, <1>3, <2>1 DEF TypeOK, AttemptTypeOK, LedgerTypeOK, ledgerVars
<1>4. CASE /\ FailAt(a, "ReserveInventory", "inventory_out_of_stock",
                     FALSE, FALSE, {})
           /\ UNCHANGED ledgerVars
  <2>1. /\ "ReserveInventory" \in Transitions
        /\ "inventory_out_of_stock" \in FaultCodes
        /\ FALSE \in BOOLEAN
        /\ {} \in SUBSET CompensationOutcome
    BY DEF Transitions, FaultCodes, BusinessCodes
  <2>2. AttemptTypeOK'
    BY <1>1, <1>4, <2>1, FailAtType, Zenon
  <2> QED
    BY <1>1, <1>2, <1>4, <2>2 DEF TypeOK, AttemptTypeOK, LedgerTypeOK, ledgerVars
<1>5. CASE /\ Reserve(request[a].order)
           /\ workflow' = [workflow EXCEPT ![a].reservation = TRUE]
           /\ Advance(a, "ReserveInventory", "AuthorizePayment")
  <2>1. workflow' \in [Attempts -> WorkflowState]
    BY <1>1, <1>5, WorkflowEdits
  <2>2. AttemptTypeOK'
    BY <1>1, <1>5, <2>1, AdvanceType DEF Transitions
  <2>3. LedgerTypeOK'
    BY <1>1, <1>5, RequestFields, ReserveType
  <2> QED
    BY <1>2, <2>2, <2>3 DEF TypeOK, AttemptTypeOK
<1> QED
  BY <1>3, <1>4, <1>5 DEF ReserveInventory

LEMMA AuthorizePaymentType ==
    ASSUME TypeOK, NEW a \in Attempts, AuthorizePayment(a)
    PROVE  TypeOK'
<1> DEFINE o == request[a].order
           held == workflow[a].reservation
<1>1. AttemptTypeOK /\ LedgerTypeOK
  BY TypeOKParts
<1>2. StoreTypeOK'
  BY DEF TypeOK, StoreTypeOK, AuthorizePayment, storeVars
<1>3. CASE /\ Advance(a, "AuthorizePayment", "RecordDecision")
           /\ UNCHANGED <<workflow, ledgerVars>>
  <2>1. AttemptTypeOK'
    BY <1>1, <1>3, AdvanceType DEF AttemptTypeOK, Transitions
  <2> QED
    BY <1>1, <1>2, <1>3, <2>1 DEF TypeOK, AttemptTypeOK, LedgerTypeOK, ledgerVars
<1>4. CASE /\ Undo(a, FALSE, held)
           /\ pending' = [pending EXCEPT ![a] = "payment_declined"]
           /\ Trace(a, << <<"AuthorizePayment", "entered">> >>)
  <2>1. "AuthorizePayment" \in Transitions
    BY DEF Transitions
  <2>2. traces' \in [Attempts -> Seq(TraceEntry)]
    BY <1>1, <1>4, <2>1, EntriesType, TraceType
  <2>3. pending' \in [Attempts -> RecordCodes \cup {"payment_declined", "none"}]
    BY <1>1, <1>4 DEF AttemptTypeOK
  <2>4. held \in BOOLEAN /\ FALSE \in BOOLEAN
    BY <1>1, RequestFields
  <2>5. AttemptTypeOK' /\ LedgerTypeOK'
    <3> HIDE DEF held
    <3> QED
      BY <1>1, <1>4, <2>2, <2>3, <2>4, UndoType, Zenon
  <2> QED
    BY <1>2, <2>5 DEF TypeOK, AttemptTypeOK
<1>5. CASE /\ Authorize(o)
           /\ workflow' = [workflow EXCEPT ![a].payment = TRUE]
           /\ Advance(a, "AuthorizePayment", "RecordDecision")
  <2>1. workflow' \in [Attempts -> WorkflowState]
    BY <1>1, <1>5, WorkflowEdits
  <2>2. AttemptTypeOK'
    BY <1>1, <1>5, <2>1, AdvanceType DEF Transitions
  <2>3. LedgerTypeOK'
    BY <1>1, <1>5, RequestFields, AuthorizeType
  <2> QED
    BY <1>2, <2>2, <2>3 DEF TypeOK, AttemptTypeOK
<1> QED
  BY <1>3, <1>4, <1>5 DEF AuthorizePayment

LEMMA RecordDecisionType ==
    ASSUME TypeOK, NEW a \in Attempts, RecordDecision(a)
    PROVE  TypeOK'
<1>1. AttemptTypeOK /\ StoreTypeOK
  BY TypeOKParts
<1>2. LedgerTypeOK'
  BY DEF TypeOK, LedgerTypeOK, ledgerVars, RecordDecision, RecordReplayed,
         RecordWriteFailure, RecordDefiniteFailure, RecordInserted,
         RecordCommitLost, RecordExisting
<1>3. DecisionOf(a) \in Decision
  BY <1>1, DecisionOfType
<1>4. DecisionOf(a).outcome \in Outcomes
  BY <1>3 DEF Decision
<1>5. /\ Entered \in Seq(TraceEntry)
      /\ EnteredNext \in Seq(TraceEntry)
  BY EntriesType
<1>6. \A code \in RecordCodes :
        RecordFails(a, code) \/ RecordUnknown(a, code) => AttemptTypeOK'
  <2>1. "Compensate" \in {"Reconcile", "Compensate"}
        /\ "Reconcile" \in {"Reconcile", "Compensate"}
    OBVIOUS
  <2> QED
    BY <1>1, <1>5, <2>1, SuspendType, Zenon DEF RecordFails, RecordUnknown
<1>7. \A outcome \in Outcomes : Recorded(a, outcome, EnteredNext) => AttemptTypeOK'
  BY <1>1, <1>5, RecordedType, Zenon
<1>8. CASE RecordReplayed(a)
  <2>1. AttemptTypeOK'
    BY <1>1, <1>8, AdvanceType DEF RecordReplayed, AttemptTypeOK, Transitions
  <2> QED
    BY <1>1, <1>2, <1>8, <2>1
       DEF RecordReplayed, TypeOK, AttemptTypeOK, StoreTypeOK, storeVars
<1>9. CASE RecordWriteFailure(a)
  <2>1. AttemptTypeOK'
    BY <1>6, <1>9 DEF RecordWriteFailure, RecordCodes
  <2> QED
    BY <1>1, <1>2, <1>9, <2>1
       DEF RecordWriteFailure, TypeOK, AttemptTypeOK, StoreTypeOK, storeVars
<1>10. CASE RecordDefiniteFailure(a)
  <2>1. AttemptTypeOK'
    BY <1>6, <1>10 DEF RecordDefiniteFailure, RecordCodes
  <2> QED
    BY <1>1, <1>2, <1>10, <2>1
       DEF RecordDefiniteFailure, TypeOK, AttemptTypeOK, StoreTypeOK, storeVars
<1>11. CASE RecordInserted(a)
  <2>1. AttemptTypeOK'
    BY <1>4, <1>6, <1>7, <1>11 DEF RecordInserted, RecordCodes
  <2>2. StoreTypeOK'
    BY <1>1, <1>3, <1>11, StoreOperationType DEF RecordInserted
  <2> QED
    BY <1>2, <2>1, <2>2 DEF TypeOK, AttemptTypeOK
<1>12. CASE RecordCommitLost(a)
  <2>1. AttemptTypeOK'
    BY <1>6, <1>12 DEF RecordCommitLost, RecordCodes
  <2>2. StoreTypeOK'
    BY <1>1, <1>3, <1>12, StoreOperationType DEF RecordCommitLost
  <2> QED
    BY <1>2, <2>1, <2>2 DEF TypeOK, AttemptTypeOK
<1>13. CASE RecordExisting(a)
  <2>1. \A d \in Find(request[a].key) : d.outcome \in Outcomes
    BY <1>1 DEF StoreTypeOK, Find, Decision
  <2>2. AttemptTypeOK'
    BY <1>6, <1>7, <1>13, <2>1
       DEF RecordExisting, RecordCodes, ConflictCodes
  <2> QED
    BY <1>1, <1>2, <1>13, <2>2
       DEF RecordExisting, TypeOK, AttemptTypeOK, StoreTypeOK, storeVars
<1> QED
  BY <1>8, <1>9, <1>10, <1>11, <1>12, <1>13 DEF RecordDecision

LEMMA ReconcileType ==
    ASSUME TypeOK, NEW a \in Attempts, Reconcile(a), pending[a] \in RecordCodes
    PROVE  TypeOK'
<1>1. AttemptTypeOK /\ StoreTypeOK
  BY TypeOKParts
<1>2. LedgerTypeOK' /\ StoreTypeOK'
  BY DEF TypeOK, LedgerTypeOK, StoreTypeOK, ledgerVars, storeVars, Reconcile
<1>3. /\ <<>> \in Seq(TraceEntry)
      /\ << <<"RecordDecision", "next">> >> \in Seq(TraceEntry)
      /\ << <<"RecordDecision", "fault">> >> \in Seq(TraceEntry)
  BY EntriesType
<1>4. CASE \E d \in Find(request[a].key) :
             Recorded(a, d.outcome, << <<"RecordDecision", "next">> >>)
  <2>1. \A d \in Find(request[a].key) : d.outcome \in Outcomes
    BY <1>1 DEF StoreTypeOK, Find, Decision
  <2>2. AttemptTypeOK'
    BY <1>1, <1>3, <1>4, <2>1, RecordedType, Zenon
  <2> QED
    BY <1>2, <2>2 DEF TypeOK, AttemptTypeOK
<1>5. CASE \E code \in {"decision_reconciliation_conflict", Absent} :
             Suspend(a, "Compensate", code, <<>>)
  <2>1. {"decision_reconciliation_conflict", Absent} \subseteq RecordCodes
    BY DEF RecordCodes, ConflictCodes
  <2>2. "Compensate" \in {"Reconcile", "Compensate"}
    OBVIOUS
  <2>3. AttemptTypeOK'
    BY <1>1, <1>3, <1>5, <2>1, <2>2, SuspendType, Zenon
  <2> QED
    BY <1>2, <2>3 DEF TypeOK, AttemptTypeOK
<1>6. CASE /\ Goto(a, "answered")
           /\ Trace(a, << <<"RecordDecision", "fault">> >>)
           /\ answer' = [answer EXCEPT ![a] =
                           Fault(pending[a], "RecordDecision", TRUE, TRUE, {})]
           /\ UNCHANGED <<request, workflow, pending>>
  <2>1. traces' \in [Attempts -> Seq(TraceEntry)]
    BY <1>1, <1>3, <1>6, TraceType
  <2>2. Fault(pending[a], "RecordDecision", TRUE, TRUE, {}) \in Answer
    BY DEF Fault, Answer, FaultCodes, Transitions
  <2> QED
    BY <1>1, <1>2, <1>6, <2>1, <2>2 DEF TypeOK, AttemptTypeOK, Goto
<1> QED
  BY <1>4, <1>5, <1>6 DEF Reconcile

LEMMA CompensateDecisionType ==
    ASSUME TypeOK, NEW a \in Attempts, CompensateDecision(a)
    PROVE  TypeOK'
<1> DEFINE void     == workflow[a].payment
           release  == workflow[a].reservation
<1>1. AttemptTypeOK /\ LedgerTypeOK
  BY TypeOKParts
<1>2. StoreTypeOK'
  BY DEF TypeOK, StoreTypeOK, storeVars, CompensateDecision
<1>3. /\ pending' \in [Attempts -> RecordCodes \cup {"payment_declined", "none"}]
      /\ traces' \in [Attempts -> Seq(TraceEntry)]
  BY <1>1 DEF AttemptTypeOK, CompensateDecision
<1>4. void \in BOOLEAN /\ release \in BOOLEAN /\ Undo(a, void, release)
  BY <1>1, RequestFields DEF CompensateDecision
<1>5. AttemptTypeOK' /\ LedgerTypeOK'
  <2> HIDE DEF void, release
  <2> QED
    BY <1>1, <1>3, <1>4, UndoType, Zenon
<1> QED
  BY <1>2, <1>5 DEF TypeOK, AttemptTypeOK

LEMMA ReturnFaultType ==
    ASSUME TypeOK, NEW a \in Attempts, ReturnFault(a),
           pending[a] \in RecordCodes \cup {"payment_declined"}
    PROVE  TypeOK'
<1> DEFINE step == IF pending[a] = "payment_declined" THEN "AuthorizePayment"
                                                      ELSE "RecordDecision"
           retryable == pending[a] \notin ConflictCodes \cup BusinessCodes
<1>1. AttemptTypeOK /\ LedgerTypeOK
  BY TypeOKParts
<1>2. LedgerTypeOK' /\ StoreTypeOK'
  BY DEF TypeOK, LedgerTypeOK, StoreTypeOK, ledgerVars, storeVars, ReturnFault
<1>3. step \in Transitions /\ retryable \in BOOLEAN
  BY DEF Transitions
<1>4. traces' \in [Attempts -> Seq(TraceEntry)]
  BY <1>1, <1>3, EntriesType, TraceType DEF ReturnFault
<1>5. Fault(pending[a], step, retryable, FALSE, workflow[a].undone) \in Answer
  BY <1>1, <1>3, RequestFields DEF Fault, Answer, FaultCodes, BusinessCodes
<1> QED
  BY <1>1, <1>2, <1>4, <1>5 DEF TypeOK, AttemptTypeOK, ReturnFault, Goto

LEMMA CompleteAuthorizationType ==
    ASSUME TypeOK, NEW a \in Attempts, CompleteAuthorization(a)
    PROVE  TypeOK'
<1>1. AttemptTypeOK
  BY TypeOKParts
<1>2. LedgerTypeOK' /\ StoreTypeOK'
  BY DEF TypeOK, LedgerTypeOK, StoreTypeOK, ledgerVars, storeVars,
         CompleteAuthorization
<1>3. << <<"CompleteAuthorization", "entered">>,
         <<"CompleteAuthorization", "next">> >> \in Seq(TraceEntry)
  BY EntriesType DEF Transitions
<1>4. traces' \in [Attempts -> Seq(TraceEntry)]
  BY <1>1, <1>3, TraceType DEF CompleteAuthorization
<1>5. Success(workflow[a].result) \in Answer
  BY <1>1 DEF AttemptTypeOK, WorkflowState, Success, Answer
<1> QED
  BY <1>1, <1>2, <1>4, <1>5 DEF TypeOK, AttemptTypeOK, CompleteAuthorization, Goto

LEMMA EnvironmentType ==
    ASSUME TypeOK,
           \/ \E a \in Attempts : Arrive(a) \/ Drop(a) \/ AbandonCommit(a)
           \/ Restart \/ Settle \/ UNCHANGED vars
    PROVE  TypeOK'
<1>1. AttemptTypeOK /\ LedgerTypeOK /\ StoreTypeOK
  BY TypeOKParts
<1>2. ASSUME NEW a \in Attempts, Arrive(a) \/ Drop(a)
      PROVE  TypeOK'
  BY <1>1, <1>2 DEF TypeOK, AttemptTypeOK, LedgerTypeOK, StoreTypeOK,
                    ledgerVars, storeVars, Arrive, Drop, Goto, InFlight, Transitions
<1>3. ASSUME NEW a \in Attempts, AbandonCommit(a)
      PROVE  TypeOK'
  <2>1. traces' \in [Attempts -> Seq(TraceEntry)]
    BY <1>1, <1>3, EntriesType, TraceType DEF AbandonCommit
  <2>2. StoreTypeOK'
    BY <1>1, <1>3, DecisionOfType, StoreOperationType DEF AbandonCommit
  <2> QED
    BY <1>1, <1>3, <2>1, <2>2
       DEF TypeOK, AttemptTypeOK, LedgerTypeOK, ledgerVars, AbandonCommit, Goto
<1>4. CASE Restart
  <2>1. FreshWorkflow \in WorkflowState
    BY DEF FreshWorkflow, WorkflowState
  <2>2. AttemptTypeOK'
    BY <1>1, <1>4, <2>1, EntriesType DEF AttemptTypeOK, Restart
  <2>3. LedgerTypeOK'
    BY <1>4 DEF LedgerTypeOK, Restart
  <2> QED
    BY <1>1, <1>4, <2>2, <2>3
       DEF TypeOK, AttemptTypeOK, StoreTypeOK, storeVars, Restart
<1>5. CASE Settle
  <2>1. \A d \in unsettled : d \in Decision
    BY <1>1 DEF StoreTypeOK
  <2>2. StoreTypeOK'
    BY <1>1, <1>5, <2>1, StoreOperationType DEF Settle
  <2> QED
    BY <1>1, <1>5, <2>2
       DEF TypeOK, AttemptTypeOK, LedgerTypeOK, attemptVars, ledgerVars, Settle
<1>6. CASE UNCHANGED vars
  BY <1>1, <1>6 DEF TypeOK, AttemptTypeOK, LedgerTypeOK, StoreTypeOK, vars,
                    attemptVars, ledgerVars, storeVars
<1> QED
  BY <1>2, <1>3, <1>4, <1>5, <1>6

-----------------------------------------------------------------------------
(***************************************************************************)
(* While RecordDecision reconciles or compensates, pending names the fault *)
(* it works on, and while a fault is on its way out it is that fault.      *)
(* With it TypeOK is inductive: the code of an answer comes from pending.  *)
(***************************************************************************)
PendingIsSet ==
    \A a \in Attempts :
        /\ pc[a] \in {"Reconcile", "Compensate"} => pending[a] \in RecordCodes
        /\ pc[a] = "ReturnFault" =>
             pending[a] \in RecordCodes \cup {"payment_declined"}

TypeInv == TypeOK /\ PendingIsSet

LEMMA TypeInvInit == Init => TypeInv
<1> SUFFICES ASSUME Init PROVE TypeInv
  OBVIOUS
<1>1. LedgerTypeOK
  BY DEF Init, LedgerInit, LedgerTypeOK
<1>2. StoreTypeOK
  BY DEF Init, StoreInit, StoreTypeOK
<1>3. FreshWorkflow \in WorkflowState /\ NoAnswer \in Answer
  BY DEF FreshWorkflow, WorkflowState, NoAnswer, Fault, Answer
<1>4. AttemptTypeOK
  BY <1>3, EntriesType DEF Init, AttemptTypeOK
<1> QED
  BY <1>1, <1>2, <1>4, TypeOKParts DEF TypeInv, PendingIsSet, Init

LEMMA PendingIsSetStep == TypeInv /\ [Next]_vars => PendingIsSet'
<1> DEFINE Busy  == {"Reconcile", "Compensate", "ReturnFault"}
           Set(b) == /\ pc[b] \in {"Reconcile", "Compensate"} => pending[b] \in RecordCodes
                     /\ pc[b] = "ReturnFault" =>
                          pending[b] \in RecordCodes \cup {"payment_declined"}
<1> SUFFICES ASSUME TypeInv, [Next]_vars, NEW b \in Attempts
             PROVE  Set(b)'
  BY DEF PendingIsSet
<1>1. /\ pc \in [Attempts -> InFlight \cup {"idle", "answered", "dropped"}]
      /\ pending \in [Attempts -> RecordCodes \cup {"payment_declined", "none"}]
      /\ Set(b)
  BY DEF TypeInv, TypeOK, PendingIsSet
<1>3. ASSUME NEW a \in Attempts, NEW step \in {"Reconcile", "Compensate"},
             NEW code \in RecordCodes, NEW entries,
             Suspend(a, step, code, entries)
      PROVE  Set(b)'
  BY <1>1, <1>3 DEF Suspend, Goto
<1>4. ASSUME NEW a \in Attempts, NEW step, pc' = [pc EXCEPT ![a] = step],
             UNCHANGED pending, step \notin Busy
      PROVE  Set(b)'
  BY <1>1, <1>4
<1>5. ASSUME NEW a \in Attempts,
             \/ Arrive(a) \/ ValidateRequest(a) \/ ResolveIdempotency(a)
             \/ ScreenPolicy(a) \/ ReserveInventory(a) \/ AuthorizePayment(a)
             \/ CompensateDecision(a) \/ ReturnFault(a) \/ CompleteAuthorization(a)
             \/ RecordReplayed(a) \/ Drop(a) \/ AbandonCommit(a)
      PROVE  Set(b)'
  <2>1. CASE \/ Arrive(a) \/ CompleteAuthorization(a) \/ Drop(a)
             \/ AbandonCommit(a) \/ ReturnFault(a)
    <3>1. \E step \in {"ValidateRequest", "answered", "dropped"} :
            pc' = [pc EXCEPT ![a] = step] /\ UNCHANGED pending
      BY <2>1, Zenon DEF Arrive, CompleteAuthorization, Drop, AbandonCommit,
                         ReturnFault, Goto
    <3>2. \A step \in {"ValidateRequest", "answered", "dropped"} : step \notin Busy
      OBVIOUS
    <3> QED
      BY <1>4, <3>1, <3>2
  <2>2. CASE CompensateDecision(a)
    BY <1>1, <2>2 DEF CompensateDecision, Undo, Goto
  <2>3. ASSUME NEW step, NEW next \in Transitions, Advance(a, step, next)
        PROVE  Set(b)'
    <3>1. next \notin Busy
      BY <2>3 DEF Transitions
    <3>2. pc' = [pc EXCEPT ![a] = next] /\ UNCHANGED pending
      BY <2>3 DEF Advance, Goto
    <3> QED
      BY <1>4, <3>1, <3>2
  <2>4. ASSUME NEW step, NEW code, NEW retryable, NEW operator, NEW comps,
               FailAt(a, step, code, retryable, operator, comps)
        PROVE  Set(b)'
    BY <1>4, <2>4 DEF FailAt, Goto
  <2>5. {"ResolveIdempotency", "ScreenPolicy", "ReserveInventory",
         "AuthorizePayment", "RecordDecision", "CompleteAuthorization"}
           \subseteq Transitions
    BY DEF Transitions
  <2>6. CASE ValidateRequest(a) \/ ResolveIdempotency(a) \/ ScreenPolicy(a)
    <3> HIDE DEF Set
    <3> QED
      BY <2>3, <2>4, <2>5, <2>6 DEF ValidateRequest, ResolveIdempotency, ScreenPolicy
  <2>7. CASE ReserveInventory(a) \/ RecordReplayed(a)
    <3> HIDE DEF Set
    <3> QED
      BY <2>3, <2>4, <2>5, <2>7 DEF ReserveInventory, RecordReplayed
  <2>8. CASE AuthorizePayment(a)
    <3>1. CASE Undo(a, FALSE, workflow[a].reservation)
               /\ pending' = [pending EXCEPT ![a] = "payment_declined"]
      BY <1>1, <3>1 DEF Undo, Goto
    <3>2. CASE Advance(a, "AuthorizePayment", "RecordDecision")
      BY <2>3, <2>5, <3>2
    <3> QED
      BY <2>8, <3>1, <3>2 DEF AuthorizePayment
  <2> QED
    BY <1>5, <2>1, <2>2, <2>6, <2>7, <2>8
<1>6. ASSUME NEW a \in Attempts,
             \/ RecordWriteFailure(a) \/ RecordDefiniteFailure(a)
             \/ RecordInserted(a) \/ RecordCommitLost(a) \/ RecordExisting(a)
      PROVE  Set(b)'
  <2>1. \A code \in RecordCodes :
          RecordFails(a, code) \/ RecordUnknown(a, code) => Set(b)'
    BY <1>3 DEF RecordFails, RecordUnknown
  <2>2. \A outcome : Recorded(a, outcome, EnteredNext) => Set(b)'
    BY <1>4 DEF Recorded, Goto
  <2> HIDE DEF Set
  <2> QED
    BY <1>6, <2>1, <2>2
       DEF RecordWriteFailure, RecordDefiniteFailure, RecordInserted,
           RecordCommitLost, RecordExisting, RecordCodes, ConflictCodes
<1>7. ASSUME NEW a \in Attempts, Reconcile(a)
      PROVE  Set(b)'
  <2>1. {"decision_reconciliation_conflict", Absent} \subseteq RecordCodes
    BY DEF RecordCodes, ConflictCodes
  <2>2. \A code \in RecordCodes :
          Suspend(a, "Compensate", code, <<>>) => Set(b)'
    BY <1>3
  <2>3. \A outcome, entries :
          Recorded(a, outcome, entries) => Set(b)'
    BY <1>4 DEF Recorded, Goto
  <2>4. Goto(a, "answered") /\ UNCHANGED pending => Set(b)'
    BY <1>4 DEF Goto
  <2> HIDE DEF Set
  <2> QED
    BY <1>7, <2>1, <2>2, <2>3, <2>4 DEF Reconcile
<1>8. CASE Restart
  BY <1>1, <1>8 DEF Restart, InFlight
<1>9. CASE Settle \/ UNCHANGED vars
  BY <1>1, <1>9 DEF Settle, vars, attemptVars
<1>10. CASE \E a \in Attempts : Arrive(a) \/ Drop(a) \/ AbandonCommit(a) \/ Run(a)
  <2> HIDE DEF Set
  <2> QED
    BY <1>5, <1>6, <1>7, <1>10 DEF Run, RecordDecision
<1> QED
  BY <1>8, <1>9, <1>10 DEF Next, Proceed, Quiescent

LEMMA TypeInvStep == TypeInv /\ [Next]_vars => TypeInv'
<1> SUFFICES ASSUME TypeInv, [Next]_vars PROVE TypeOK'
  BY PendingIsSetStep DEF TypeInv
<1>1. ASSUME NEW a \in Attempts, Run(a) PROVE TypeOK'
  <2>1. /\ pc[a] = "Reconcile" => pending[a] \in RecordCodes
        /\ pc[a] = "ReturnFault" =>
             pending[a] \in RecordCodes \cup {"payment_declined"}
    BY DEF TypeInv, PendingIsSet
  <2>2. CASE ValidateRequest(a) \/ ResolveIdempotency(a) \/ ScreenPolicy(a)
    BY <2>2, ValidateRequestType, ResolveIdempotencyType, ScreenPolicyType
       DEF TypeInv
  <2>3. CASE ReserveInventory(a) \/ AuthorizePayment(a) \/ RecordDecision(a)
    BY <2>3, ReserveInventoryType, AuthorizePaymentType, RecordDecisionType
       DEF TypeInv
  <2>4. CASE Reconcile(a)
    BY <2>1, <2>4, ReconcileType DEF TypeInv, Reconcile
  <2>5. CASE CompensateDecision(a)
    BY <2>5, CompensateDecisionType DEF TypeInv
  <2>6. CASE CompleteAuthorization(a)
    BY <2>6, CompleteAuthorizationType DEF TypeInv
  <2>7. CASE ReturnFault(a)
    BY <2>1, <2>7, ReturnFaultType DEF TypeInv, ReturnFault
  <2> QED
    BY <1>1, <2>2, <2>3, <2>4, <2>5, <2>6, <2>7 DEF Run
<1> QED
  BY <1>1, EnvironmentType DEF TypeInv, Next, Proceed, Quiescent

(***************************************************************************)
(* TypeOK with what makes it inductive: an execution that reconciles or    *)
(* compensates has the code it does so for in hand.                        *)
(***************************************************************************)
THEOREM TypeCorrectness == Spec => []TypeInv
<1>1. Spec => Init /\ [][Next]_vars
  BY DEF Spec
<1> QED
  BY <1>1, TypeInvInit, TypeInvStep, PTL

(***************************************************************************)
(* TypeOK, for any number of attempts, orders and requests and any store   *)
(* faults.                                                                 *)
(***************************************************************************)
THEOREM TypesAreCorrect == Spec => []TypeOK
<1>1. TypeInv => TypeOK
  BY DEF TypeInv
<1> QED
  BY <1>1, TypeCorrectness, PTL

-----------------------------------------------------------------------------
(***************************************************************************)
(* The inductive invariant behind the durability of answers.               *)
(***************************************************************************)
Rows == decisions \cup unsettled

RowsAreVerdicts ==
    /\ \A d, e \in Rows : d.request.key = e.request.key => d = e
    /\ \A d \in Rows : Eligible(d.request) /\ d.outcome = WorkflowVerdict(d.request)

\* the row that backs the result execution a has
ResultRow(a) == [request |-> request[a], outcome |-> workflow[a].result]

Conflicting(a) == \E d \in Find(request[a].key) : d.request # request[a]

Recording == {"RecordDecision", "Reconcile", "Compensate"}
Deciding  == Recording \cup {"ReserveInventory", "AuthorizePayment"}

UnknownCodes == ConflictPathCodes \cup {"decision_commit_ack_lost", CommitLost}

ExecutionInv(a) ==
    /\ pc[a] \in InFlight \ {"ValidateRequest"} => request[a].flaws = {}
    /\ pc[a] \in {"idle", "ValidateRequest", "ResolveIdempotency"} =>
         workflow[a] = FreshWorkflow
    /\ pc[a] \in InFlight /\ workflow[a].replayed => ResultRow(a) \in decisions
    /\ pc[a] = "ScreenPolicy" /\ ~workflow[a].replayed => workflow[a].result = "none"
    /\ pc[a] \in Deciding /\ ~workflow[a].replayed =>
         workflow[a].result = PolicyResult(request[a])
    /\ pc[a] \in Recording \cup {"AuthorizePayment"} /\ NeedsEffects(a) =>
         workflow[a].reservation /\ request[a].fixture # "out_of_stock"
    /\ pc[a] \in Recording /\ NeedsEffects(a) =>
         workflow[a].payment /\ request[a].fixture # "payment_declined"
    /\ pc[a] = "CompleteAuthorization" => ResultRow(a) \in decisions
    /\ pc[a] = "Reconcile" => pending[a] \in UnknownCodes
    /\ pc[a] \in {"Compensate", "ReturnFault"} /\ pending[a] \in ConflictCodes =>
         Conflicting(a)
    /\ pc[a] = "ReturnFault" /\ pending[a] = "payment_declined" =>
         request[a].fixture = "payment_declined"

AnswerInv(a) ==
    pc[a] = "answered" =>
        /\ answer[a].code # "none"
        /\ answer[a].code = "ok" =>
             [request |-> request[a], outcome |-> answer[a].outcome] \in decisions
        /\ answer[a].code \in ValidationCodes => request[a].flaws # {}
        /\ answer[a].code \in BusinessCodes =>
             request[a].fixture \in {"out_of_stock", "payment_declined"}
        /\ answer[a].code \in ConflictCodes => Conflicting(a)

DurableInv ==
    /\ RowsAreVerdicts
    /\ \A a \in Attempts : ExecutionInv(a) /\ AnswerInv(a)

-----------------------------------------------------------------------------
(***************************************************************************)
(* A step of one execution leaves the others alone, and what they know     *)
(* stays true when decisions are added.                                    *)
(***************************************************************************)
Same(b) ==
    /\ request'[b] = request[b]
    /\ pc'[b] = pc[b]
    /\ workflow'[b] = workflow[b]
    /\ pending'[b] = pending[b]
    /\ answer'[b] = answer[b]

Step(a) == Arrive(a) \/ Run(a) \/ Drop(a) \/ AbandonCommit(a)

\* what a client sends does not change
LEMMA RequestsStay ==
    ASSUME [Next]_vars
    PROVE  request' = request
BY DEF Next, Proceed, vars, attemptVars, Run, Arrive, Drop, AbandonCommit,
       ValidateRequest, ResolveIdempotency, ScreenPolicy, ReserveInventory,
       AuthorizePayment, RecordDecision, RecordReplayed, RecordWriteFailure,
       RecordDefiniteFailure, RecordInserted, RecordCommitLost, RecordExisting,
       RecordFails, RecordUnknown, Reconcile, CompensateDecision, Undo, ReturnFault,
       CompleteAuthorization, Advance, FailAt, Suspend, Recorded, Restart, Settle,
       Quiescent

LEMMA RunEndsLocally ==
    ASSUME TypeOK, NEW a \in Attempts, NEW b \in Attempts, b # a
    PROVE  /\ \A step, next : Advance(a, step, next) => /\ pc'[b] = pc[b]
                                                       /\ UNCHANGED <<request, pending, answer>>
           /\ \A step, code, retryable, operator, comps :
                FailAt(a, step, code, retryable, operator, comps) => Same(b)
           /\ \A step, code, entries : Suspend(a, step, code, entries) => Same(b)
           /\ \A outcome, entries : Recorded(a, outcome, entries) => Same(b)
           /\ \A void, release : Undo(a, void, release) =>
                /\ pc'[b] = pc[b]
                /\ workflow'[b] = workflow[b]
                /\ UNCHANGED <<request, answer>>
<1>1. /\ pc \in [Attempts -> InFlight \cup {"idle", "answered", "dropped"}]
      /\ workflow \in [Attempts -> WorkflowState]
      /\ pending \in [Attempts -> RecordCodes \cup {"payment_declined", "none"}]
      /\ answer \in [Attempts -> Answer]
  BY DEF TypeOK
<1>2. ASSUME NEW step, NEW next, Advance(a, step, next)
      PROVE  pc'[b] = pc[b] /\ UNCHANGED <<request, pending, answer>>
  BY <1>1, <1>2 DEF Advance, Goto
<1>3. ASSUME NEW step, NEW code, NEW retryable, NEW operator, NEW comps,
             FailAt(a, step, code, retryable, operator, comps)
      PROVE  Same(b)
  BY <1>1, <1>3 DEF FailAt, Goto, Same
<1>4. ASSUME NEW step, NEW code, NEW entries, Suspend(a, step, code, entries)
      PROVE  Same(b)
  BY <1>1, <1>4 DEF Suspend, Goto, Same
<1>5. ASSUME NEW outcome, NEW entries, Recorded(a, outcome, entries)
      PROVE  Same(b)
  BY <1>1, <1>5 DEF Recorded, Goto, Same
<1>6. ASSUME NEW void, NEW release, Undo(a, void, release)
      PROVE  /\ pc'[b] = pc[b]
             /\ workflow'[b] = workflow[b]
             /\ UNCHANGED <<request, answer>>
  BY <1>1, <1>6 DEF Undo, Goto
<1> QED
  BY <1>2, <1>3, <1>4, <1>5, <1>6

LEMMA StepIsLocal ==
    ASSUME TypeOK, NEW a \in Attempts, Step(a), NEW b \in Attempts, b # a
    PROVE  Same(b)
<1>1. /\ pc \in [Attempts -> InFlight \cup {"idle", "answered", "dropped"}]
      /\ workflow \in [Attempts -> WorkflowState]
      /\ pending \in [Attempts -> RecordCodes \cup {"payment_declined", "none"}]
      /\ answer \in [Attempts -> Answer]
  BY DEF TypeOK
<1>2. CASE Arrive(a) \/ Drop(a) \/ AbandonCommit(a)
  BY <1>1, <1>2 DEF Arrive, Drop, AbandonCommit, Goto, Same
<1>3. CASE ValidateRequest(a)
  BY <1>3, RunEndsLocally DEF ValidateRequest, Same
<1>4. CASE ResolveIdempotency(a)
  BY <1>1, <1>4, RunEndsLocally DEF ResolveIdempotency, Same
<1>5. CASE ScreenPolicy(a)
  BY <1>1, <1>5, RunEndsLocally DEF ScreenPolicy, Same
<1>6. CASE ReserveInventory(a)
  BY <1>1, <1>6, RunEndsLocally DEF ReserveInventory, Same
<1>7. CASE AuthorizePayment(a)
  BY <1>1, <1>7, RunEndsLocally DEF AuthorizePayment, Same
<1>8. CASE RecordReplayed(a)
  BY <1>8, RunEndsLocally DEF RecordReplayed, Same
<1>9. CASE \/ RecordWriteFailure(a) \/ RecordDefiniteFailure(a)
           \/ RecordInserted(a) \/ RecordCommitLost(a) \/ RecordExisting(a)
  BY <1>9, RunEndsLocally
     DEF RecordWriteFailure, RecordDefiniteFailure, RecordInserted,
         RecordCommitLost, RecordExisting, RecordFails, RecordUnknown
<1>10. CASE Reconcile(a)
  BY <1>1, <1>10, RunEndsLocally DEF Reconcile, Goto, Same
<1>11. CASE CompensateDecision(a)
  BY <1>11, RunEndsLocally DEF CompensateDecision, Same
<1>12. CASE CompleteAuthorization(a) \/ ReturnFault(a)
  BY <1>1, <1>12 DEF CompleteAuthorization, ReturnFault, Goto, Same
<1> QED
  BY <1>2, <1>3, <1>4, <1>5, <1>6, <1>7, <1>8, <1>9, <1>10, <1>11, <1>12
     DEF Step, Run, RecordDecision

LEMMA OtherExecutions ==
    ASSUME NEW b \in Attempts, Same(b), decisions \subseteq decisions',
           ExecutionInv(b), AnswerInv(b)
    PROVE  ExecutionInv(b)' /\ AnswerInv(b)'
<1>1. Conflicting(b) => Conflicting(b)'
  BY DEF Same, Conflicting, Find
<1>2. ResultRow(b) \in decisions => (ResultRow(b) \in decisions)'
  BY DEF Same, ResultRow
<1>3. NeedsEffects(b)' = NeedsEffects(b)
  BY DEF Same, NeedsEffects
<1>4. ExecutionInv(b)'
  BY <1>1, <1>2, <1>3 DEF Same, ExecutionInv
<1>5. AnswerInv(b)'
  BY <1>1 DEF Same, AnswerInv
<1> QED
  BY <1>4, <1>5

(***************************************************************************)
(* A new row keeps RowsAreVerdicts if its key is free and its outcome is   *)
(* the verdict of an eligible request.                                     *)
(***************************************************************************)
LEMMA NewRow ==
    ASSUME RowsAreVerdicts, NEW d, Rows' \subseteq Rows \cup {d},
           \A e \in Rows : e.request.key # d.request.key,
           Eligible(d.request), d.outcome = WorkflowVerdict(d.request)
    PROVE  RowsAreVerdicts'
BY DEF RowsAreVerdicts

LEMMA NoNewRow ==
    ASSUME RowsAreVerdicts, Rows' \subseteq Rows
    PROVE  RowsAreVerdicts'
BY DEF RowsAreVerdicts

LEMMA KeyFreeRows ==
    ASSUME NEW a \in Attempts, KeyFree(a)
    PROVE  \A e \in Rows : e.request.key # request[a].key
BY DEF KeyFree, Find, Locked, Rows

(***************************************************************************)
(* The decision an execution is about to record is its request's verdict.  *)
(***************************************************************************)
LEMMA DecisionIsVerdict ==
    ASSUME TypeOK, NEW a \in Attempts, ExecutionInv(a), Writes(a)
    PROVE  /\ Eligible(request[a])
           /\ DecisionOf(a).request = request[a]
           /\ DecisionOf(a).outcome = WorkflowVerdict(request[a])
<1>1. /\ request[a].flaws = {}
      /\ workflow[a].result = PolicyResult(request[a])
      /\ request[a].fixture # "decision_write_failure"
  BY DEF ExecutionInv, Writes, CallsStore, InFlight, Transitions, Deciding, Recording
<1>2. workflow[a].result = "none" =>
        request[a].fixture \notin {"out_of_stock", "payment_declined"}
  BY DEF ExecutionInv, Writes, CallsStore, NeedsEffects, Recording
<1>3. workflow[a].result # "none" =>
        request[a].fixture \in {"manual_review", "policy_rejected"}
  BY <1>1 DEF PolicyResult
<1>4. Eligible(request[a])
  BY <1>1, <1>2, <1>3 DEF Eligible
<1> QED
  BY <1>1, <1>4 DEF DecisionOf, WorkflowVerdict

-----------------------------------------------------------------------------
(***************************************************************************)
(* What the execution that moves knows after its step: one lemma per       *)
(* action.                                                                 *)
(***************************************************************************)
LEMMA AdvanceLocal ==
    ASSUME TypeOK, NEW a \in Attempts, NEW step, NEW next, Advance(a, step, next)
    PROVE  /\ pc'[a] = next
           /\ request'[a] = request[a]
           /\ pending'[a] = pending[a]
BY DEF TypeOK, Advance, Goto

LEMMA FailAtLocal ==
    ASSUME TypeOK, NEW a \in Attempts, NEW step, NEW code, NEW retryable,
           NEW operator, NEW comps, FailAt(a, step, code, retryable, operator, comps)
    PROVE  /\ pc'[a] = "answered"
           /\ request'[a] = request[a]
           /\ answer'[a].code = code
BY DEF TypeOK, FailAt, Goto, Fault

LEMMA SuspendLocal ==
    ASSUME TypeOK, NEW a \in Attempts, NEW step, NEW code, NEW entries,
           Suspend(a, step, code, entries)
    PROVE  /\ pc'[a] = step
           /\ request'[a] = request[a]
           /\ workflow'[a] = workflow[a]
           /\ pending'[a] = code
BY DEF TypeOK, Suspend, Goto

LEMMA RecordedLocal ==
    ASSUME TypeOK, NEW a \in Attempts, NEW outcome, NEW entries,
           Recorded(a, outcome, entries)
    PROVE  /\ pc'[a] = "CompleteAuthorization"
           /\ request'[a] = request[a]
           /\ workflow'[a].result = outcome
           /\ workflow'[a].replayed = workflow[a].replayed
BY DEF TypeOK, WorkflowState, Recorded, Goto

\* after a fault only the answer counts
LEMMA AnsweredOwn ==
    ASSUME NEW a \in Attempts, pc'[a] = "answered"
    PROVE  ExecutionInv(a)'
BY DEF ExecutionInv, InFlight, Transitions, Deciding, Recording

\* in flight there is no answer yet to be right about
LEMMA InFlightOwn ==
    ASSUME NEW a \in Attempts, pc'[a] # "answered"
    PROVE  AnswerInv(a)'
BY DEF AnswerInv

\* after Recorded the row is durable
LEMMA RecordedOwn ==
    ASSUME TypeOK, NEW a \in Attempts, NEW outcome, NEW entries,
           ExecutionInv(a), pc[a] \in {"RecordDecision", "Reconcile"},
           Recorded(a, outcome, entries),
           [request |-> request[a], outcome |-> outcome] \in decisions'
    PROVE  ExecutionInv(a)' /\ AnswerInv(a)'
<1>1. /\ pc'[a] = "CompleteAuthorization"
      /\ request'[a] = request[a]
      /\ workflow'[a].result = outcome
  BY RecordedLocal
<1>2. (ResultRow(a) \in decisions)'
  BY <1>1 DEF ResultRow
<1>3. request[a].flaws = {}
  BY DEF ExecutionInv, InFlight, Transitions
<1> QED
  BY <1>1, <1>2, <1>3, InFlightOwn DEF ExecutionInv, Deciding, Recording

\* after Suspend the workflow is what it was
LEMMA SuspendOwn ==
    ASSUME TypeOK, NEW a \in Attempts, NEW code, NEW entries,
           NEW step \in {"Reconcile", "Compensate"},
           ExecutionInv(a), pc[a] \in {"RecordDecision", "Reconcile"},
           Suspend(a, step, code, entries), decisions \subseteq decisions',
           step = "Reconcile" => code \in UnknownCodes,
           code \in ConflictCodes => Conflicting(a)
    PROVE  ExecutionInv(a)' /\ AnswerInv(a)'
<1>1. /\ pc'[a] = step
      /\ request'[a] = request[a]
      /\ workflow'[a] = workflow[a]
      /\ pending'[a] = code
  BY SuspendLocal
<1>2. Conflicting(a) => Conflicting(a)'
  BY <1>1 DEF Conflicting, Find
<1>3. ResultRow(a) \in decisions => (ResultRow(a) \in decisions)'
  BY <1>1 DEF ResultRow
<1>4. NeedsEffects(a)' = NeedsEffects(a)
  BY <1>1 DEF NeedsEffects
<1>5. pc[a] \in InFlight \ {"ValidateRequest"} /\ pc[a] \in Recording
  BY DEF InFlight, Transitions, Recording
<1>6. ExecutionInv(a)'
  BY <1>1, <1>2, <1>3, <1>4, <1>5 DEF ExecutionInv, Deciding, Recording
<1> QED
  BY <1>1, <1>6, InFlightOwn

LEMMA ValidateRequestOwn ==
    ASSUME TypeOK, NEW a \in Attempts, ExecutionInv(a), ValidateRequest(a)
    PROVE  ExecutionInv(a)' /\ AnswerInv(a)'
<1>1. workflow[a] = FreshWorkflow
  BY DEF ExecutionInv, ValidateRequest
<1>2. CASE /\ request[a].flaws = {}
           /\ Advance(a, "ValidateRequest", "ResolveIdempotency")
           /\ UNCHANGED workflow
  <2>1. pc'[a] = "ResolveIdempotency" /\ request'[a] = request[a]
    BY <1>2, AdvanceLocal
  <2> QED
    BY <1>1, <1>2, <2>1, InFlightOwn
       DEF ExecutionInv, FreshWorkflow, Deciding, Recording
<1>3. CASE /\ request[a].flaws # {}
           /\ FailAt(a, "ValidateRequest", FirstFlaw(request[a]), FALSE, FALSE, {})
  <2> DEFINE code == FirstFlaw(request[a])
  <2>1. code \in ValidationCodes
    BY <1>3, RequestFields, FirstFlawIsFlaw, TypeOKParts
  <2>2. /\ pc'[a] = "answered"
        /\ request'[a] = request[a]
        /\ answer'[a].code = code
    <3> HIDE DEF code
    <3>1. FailAt(a, "ValidateRequest", code, FALSE, FALSE, {})
      BY <1>3 DEF code
    <3> QED
      BY <3>1, FailAtLocal
  <2>3. code \notin {"none", "ok"} \cup BusinessCodes \cup ConflictCodes
    BY <2>1 DEF ValidationCodes, ValidationOrder, BusinessCodes, ConflictCodes
  <2>4. AnswerInv(a)'
    BY <1>3, <2>2, <2>3 DEF AnswerInv
  <2> QED
    BY <2>2, <2>4, AnsweredOwn
<1> QED
  BY <1>2, <1>3 DEF ValidateRequest

LEMMA ResolveIdempotencyOwn ==
    ASSUME TypeOK, NEW a \in Attempts, ExecutionInv(a), ResolveIdempotency(a)
    PROVE  ExecutionInv(a)' /\ AnswerInv(a)'
<1>1. /\ workflow[a] = FreshWorkflow
      /\ request[a].flaws = {}
      /\ decisions' = decisions
  BY DEF ExecutionInv, ResolveIdempotency, InFlight, Transitions, storeVars
<1>2. CASE \E d \in Find(request[a].key) :
             /\ d.request = request[a]
             /\ workflow' = [workflow EXCEPT ![a].replayed = TRUE,
                                             ![a].result = d.outcome]
             /\ Advance(a, "ResolveIdempotency", "ScreenPolicy")
  <2>1. PICK d \in decisions :
             /\ d.request = request[a]
             /\ workflow' = [workflow EXCEPT ![a].replayed = TRUE,
                                             ![a].result = d.outcome]
    BY <1>2 DEF Find
  <2>2. pc'[a] = "ScreenPolicy" /\ request'[a] = request[a]
    BY <1>2, AdvanceLocal
  <2>3. workflow'[a].replayed = TRUE /\ workflow'[a].result = d.outcome
    BY <2>1 DEF TypeOK, WorkflowState
  <2>4. d = [request |-> request[a], outcome |-> d.outcome]
    BY <2>1 DEF TypeOK, StoreTypeOK, Decision
  <2>5. (ResultRow(a) \in decisions)'
    BY <1>1, <2>2, <2>3, <2>4 DEF ResultRow
  <2> QED
    BY <1>1, <2>2, <2>3, <2>5, InFlightOwn DEF ExecutionInv, Deciding, Recording
<1>3. CASE /\ Advance(a, "ResolveIdempotency", "ScreenPolicy")
           /\ UNCHANGED workflow
  <2>1. pc'[a] = "ScreenPolicy" /\ request'[a] = request[a]
    BY <1>3, AdvanceLocal
  <2> QED
    BY <1>1, <1>3, <2>1, InFlightOwn
       DEF ExecutionInv, FreshWorkflow, Deciding, Recording
<1>4. CASE /\ \E d \in Find(request[a].key) : d.request # request[a]
           /\ FailAt(a, "ResolveIdempotency", "idempotency_key_conflict",
                     FALSE, FALSE, {})
  <2>1. /\ pc'[a] = "answered"
        /\ request'[a] = request[a]
        /\ answer'[a].code = "idempotency_key_conflict"
    BY <1>4, FailAtLocal
  <2>2. Conflicting(a)'
    BY <1>1, <1>4, <2>1 DEF Conflicting, Find
  <2>3. AnswerInv(a)'
    BY <2>1, <2>2
       DEF AnswerInv, ValidationCodes, ValidationOrder, BusinessCodes, ConflictCodes
  <2> QED
    BY <2>1, <2>3, AnsweredOwn
<1>5. CASE FailAt(a, "ResolveIdempotency", "idempotency_lookup_failed",
                  TRUE, TRUE, {})
  <2>1. /\ pc'[a] = "answered"
        /\ answer'[a].code = "idempotency_lookup_failed"
    BY <1>5, FailAtLocal
  <2>2. AnswerInv(a)'
    BY <2>1
       DEF AnswerInv, ValidationCodes, ValidationOrder, BusinessCodes, ConflictCodes
  <2> QED
    BY <2>1, <2>2, AnsweredOwn
<1> QED
  BY <1>2, <1>3, <1>4, <1>5 DEF ResolveIdempotency

LEMMA ScreenPolicyOwn ==
    ASSUME TypeOK, NEW a \in Attempts, ExecutionInv(a), ScreenPolicy(a)
    PROVE  ExecutionInv(a)' /\ AnswerInv(a)'
<1>1. /\ request[a].flaws = {}
      /\ decisions' = decisions
      /\ workflow[a].replayed => ResultRow(a) \in decisions
  BY DEF ExecutionInv, ScreenPolicy, InFlight, Transitions, storeVars
<1>2. pc'[a] = "ReserveInventory" /\ request'[a] = request[a]
  BY AdvanceLocal DEF ScreenPolicy
<1>3. /\ workflow'[a].replayed = workflow[a].replayed
      /\ workflow'[a].result = IF workflow[a].replayed
                                 THEN workflow[a].result
                                 ELSE PolicyResult(request[a])
  BY DEF TypeOK, WorkflowState, ScreenPolicy
<1>4. workflow'[a].replayed => (ResultRow(a) \in decisions)'
  BY <1>1, <1>2, <1>3 DEF ResultRow
<1> QED
  BY <1>1, <1>2, <1>3, <1>4, InFlightOwn DEF ExecutionInv, Deciding, Recording

\* an execution that advances without applying an effect
LEMMA SkipEffectOwn ==
    ASSUME TypeOK, NEW a \in Attempts, ExecutionInv(a), ~NeedsEffects(a),
           UNCHANGED <<workflow, decisions>>,
           \/ /\ pc[a] = "ReserveInventory"
              /\ Advance(a, "ReserveInventory", "AuthorizePayment")
           \/ /\ pc[a] = "AuthorizePayment"
              /\ Advance(a, "AuthorizePayment", "RecordDecision")
    PROVE  ExecutionInv(a)' /\ AnswerInv(a)'
<1>1. /\ pc'[a] \in {"AuthorizePayment", "RecordDecision"}
      /\ request'[a] = request[a]
      /\ workflow'[a] = workflow[a]
  BY AdvanceLocal
<1>2. /\ request[a].flaws = {}
      /\ workflow[a].replayed => ResultRow(a) \in decisions
      /\ ~workflow[a].replayed => workflow[a].result = PolicyResult(request[a])
  BY DEF ExecutionInv, InFlight, Transitions, Deciding
<1>3. workflow'[a].replayed => (ResultRow(a) \in decisions)'
  BY <1>1, <1>2 DEF ResultRow
<1>4. ~NeedsEffects(a)'
  BY <1>1 DEF NeedsEffects
<1> QED
  BY <1>1, <1>2, <1>3, <1>4, InFlightOwn DEF ExecutionInv, Deciding, Recording

LEMMA ReserveInventoryOwn ==
    ASSUME TypeOK, NEW a \in Attempts, ExecutionInv(a), ReserveInventory(a)
    PROVE  ExecutionInv(a)' /\ AnswerInv(a)'
<1>1. decisions' = decisions /\ pc[a] = "ReserveInventory"
  BY DEF ReserveInventory, storeVars
<1>2. CASE /\ ~NeedsEffects(a)
           /\ Advance(a, "ReserveInventory", "AuthorizePayment")
           /\ UNCHANGED workflow
  BY <1>1, <1>2, SkipEffectOwn
<1>3. CASE /\ request[a].fixture = "out_of_stock"
           /\ FailAt(a, "ReserveInventory", "inventory_out_of_stock",
                     FALSE, FALSE, {})
  <2>1. /\ pc'[a] = "answered"
        /\ request'[a] = request[a]
        /\ answer'[a].code = "inventory_out_of_stock"
    BY <1>3, FailAtLocal
  <2>2. AnswerInv(a)'
    BY <1>3, <2>1
       DEF AnswerInv, ValidationCodes, ValidationOrder, BusinessCodes, ConflictCodes
  <2> QED
    BY <2>1, <2>2, AnsweredOwn
<1>4. CASE /\ NeedsEffects(a)
           /\ request[a].fixture # "out_of_stock"
           /\ workflow' = [workflow EXCEPT ![a].reservation = TRUE]
           /\ Advance(a, "ReserveInventory", "AuthorizePayment")
  <2>1. /\ pc'[a] = "AuthorizePayment"
        /\ request'[a] = request[a]
    BY <1>4, AdvanceLocal
  <2>2. /\ workflow'[a].reservation
        /\ workflow'[a].replayed = workflow[a].replayed
        /\ workflow'[a].result = workflow[a].result
    BY <1>4 DEF TypeOK, WorkflowState
  <2>3. /\ request[a].flaws = {}
        /\ ~workflow[a].replayed
        /\ workflow[a].result = PolicyResult(request[a])
    BY <1>1, <1>4 DEF ExecutionInv, InFlight, Transitions, Deciding, NeedsEffects
  <2> QED
    BY <1>4, <2>1, <2>2, <2>3, InFlightOwn DEF ExecutionInv, Deciding, Recording
<1> QED
  BY <1>2, <1>3, <1>4 DEF ReserveInventory

\* after a compensation the fault is what is left to return
LEMMA UndoOwn ==
    ASSUME TypeOK, NEW a \in Attempts, NEW void, NEW release,
           ExecutionInv(a), pc[a] \in InFlight \ {"ValidateRequest"},
           Undo(a, void, release), decisions' = decisions,
           pending'[a] \in ConflictCodes => Conflicting(a),
           pending'[a] = "payment_declined" =>
             request[a].fixture = "payment_declined"
    PROVE  ExecutionInv(a)' /\ AnswerInv(a)'
<1>1. /\ pc'[a] = "ReturnFault"
      /\ request'[a] = request[a]
  BY DEF TypeOK, Undo, Goto
<1>2. /\ workflow'[a].replayed = workflow[a].replayed
      /\ workflow'[a].result = workflow[a].result
  BY DEF TypeOK, WorkflowState, Undo
<1>3. Conflicting(a) => Conflicting(a)'
  BY <1>1 DEF Conflicting, Find
<1>4. ResultRow(a) \in decisions => (ResultRow(a) \in decisions)'
  BY <1>1, <1>2 DEF ResultRow
<1>5. ExecutionInv(a)'
  BY <1>1, <1>2, <1>3, <1>4 DEF ExecutionInv, Deciding, Recording
<1> QED
  BY <1>1, <1>5, InFlightOwn

LEMMA AuthorizePaymentOwn ==
    ASSUME TypeOK, NEW a \in Attempts, ExecutionInv(a), AuthorizePayment(a)
    PROVE  ExecutionInv(a)' /\ AnswerInv(a)'
<1>1. decisions' = decisions /\ pc[a] = "AuthorizePayment"
  BY DEF AuthorizePayment, storeVars
<1>2. CASE /\ ~NeedsEffects(a)
           /\ Advance(a, "AuthorizePayment", "RecordDecision")
           /\ UNCHANGED workflow
  BY <1>1, <1>2, SkipEffectOwn
<1>3. CASE /\ request[a].fixture = "payment_declined"
           /\ Undo(a, FALSE, workflow[a].reservation)
           /\ pending' = [pending EXCEPT ![a] = "payment_declined"]
  <2>1. pending'[a] = "payment_declined"
    BY <1>3 DEF TypeOK
  <2> QED
    BY <1>1, <1>3, <2>1, UndoOwn DEF ConflictCodes, InFlight, Transitions
<1>4. CASE /\ NeedsEffects(a)
           /\ request[a].fixture # "payment_declined"
           /\ workflow' = [workflow EXCEPT ![a].payment = TRUE]
           /\ Advance(a, "AuthorizePayment", "RecordDecision")
  <2>1. /\ pc'[a] = "RecordDecision"
        /\ request'[a] = request[a]
    BY <1>4, AdvanceLocal
  <2>2. /\ workflow'[a].payment
        /\ workflow'[a].reservation = workflow[a].reservation
        /\ workflow'[a].replayed = workflow[a].replayed
        /\ workflow'[a].result = workflow[a].result
    BY <1>4 DEF TypeOK, WorkflowState
  <2>3. /\ request[a].flaws = {}
        /\ ~workflow[a].replayed
        /\ workflow[a].result = PolicyResult(request[a])
        /\ workflow[a].reservation
        /\ request[a].fixture # "out_of_stock"
    BY <1>1, <1>4 DEF ExecutionInv, InFlight, Transitions, Deciding, NeedsEffects
  <2> QED
    BY <1>4, <2>1, <2>2, <2>3, InFlightOwn DEF ExecutionInv, Deciding, Recording
<1> QED
  BY <1>2, <1>3, <1>4 DEF AuthorizePayment

LEMMA RecordDecisionOwn ==
    ASSUME TypeOK, NEW a \in Attempts, ExecutionInv(a), RecordDecision(a)
    PROVE  ExecutionInv(a)' /\ AnswerInv(a)'
<1>1. pc[a] = "RecordDecision" /\ decisions \subseteq decisions'
  BY DEF RecordDecision, RecordReplayed, RecordWriteFailure,
         RecordDefiniteFailure, RecordInserted, RecordCommitLost,
         RecordExisting, Writes, CallsStore, Insert, LeaveUnsettled, storeVars
<1>2. ASSUME NEW code, RecordFails(a, code),
             code \in ConflictCodes => Conflicting(a)
      PROVE  ExecutionInv(a)' /\ AnswerInv(a)'
  BY <1>1, <1>2, SuspendOwn DEF RecordFails
<1>3. ASSUME NEW code \in UnknownCodes, RecordUnknown(a, code)
      PROVE  ExecutionInv(a)' /\ AnswerInv(a)'
  <2>1. code \notin ConflictCodes
    BY DEF UnknownCodes, ConflictPathCodes, ConflictCodes, CommitLost
  <2> QED
    BY <1>1, <1>3, <2>1, SuspendOwn DEF RecordUnknown
<1>4. ASSUME NEW outcome, Recorded(a, outcome, EnteredNext),
             [request |-> request[a], outcome |-> outcome] \in decisions'
      PROVE  ExecutionInv(a)' /\ AnswerInv(a)'
  BY <1>1, <1>4, RecordedOwn
<1>5. CASE RecordReplayed(a)
  <2>1. /\ pc'[a] = "CompleteAuthorization"
        /\ request'[a] = request[a]
        /\ workflow'[a] = workflow[a]
    BY <1>5, AdvanceLocal DEF RecordReplayed
  <2>2. request[a].flaws = {} /\ ResultRow(a) \in decisions
    BY <1>1, <1>5 DEF ExecutionInv, RecordReplayed, InFlight, Transitions
  <2>3. (ResultRow(a) \in decisions)'
    BY <1>1, <2>1, <2>2 DEF ResultRow
  <2> QED
    BY <2>1, <2>2, <2>3, InFlightOwn DEF ExecutionInv, Deciding, Recording
<1>6. CASE RecordWriteFailure(a)
  BY <1>2, <1>6 DEF RecordWriteFailure, ConflictCodes
<1>7. CASE RecordDefiniteFailure(a)
  BY <1>2, <1>7 DEF RecordDefiniteFailure, DefiniteCodes, ConflictCodes
<1>8. CASE RecordInserted(a)
  <2>1. DecisionOf(a) = [request |-> request[a], outcome |-> DecisionOf(a).outcome]
    BY DEF DecisionOf
  <2>2. DecisionOf(a) \in decisions'
    BY <1>8 DEF RecordInserted, Insert
  <2> QED
    BY <1>3, <1>4, <1>8, <2>1, <2>2 DEF RecordInserted, UnknownCodes
<1>9. CASE RecordCommitLost(a)
  BY <1>3, <1>9 DEF RecordCommitLost, UnknownCodes
<1>10. CASE RecordExisting(a)
  <2>1. CASE \E d \in Find(request[a].key) :
               /\ d.request = request[a]
               /\ Recorded(a, d.outcome, EnteredNext)
    <3>1. PICK d \in Find(request[a].key) :
               /\ d.request = request[a]
               /\ Recorded(a, d.outcome, EnteredNext)
      BY <2>1
    <3>2. d = [request |-> request[a], outcome |-> d.outcome]
      BY <3>1 DEF TypeOK, StoreTypeOK, Decision, Find
    <3> QED
      BY <1>1, <1>4, <3>1, <3>2 DEF Find
  <2>2. CASE /\ \E d \in Find(request[a].key) : d.request # request[a]
             /\ RecordFails(a, "idempotency_key_conflict")
    BY <1>2, <2>2 DEF Conflicting
  <2>3. CASE \E code \in StoreFaults \cap ConflictPathCodes : RecordUnknown(a, code)
    BY <1>3, <2>3 DEF UnknownCodes
  <2> QED
    BY <1>10, <2>1, <2>2, <2>3 DEF RecordExisting
<1> QED
  BY <1>5, <1>6, <1>7, <1>8, <1>9, <1>10 DEF RecordDecision

LEMMA ReconcileOwn ==
    ASSUME TypeOK, NEW a \in Attempts, ExecutionInv(a), Reconcile(a)
    PROVE  ExecutionInv(a)' /\ AnswerInv(a)'
<1>1. pc[a] = "Reconcile" /\ decisions' = decisions
  BY DEF Reconcile, storeVars
<1>2. CASE \E d \in Find(request[a].key) :
             /\ d.request = request[a]
             /\ Recorded(a, d.outcome, << <<"RecordDecision", "next">> >>)
  <2>1. PICK d \in Find(request[a].key) :
             /\ d.request = request[a]
             /\ Recorded(a, d.outcome, << <<"RecordDecision", "next">> >>)
    BY <1>2
  <2>2. d = [request |-> request[a], outcome |-> d.outcome]
    BY <2>1 DEF TypeOK, StoreTypeOK, Decision, Find
  <2> QED
    BY <1>1, <2>1, <2>2, RecordedOwn DEF Find
<1>3. CASE /\ \E d \in Find(request[a].key) : d.request # request[a]
           /\ Suspend(a, "Compensate", "decision_reconciliation_conflict", <<>>)
  BY <1>1, <1>3, SuspendOwn DEF Conflicting
<1>4. CASE Suspend(a, "Compensate", Absent, <<>>)
  BY <1>1, <1>4, SuspendOwn DEF Absent, ConflictCodes
<1>5. CASE /\ Goto(a, "answered")
           /\ answer' = [answer EXCEPT ![a] =
                           Fault(pending[a], "RecordDecision", TRUE, TRUE, {})]
  <2>1. pc'[a] = "answered" /\ answer'[a].code = pending[a]
    BY <1>5 DEF TypeOK, Goto, Fault
  <2>2. pending[a] \in UnknownCodes
    BY <1>1 DEF ExecutionInv
  <2>3. AnswerInv(a)'
    BY <2>1, <2>2
       DEF AnswerInv, UnknownCodes, ConflictPathCodes, CommitLost,
           ValidationCodes, ValidationOrder, BusinessCodes, ConflictCodes
  <2> QED
    BY <2>1, <2>3, AnsweredOwn
<1> QED
  BY <1>2, <1>3, <1>4, <1>5 DEF Reconcile

LEMMA CompensateDecisionOwn ==
    ASSUME TypeOK, NEW a \in Attempts, ExecutionInv(a), CompensateDecision(a),
           pending[a] \in RecordCodes
    PROVE  ExecutionInv(a)' /\ AnswerInv(a)'
<1>1. /\ pc[a] \in InFlight \ {"ValidateRequest"}
      /\ decisions' = decisions
      /\ Undo(a, workflow[a].payment, workflow[a].reservation)
  BY DEF CompensateDecision, InFlight, storeVars
<1>2. pending'[a] \in ConflictCodes => Conflicting(a)
  BY DEF ExecutionInv, CompensateDecision
<1>3. pending'[a] # "payment_declined"
  BY DEF CompensateDecision, RecordCodes, DefiniteCodes, ConflictPathCodes,
         ConflictCodes, CommitLost, Absent
<1> QED
  BY <1>1, <1>2, <1>3, UndoOwn

LEMMA ReturnFaultOwn ==
    ASSUME TypeOK, NEW a \in Attempts, ExecutionInv(a), ReturnFault(a),
           pending[a] \in RecordCodes \cup {"payment_declined"}
    PROVE  ExecutionInv(a)' /\ AnswerInv(a)'
<1>1. /\ pc'[a] = "answered"
      /\ request'[a] = request[a]
      /\ answer'[a].code = pending[a]
      /\ decisions' = decisions
  BY DEF TypeOK, ReturnFault, Goto, Fault, storeVars
<1>2. /\ pending[a] \in ConflictCodes => Conflicting(a)'
      /\ pending[a] = "payment_declined" => request[a].fixture = "payment_declined"
  BY <1>1 DEF ExecutionInv, ReturnFault, Conflicting, Find
<1>3. /\ pending[a] \notin {"none", "ok"} \cup ValidationCodes
      /\ pending[a] \in BusinessCodes => pending[a] = "payment_declined"
  BY DEF RecordCodes, DefiniteCodes, ConflictPathCodes, ConflictCodes, CommitLost,
         Absent, ValidationCodes, ValidationOrder, BusinessCodes
<1>4. AnswerInv(a)'
  BY <1>1, <1>2, <1>3 DEF AnswerInv
<1> QED
  BY <1>1, <1>4, AnsweredOwn

LEMMA CompleteAuthorizationOwn ==
    ASSUME TypeOK, NEW a \in Attempts, ExecutionInv(a), CompleteAuthorization(a)
    PROVE  ExecutionInv(a)' /\ AnswerInv(a)'
<1>1. /\ pc'[a] = "answered"
      /\ request'[a] = request[a]
      /\ answer'[a].code = "ok"
      /\ answer'[a].outcome = workflow[a].result
      /\ decisions' = decisions
  BY DEF TypeOK, CompleteAuthorization, Goto, Success, storeVars
<1>2. ResultRow(a) \in decisions
  BY DEF ExecutionInv, CompleteAuthorization
<1>3. AnswerInv(a)'
  BY <1>1, <1>2
     DEF AnswerInv, ResultRow, ValidationCodes, ValidationOrder, BusinessCodes,
         ConflictCodes
<1> QED
  BY <1>1, <1>3, AnsweredOwn

LEMMA StepOwn ==
    ASSUME TypeInv, NEW a \in Attempts, ExecutionInv(a), Step(a)
    PROVE  ExecutionInv(a)' /\ AnswerInv(a)'
<1>1. /\ TypeOK
      /\ pc[a] = "Compensate" => pending[a] \in RecordCodes
      /\ pc[a] = "ReturnFault" => pending[a] \in RecordCodes \cup {"payment_declined"}
  BY DEF TypeInv, PendingIsSet
<1>2. CASE Arrive(a)
  <2>1. /\ pc[a] = "idle"
        /\ pc'[a] = "ValidateRequest"
        /\ workflow'[a] = workflow[a]
    BY <1>1, <1>2 DEF TypeOK, Arrive, Goto
  <2> QED
    BY <2>1, InFlightOwn
       DEF ExecutionInv, FreshWorkflow, Deciding, Recording, InFlight, Transitions
<1>3. CASE Drop(a) \/ AbandonCommit(a)
  <2>1. pc'[a] = "dropped"
    BY <1>1, <1>3 DEF TypeOK, Drop, AbandonCommit, Goto
  <2> QED
    BY <2>1, InFlightOwn DEF ExecutionInv, Deciding, Recording, InFlight, Transitions
<1>4. CASE \/ ValidateRequest(a) \/ ResolveIdempotency(a) \/ ScreenPolicy(a)
           \/ ReserveInventory(a) \/ AuthorizePayment(a)
  BY <1>1, <1>4, ValidateRequestOwn, ResolveIdempotencyOwn, ScreenPolicyOwn,
     ReserveInventoryOwn, AuthorizePaymentOwn
<1>5. CASE RecordDecision(a) \/ Reconcile(a) \/ CompleteAuthorization(a)
  BY <1>1, <1>5, RecordDecisionOwn, ReconcileOwn, CompleteAuthorizationOwn
<1>6. CASE CompensateDecision(a)
  BY <1>1, <1>6, CompensateDecisionOwn DEF CompensateDecision
<1>7. CASE ReturnFault(a)
  BY <1>1, <1>7, ReturnFaultOwn DEF ReturnFault
<1> QED
  BY <1>2, <1>3, <1>4, <1>5, <1>6, <1>7 DEF Step, Run

(***************************************************************************)
(* What a step of an execution does to the store: nothing, or one row with *)
(* its own decision under a free key.                                      *)
(***************************************************************************)
LEMMA StepRows ==
    ASSUME NEW a \in Attempts, Step(a)
    PROVE  /\ decisions \subseteq decisions'
           /\ \/ Rows' = Rows
              \/ /\ Writes(a) /\ KeyFree(a)
                 /\ Rows' = Rows \cup {DecisionOf(a)}
<1>1. ASSUME UNCHANGED storeVars
      PROVE  decisions \subseteq decisions' /\ Rows' = Rows
  BY <1>1 DEF storeVars, Rows
<1>2. CASE \/ Arrive(a) \/ Drop(a) \/ ValidateRequest(a) \/ ResolveIdempotency(a)
           \/ ScreenPolicy(a) \/ ReserveInventory(a) \/ AuthorizePayment(a)
           \/ Reconcile(a) \/ CompensateDecision(a) \/ ReturnFault(a)
           \/ CompleteAuthorization(a)
  BY <1>1, <1>2
     DEF Arrive, Drop, ValidateRequest, ResolveIdempotency, ScreenPolicy,
         ReserveInventory, AuthorizePayment, Reconcile, CompensateDecision,
         ReturnFault, CompleteAuthorization
<1>3. CASE \/ RecordReplayed(a) \/ RecordWriteFailure(a)
           \/ RecordDefiniteFailure(a) \/ RecordExisting(a)
  BY <1>1, <1>3
     DEF RecordReplayed, RecordWriteFailure, RecordDefiniteFailure, RecordExisting
<1>4. CASE RecordInserted(a)
  BY <1>4 DEF RecordInserted, Insert, Rows
<1>5. CASE RecordCommitLost(a) \/ AbandonCommit(a)
  BY <1>5 DEF RecordCommitLost, AbandonCommit, LeaveUnsettled, Rows
<1> QED
  BY <1>2, <1>3, <1>4, <1>5 DEF Step, Run, RecordDecision

LEMMA StepKeepsVerdicts ==
    ASSUME TypeOK, NEW a \in Attempts, Step(a), RowsAreVerdicts, ExecutionInv(a)
    PROVE  RowsAreVerdicts'
<1>1. CASE Rows' = Rows
  BY <1>1, NoNewRow
<1>2. CASE /\ Writes(a) /\ KeyFree(a)
           /\ Rows' = Rows \cup {DecisionOf(a)}
  <2>1. /\ Eligible(DecisionOf(a).request)
        /\ DecisionOf(a).outcome = WorkflowVerdict(DecisionOf(a).request)
        /\ DecisionOf(a).request = request[a]
    BY <1>2, DecisionIsVerdict
  <2>2. \A e \in Rows : e.request.key # DecisionOf(a).request.key
    BY <1>2, <2>1, KeyFreeRows
  <2> QED
    BY <1>2, <2>1, <2>2, NewRow
<1> QED
  BY <1>1, <1>2, StepRows

LEMMA SettleKeepsDurable ==
    ASSUME TypeOK, DurableInv, Settle
    PROVE  DurableInv'
<1>1. decisions \subseteq decisions' /\ Rows' \subseteq Rows
  BY DEF Settle, SettleCommit, SettleAbort, Rows
<1>2. RowsAreVerdicts'
  BY <1>1, NoNewRow DEF DurableInv
<1>3. \A b \in Attempts : Same(b)
  BY DEF Settle, attemptVars, Same
<1> QED
  BY <1>1, <1>2, <1>3, OtherExecutions DEF DurableInv

LEMMA RestartKeepsDurable ==
    ASSUME TypeOK, DurableInv, Restart
    PROVE  DurableInv'
<1>1. UNCHANGED <<decisions, unsettled, request, answer>>
  BY DEF Restart, storeVars
<1>2. RowsAreVerdicts'
  BY <1>1 DEF DurableInv, RowsAreVerdicts, Rows
<1>3. ASSUME NEW b \in Attempts
      PROVE  ExecutionInv(b)' /\ AnswerInv(b)'
  <2>1. /\ pc'[b] = IF pc[b] \in InFlight THEN "dropped" ELSE pc[b]
        /\ workflow'[b] = FreshWorkflow
    BY DEF Restart
  <2>2. pc'[b] \in {"idle", "answered", "dropped"}
    BY <2>1 DEF TypeOK
  <2>3. ExecutionInv(b)'
    BY <2>1, <2>2 DEF ExecutionInv, Deciding, Recording, InFlight, Transitions
  <2>4. pc'[b] = "answered" => pc[b] = "answered"
    BY <2>1
  <2>5. AnswerInv(b)'
    BY <1>1, <2>4 DEF DurableInv, AnswerInv, Conflicting, Find
  <2> QED
    BY <2>3, <2>5
<1> QED
  BY <1>2, <1>3 DEF DurableInv

-----------------------------------------------------------------------------
LEMMA DurableInit == Init => DurableInv
<1> SUFFICES ASSUME Init PROVE DurableInv
  OBVIOUS
<1>1. RowsAreVerdicts
  BY DEF Init, StoreInit, RowsAreVerdicts, Rows
<1>2. \A a \in Attempts : pc[a] = "idle" /\ workflow[a] = FreshWorkflow
  BY DEF Init
<1>3. \A a \in Attempts : ExecutionInv(a) /\ AnswerInv(a)
  BY <1>2 DEF ExecutionInv, AnswerInv, Deciding, Recording, InFlight, Transitions
<1> QED
  BY <1>1, <1>3 DEF DurableInv

LEMMA DurableStep == TypeInv /\ DurableInv /\ [Next]_vars => DurableInv'
<1> SUFFICES ASSUME TypeInv, DurableInv, [Next]_vars PROVE DurableInv'
  OBVIOUS
<1>1. TypeOK
  BY DEF TypeInv
<1>2. ASSUME NEW a \in Attempts, Step(a) PROVE DurableInv'
  <2>1. RowsAreVerdicts'
    BY <1>1, <1>2, StepKeepsVerdicts DEF DurableInv
  <2>2. ExecutionInv(a)' /\ AnswerInv(a)'
    BY <1>2, StepOwn DEF DurableInv
  <2>3. \A b \in Attempts \ {a} : ExecutionInv(b)' /\ AnswerInv(b)'
    BY <1>1, <1>2, StepIsLocal, StepRows, OtherExecutions DEF DurableInv
  <2> QED
    BY <2>1, <2>2, <2>3 DEF DurableInv
<1>3. CASE UNCHANGED vars
  <2>1. \A b \in Attempts : Same(b)
    BY <1>3 DEF vars, attemptVars, Same
  <2>2. RowsAreVerdicts' /\ decisions \subseteq decisions'
    BY <1>3 DEF vars, storeVars, DurableInv, RowsAreVerdicts, Rows
  <2> QED
    BY <2>1, <2>2, OtherExecutions DEF DurableInv
<1> QED
  BY <1>1, <1>2, <1>3, SettleKeepsDurable, RestartKeepsDurable
     DEF Next, Proceed, Step, Quiescent

(***************************************************************************)
(* The inductive invariant of this module.                                 *)
(***************************************************************************)
THEOREM DurableInvariance == Spec => []DurableInv
<1>1. Spec => Init /\ [][Next]_vars
  BY DEF Spec
<1> QED
  BY <1>1, DurableInit, DurableStep, TypeCorrectness, PTL

(***************************************************************************)
(* An "ok" answer names a durable decision, for ever.                      *)
(***************************************************************************)
THEOREM OkAnswersAreDurable == Spec => []AnsweredIsDurable
<1>1. DurableInv => AnsweredIsDurable
  BY DEF DurableInv, AnswerInv, AnsweredIsDurable, Answered
<1> QED
  BY <1>1, DurableInvariance, PTL

LEMMA FinalFaults == TypeOK /\ DurableInv => ClientFaultIsFinal
<1> SUFFICES ASSUME TypeOK, DurableInv, NEW a \in Attempts, Answered(a),
                    Status(answer[a]) \in 400..499
             PROVE  /\ \A d \in decisions : d.request # request[a]
                    /\ Status(answer[a]) = 409 => Find(request[a].key) # {}
  BY DEF ClientFaultIsFinal
<1>1. AnswerInv(a) /\ pc[a] = "answered"
  BY DEF DurableInv, Answered
<1>2. answer[a].code \in FaultCodes \cup {"ok"}
  BY <1>1 DEF TypeOK, Answer, AnswerInv
<1>3. /\ answer[a].code \in BadRequestCodes \cup BusinessCodes \cup ConflictCodes
      /\ Status(answer[a]) = 409 => answer[a].code \in ConflictCodes
  BY DEF Status, SuccessStatus, FaultStatus
<1>4. answer[a].code # "request_json_invalid"
  BY <1>2
     DEF FaultCodes, RecordCodes, DefiniteCodes, ConflictPathCodes, ConflictCodes,
         CommitLost, Absent, ValidationCodes, ValidationOrder, BusinessCodes
<1>5. \A d \in decisions : Eligible(d.request)
  BY DEF DurableInv, RowsAreVerdicts, Rows
<1>6. CASE answer[a].code \in ConflictCodes
  <2>1. PICK e \in Find(request[a].key) : e.request # request[a]
    BY <1>1, <1>6 DEF AnswerInv, Conflicting
  <2>2. \A d \in decisions : d.request.key = request[a].key => d = e
    BY <2>1 DEF DurableInv, RowsAreVerdicts, Rows, Find
  <2> QED
    BY <2>1, <2>2
<1>7. CASE answer[a].code \in ValidationCodes \cup BusinessCodes
  <2>1. ~Eligible(request[a])
    BY <1>1, <1>7 DEF AnswerInv, Eligible
  <2>2. answer[a].code \notin ConflictCodes
    BY <1>7 DEF ValidationCodes, ValidationOrder, BusinessCodes, ConflictCodes
  <2> QED
    BY <1>3, <1>5, <2>1, <2>2
<1> QED
  BY <1>3, <1>4, <1>6, <1>7 DEF BadRequestCodes

(***************************************************************************)
(* A request that was refused with a 4xx is never decided.                 *)
(***************************************************************************)
THEOREM ClientFaultsAreFinal == Spec => []ClientFaultIsFinal
BY FinalFaults, DurableInvariance, TypesAreCorrect, PTL

(***************************************************************************)
(* The two "workflow_state_invalid" returns of RecordDecision are dead.    *)
(***************************************************************************)
THEOREM InternalFaultsAreDead == Spec => []WorkflowStateIsValid
<1>1. TypeOK /\ DurableInv => WorkflowStateIsValid
  <2> SUFFICES ASSUME TypeOK, DurableInv, NEW a \in Attempts
               PROVE  /\ CallsStore(a) /\ workflow[a].result = "none" =>
                            workflow[a].reservation /\ workflow[a].payment
                      /\ pc[a] = "CompleteAuthorization" =>
                            workflow[a].result # "none"
    BY DEF WorkflowStateIsValid
  <2>1. ExecutionInv(a)
    BY DEF DurableInv
  <2>2. pc[a] = "CompleteAuthorization" => workflow[a].result # "none"
    BY <2>1 DEF ExecutionInv, ResultRow, TypeOK, StoreTypeOK, Decision, Outcomes
  <2> QED
    BY <2>1, <2>2 DEF ExecutionInv, CallsStore, NeedsEffects, Recording
<1> QED
  BY <1>1, DurableInvariance, TypesAreCorrect, PTL

-----------------------------------------------------------------------------
(***************************************************************************)
(* Answers are given once: no client has been told anything while its      *)
(* attempt is under way, or after it was dropped.                          *)
(***************************************************************************)
UntoldInv == \A a \in Attempts : pc[a] # "answered" => answer[a] = NoAnswer

\* the step of a that sends its answer
Answers(a) ==
    /\ pc[a] \in InFlight
    /\ pc'[a] = "answered"
    /\ UNCHANGED storeVars
    /\ answer' = [answer EXCEPT ![a] = answer'[a]]

LEMMA StepBegins ==
    ASSUME NEW a \in Attempts, Step(a)
    PROVE  pc[a] \notin {"answered", "dropped"}
BY DEF Step, Run, Arrive, Drop, AbandonCommit, ValidateRequest, ResolveIdempotency,
       ScreenPolicy, ReserveInventory, AuthorizePayment, RecordDecision,
       RecordReplayed, RecordWriteFailure, RecordDefiniteFailure, RecordInserted,
       RecordCommitLost, RecordExisting, Writes, CallsStore, Reconcile,
       CompensateDecision, ReturnFault, CompleteAuthorization, InFlight, Transitions

LEMMA StepAnswers ==
    ASSUME TypeOK, NEW a \in Attempts, Step(a)
    PROVE  answer' = answer \/ Answers(a)
<1>1. /\ pc \in [Attempts -> InFlight \cup {"idle", "answered", "dropped"}]
      /\ answer \in [Attempts -> Answer]
  BY DEF TypeOK
<1>2. ASSUME NEW reply, pc[a] \in InFlight, Goto(a, "answered"), UNCHANGED storeVars,
             answer' = [answer EXCEPT ![a] = reply]
      PROVE  Answers(a)
  BY <1>1, <1>2 DEF Answers, Goto
<1>3. ASSUME NEW step, NEW code, NEW retryable, NEW operator, NEW comps,
             pc[a] \in InFlight, UNCHANGED storeVars,
             FailAt(a, step, code, retryable, operator, comps)
      PROVE  Answers(a)
  BY <1>2, <1>3 DEF FailAt
<1>4. \A step, next : Advance(a, step, next) => answer' = answer
  BY DEF Advance
<1>5. CASE Arrive(a) \/ Drop(a) \/ AbandonCommit(a) \/ ScreenPolicy(a)
  BY <1>4, <1>5 DEF Arrive, Drop, AbandonCommit, ScreenPolicy
<1>6. CASE ValidateRequest(a) \/ ResolveIdempotency(a)
  BY <1>3, <1>4, <1>6 DEF ValidateRequest, ResolveIdempotency, InFlight, Transitions
<1>7. CASE ReserveInventory(a) \/ AuthorizePayment(a) \/ CompensateDecision(a)
  BY <1>3, <1>4, <1>7
     DEF ReserveInventory, AuthorizePayment, CompensateDecision, Undo, InFlight,
         Transitions
<1>8. CASE RecordDecision(a)
  BY <1>4, <1>8
     DEF RecordDecision, RecordReplayed, RecordWriteFailure, RecordDefiniteFailure,
         RecordInserted, RecordCommitLost, RecordExisting, RecordFails,
         RecordUnknown, Suspend, Recorded
<1>9. CASE Reconcile(a)
  BY <1>2, <1>9 DEF Reconcile, Suspend, Recorded, InFlight
<1>10. CASE ReturnFault(a) \/ CompleteAuthorization(a)
  BY <1>2, <1>10 DEF ReturnFault, CompleteAuthorization, InFlight, Transitions
<1> QED
  BY <1>5, <1>6, <1>7, <1>8, <1>9, <1>10 DEF Step, Run

LEMMA UntoldInit == Init => UntoldInv
BY DEF Init, UntoldInv

LEMMA UntoldStep ==
    ASSUME TypeOK, UntoldInv, [Next]_vars
    PROVE  UntoldInv'
<1>1. ASSUME NEW a \in Attempts, Step(a) PROVE UntoldInv'
  <2>1. ASSUME NEW b \in Attempts, b # a, pc'[b] # "answered"
        PROVE  answer'[b] = NoAnswer
    BY <1>1, <2>1, StepIsLocal DEF UntoldInv, Same
  <2>2. ASSUME pc'[a] # "answered"
        PROVE  answer'[a] = NoAnswer
    <3>1. answer' = answer /\ pc[a] # "answered"
      BY <1>1, <2>2, StepAnswers, StepBegins DEF Answers
    <3> QED
      BY <3>1 DEF UntoldInv
  <2> QED
    BY <2>1, <2>2 DEF UntoldInv
<1>2. CASE Restart
  BY <1>2 DEF Restart, UntoldInv, InFlight, Transitions
<1>3. CASE Settle \/ UNCHANGED vars
  BY <1>3 DEF Settle, vars, attemptVars, UntoldInv
<1> QED
  BY <1>1, <1>2, <1>3 DEF Next, Proceed, Step, Quiescent

-----------------------------------------------------------------------------
(***************************************************************************)
(* Decisions and audits: proof of OneAuditedDecisionPerKey.  Beside        *)
(* RowsAreVerdicts it needs that no row is committed and on its way at     *)
(* once: the late commit would otherwise write a second audit.             *)
(***************************************************************************)
AuditInv ==
    /\ decisions \cap unsettled = {}
    /\ \A d \in decisions : \E i \in DOMAIN audits : audits[i] = d
    /\ \A i \in DOMAIN audits : audits[i] \in decisions
    /\ \A i, j \in DOMAIN audits : audits[i] = audits[j] => i = j

(***************************************************************************)
(* Committing a row that no audit is about keeps rows and audits matched.  *)
(***************************************************************************)
LEMMA CommitKeepsAudits ==
    ASSUME StoreTypeOK, AuditInv, NEW d \in Decision, d \notin decisions,
           decisions' = decisions \cup {d}, audits' = Append(audits, d),
           decisions' \cap unsettled' = {}
    PROVE  AuditInv'
<1>1. /\ audits \in Seq(Decision)
      /\ DOMAIN audits = 1..Len(audits)
      /\ Len(audits) \in Nat
  BY DEF StoreTypeOK
<1>2. /\ DOMAIN audits' = 1..(Len(audits) + 1)
      /\ \A i \in DOMAIN audits : audits'[i] = audits[i]
      /\ audits'[Len(audits) + 1] = d
  BY <1>1
<1>3. \A i \in DOMAIN audits' : i \in DOMAIN audits \/ i = Len(audits) + 1
  BY <1>1, <1>2
<1>4. \A e \in decisions' : \E i \in DOMAIN audits' : audits'[i] = e
  <2>1. ASSUME NEW e \in decisions
        PROVE  \E i \in DOMAIN audits' : audits'[i] = e
    <3>1. PICK i \in DOMAIN audits : audits[i] = e
      BY DEF AuditInv
    <3> QED
      BY <1>1, <1>2, <3>1
  <2>2. Len(audits) + 1 \in DOMAIN audits'
    BY <1>1, <1>2
  <2> QED
    BY <1>2, <2>1, <2>2
<1>5. \A i \in DOMAIN audits' : audits'[i] \in decisions'
  BY <1>2, <1>3 DEF AuditInv
<1>6. \A i, j \in DOMAIN audits' : audits'[i] = audits'[j] => i = j
  BY <1>2, <1>3 DEF AuditInv
<1> QED
  BY <1>4, <1>5, <1>6 DEF AuditInv

(***************************************************************************)
(* What a step of an execution does to the store.                          *)
(***************************************************************************)
LEMMA StepStore ==
    ASSUME NEW a \in Attempts, Step(a)
    PROVE  \/ UNCHANGED storeVars
           \/ /\ Writes(a)
              /\ KeyFree(a)
              /\ Insert(DecisionOf(a)) \/ LeaveUnsettled(DecisionOf(a))
BY DEF Step, Run, Arrive, Drop, AbandonCommit, ValidateRequest, ResolveIdempotency,
       ScreenPolicy, ReserveInventory, AuthorizePayment, RecordDecision,
       RecordReplayed, RecordWriteFailure, RecordDefiniteFailure, RecordInserted,
       RecordCommitLost, RecordExisting, Reconcile, CompensateDecision, ReturnFault,
       CompleteAuthorization

LEMMA StepKeepsAudits ==
    ASSUME TypeOK, AuditInv, NEW a \in Attempts, Step(a)
    PROVE  AuditInv'
<1>1. CASE UNCHANGED storeVars
  BY <1>1 DEF AuditInv, storeVars
<1>2. CASE KeyFree(a) /\ (Insert(DecisionOf(a)) \/ LeaveUnsettled(DecisionOf(a)))
  <2> DEFINE d == DecisionOf(a)
  <2>1. d \notin Rows
    BY <1>2, KeyFreeRows DEF DecisionOf
  <2>2. d \in Decision /\ StoreTypeOK
    BY TypeOKParts, DecisionOfType
  <2> HIDE DEF d
  <2>3. CASE Insert(d)
    <3>1. decisions' \cap unsettled' = {}
      BY <2>1, <2>3 DEF Insert, Rows, AuditInv
    <3> QED
      BY <2>1, <2>2, <2>3, <3>1, CommitKeepsAudits DEF Insert, Rows
  <2>4. CASE LeaveUnsettled(d)
    BY <2>1, <2>4 DEF LeaveUnsettled, Rows, AuditInv
  <2> QED
    BY <1>2, <2>3, <2>4 DEF d
<1> QED
  BY <1>1, <1>2, StepStore

LEMMA SettleKeepsAudits ==
    ASSUME TypeOK, AuditInv, Settle
    PROVE  AuditInv'
<1>1. PICK d \in unsettled : SettleCommit(d) \/ SettleAbort(d)
  BY DEF Settle
<1>2. d \in Decision /\ d \notin decisions /\ StoreTypeOK
  BY DEF TypeOK, StoreTypeOK, AuditInv
<1>3. CASE SettleCommit(d)
  <2>1. decisions' \cap unsettled' = {}
    BY <1>3 DEF SettleCommit, AuditInv
  <2> QED
    BY <1>2, <1>3, <2>1, CommitKeepsAudits DEF SettleCommit
<1>4. CASE SettleAbort(d)
  BY <1>4 DEF SettleAbort, AuditInv
<1> QED
  BY <1>1, <1>3, <1>4

-----------------------------------------------------------------------------
LEMMA AuditInit == Init => AuditInv
BY DEF Init, StoreInit, AuditInv

LEMMA AuditStep == TypeOK /\ AuditInv /\ [Next]_vars => AuditInv'
<1> SUFFICES ASSUME TypeOK, AuditInv, [Next]_vars PROVE AuditInv'
  OBVIOUS
<1>1. CASE Restart \/ UNCHANGED vars
  BY <1>1 DEF Restart, vars, storeVars, AuditInv
<1> QED
  BY <1>1, StepKeepsAudits, SettleKeepsAudits DEF Next, Proceed, Step, Quiescent

(***************************************************************************)
(* Each key has at most one durable decision, and decisions and audit      *)
(* records match one to one, however late a commit lands.                  *)
(***************************************************************************)
THEOREM DecisionsAreAudited == Spec => []OneAuditedDecisionPerKey
<1>1. Spec => Init /\ [][Next]_vars
  BY DEF Spec
<1>2. DurableInv /\ AuditInv => OneAuditedDecisionPerKey
  BY DEF DurableInv, RowsAreVerdicts, Rows, AuditInv, OneAuditedDecisionPerKey
<1> QED
  BY <1>1, <1>2, AuditInit, AuditStep, TypesAreCorrect, DurableInvariance, PTL

-----------------------------------------------------------------------------
(***************************************************************************)
(* What this module's invariants say together, and what becomes of them    *)
(* when somebody else writes to the store: another service on the same     *)
(* database adds verdicts and removes none, and leaves this one's          *)
(* executions and its ledger alone.                                        *)
(***************************************************************************)
ClientInv == TypeInv /\ DurableInv /\ UntoldInv /\ AuditInv

LEMMA ClientInvInit == Init => ClientInv
BY TypeInvInit, DurableInit, UntoldInit, AuditInit DEF ClientInv

LEMMA ClientInvStep == ClientInv /\ [Next]_vars => ClientInv'
BY TypeInvStep, DurableStep, UntoldStep, AuditStep DEF ClientInv, TypeInv

LEMMA DecisionsStay ==
    ASSUME [Next]_vars
    PROVE  decisions \subseteq decisions'
<1>1. CASE Settle
  BY <1>1 DEF Settle, SettleCommit, SettleAbort
<1>2. CASE Restart \/ UNCHANGED vars
  BY <1>2 DEF Restart, vars, storeVars
<1> QED
  BY <1>1, <1>2, StepRows DEF Next, Proceed, Step, Quiescent

LEMMA Bystander ==
    ASSUME ClientInv, UNCHANGED <<attemptVars, ledgerVars>>,
           decisions \subseteq decisions', StoreTypeOK', RowsAreVerdicts', AuditInv'
    PROVE  ClientInv'
<1>1. \A b \in Attempts : Same(b)
  BY DEF attemptVars, Same
<1>2. TypeInv'
  <2>1. TypeOK'
    BY DEF ClientInv, TypeInv, TypeOK, LedgerTypeOK, attemptVars, ledgerVars
  <2> QED
    BY <2>1 DEF ClientInv, TypeInv, PendingIsSet, attemptVars
<1>3. DurableInv'
  BY <1>1, OtherExecutions DEF ClientInv, DurableInv
<1>4. UntoldInv'
  BY DEF ClientInv, UntoldInv, attemptVars
<1> QED
  BY <1>2, <1>3, <1>4 DEF ClientInv

=============================================================================
