-------------------------- MODULE TwoServicesProof --------------------------
(***************************************************************************)
(* The native and the hybrid service over one database: proofs of          *)
(* AnswersAreDurable, OneAuditedDecisionPerKey and OneRegister.            *)
(*                                                                         *)
(* Each service keeps PromisesInv by itself when it moves, and when the    *)
(* other one moves (PromisesBeside), because all that the other one does   *)
(* to the store is to add verdicts under free keys.  What each shows is a  *)
(* step of the contract of both.                                           *)
(***************************************************************************)
EXTENDS TwoServices, TLAPS

\* what is proved of one service, for each of the two
N == INSTANCE OrderAuthorizationPromises WITH
    Attempts <- NativeAttempts, request <- nRequest, pc <- nPc,
    workflow <- nWorkflow, pending <- nPending, answer <- nAnswer,
    traces <- nTraces, reservations <- nReservations, payments <- nPayments,
    events <- nEvents

H == INSTANCE OrderAuthorizationPromises WITH
    Attempts <- HybridAttempts, request <- hRequest, pc <- hPc,
    workflow <- hWorkflow, pending <- hPending, answer <- hAnswer,
    traces <- hTraces, reservations <- hReservations, payments <- hPayments,
    events <- hEvents

-----------------------------------------------------------------------------
(***************************************************************************)
(* The two services of TwoServices are those of the proofs: definition by  *)
(* definition they are the same.                                           *)
(***************************************************************************)
LEMMA NativeAssumptions ==
    N!RequestsAssumption /\ N!FailuresAssumption /\ N!StoreFaultsAssumption
<1>1. N!RequestsAssumption /\ N!FailuresAssumption
  BY ServicesAssumption
     DEF N!RequestsAssumption, N!FailuresAssumption, Native!RequestType,
         N!RequestType, Native!Fixtures, N!Fixtures, Native!ValidationCodes,
         N!ValidationCodes, Native!ValidationOrder, N!ValidationOrder
<1>2. N!StoreFaultsAssumption
  BY StoreFaultsAssumption
     DEF N!StoreFaultsAssumption, DefiniteCodes, N!DefiniteCodes, ConflictPathCodes,
         N!ConflictPathCodes, CommitLost, N!CommitLost
<1> QED
  BY <1>1, <1>2

LEMMA NativeActions ==
    ASSUME NEW a \in NativeAttempts
    PROVE  /\ Native!ValidateRequest(a) => N!ValidateRequest(a)
           /\ Native!ResolveIdempotency(a) => N!ResolveIdempotency(a)
           /\ Native!ScreenPolicy(a) => N!ScreenPolicy(a)
           /\ Native!ReserveInventory(a) => N!ReserveInventory(a)
           /\ Native!AuthorizePayment(a) => N!AuthorizePayment(a)
           /\ Native!RecordReplayed(a) => N!RecordReplayed(a)
           /\ Native!RecordWriteFailure(a) => N!RecordWriteFailure(a)
           /\ Native!RecordDefiniteFailure(a) => N!RecordDefiniteFailure(a)
           /\ Native!RecordInserted(a) => N!RecordInserted(a)
           /\ Native!RecordCommitLost(a) => N!RecordCommitLost(a)
           /\ Native!RecordExisting(a) => N!RecordExisting(a)
           /\ Native!Reconcile(a) => N!Reconcile(a)
           /\ Native!CompensateDecision(a) => N!CompensateDecision(a)
           /\ Native!ReturnFault(a) => N!ReturnFault(a)
           /\ Native!CompleteAuthorization(a) => N!CompleteAuthorization(a)
<1> USE DEF
         Native!ledgerVars, N!ledgerVars, Native!Reserve, N!Reserve,
         Native!Authorize, N!Authorize, Native!VoidEvents, N!VoidEvents,
         Native!ReleaseEvents, N!ReleaseEvents, Native!Compensate, N!Compensate,
         Native!CompensationOutcome, N!CompensationOutcome, Native!Applied,
         N!Applied, Native!CompensationOutcomes, N!CompensationOutcomes,
         Native!DefiniteCodes, N!DefiniteCodes, Native!ConflictPathCodes,
         N!ConflictPathCodes, Native!CommitLost, N!CommitLost, Native!LookupFailed,
         N!LookupFailed, Native!storeVars, N!storeVars, Native!Find, N!Find,
         Native!Locked, N!Locked, Native!Insert, N!Insert, Native!LeaveUnsettled,
         N!LeaveUnsettled, Native!ValidationOrder, N!ValidationOrder,
         Native!ConflictCodes, N!ConflictCodes, Native!BusinessCodes,
         N!BusinessCodes, Native!Absent, N!Absent, Native!Success, N!Success,
         Native!Fault, N!Fault, Native!FirstFlaw, N!FirstFlaw, Native!Trace,
         N!Trace, Native!Goto, N!Goto, Native!Advance, N!Advance, Native!FailAt,
         N!FailAt, Native!ValidateRequest, N!ValidateRequest,
         Native!ResolveIdempotency, N!ResolveIdempotency, Native!PolicyResult,
         N!PolicyResult, Native!ScreenPolicy, N!ScreenPolicy, Native!NeedsEffects,
         N!NeedsEffects, Native!ReserveInventory, N!ReserveInventory, Native!Undo,
         N!Undo, Native!AuthorizePayment, N!AuthorizePayment, Native!DecisionOf,
         N!DecisionOf, Native!Recorded, N!Recorded, Native!Suspend, N!Suspend,
         Native!Entered, N!Entered, Native!EnteredNext, N!EnteredNext,
         Native!RecordFails, N!RecordFails, Native!RecordUnknown, N!RecordUnknown,
         Native!CallsStore, N!CallsStore, Native!Writes, N!Writes, Native!KeyFree,
         N!KeyFree, Native!RecordReplayed, N!RecordReplayed,
         Native!RecordWriteFailure, N!RecordWriteFailure,
         Native!RecordDefiniteFailure, N!RecordDefiniteFailure,
         Native!RecordInserted, N!RecordInserted, Native!RecordCommitLost,
         N!RecordCommitLost, Native!RecordExisting, N!RecordExisting,
         Native!RecordDecision, N!RecordDecision, Native!Reconcile, N!Reconcile,
         Native!CompensateDecision, N!CompensateDecision, Native!ReturnFault,
         N!ReturnFault, Native!CompleteAuthorization, N!CompleteAuthorization
<1>1. Native!ValidateRequest(a) => N!ValidateRequest(a)
  OBVIOUS
<1>2. Native!ResolveIdempotency(a) => N!ResolveIdempotency(a)
  OBVIOUS
<1>3. Native!ScreenPolicy(a) => N!ScreenPolicy(a)
  OBVIOUS
<1>4. Native!ReserveInventory(a) => N!ReserveInventory(a)
  OBVIOUS
<1>5. Native!AuthorizePayment(a) => N!AuthorizePayment(a)
  OBVIOUS
<1>6. Native!RecordReplayed(a) => N!RecordReplayed(a)
  OBVIOUS
<1>7. Native!RecordWriteFailure(a) => N!RecordWriteFailure(a)
  OBVIOUS
<1>8. Native!RecordDefiniteFailure(a) => N!RecordDefiniteFailure(a)
  OBVIOUS
<1>9. Native!RecordInserted(a) => N!RecordInserted(a)
  OBVIOUS
<1>10. Native!RecordCommitLost(a) => N!RecordCommitLost(a)
  OBVIOUS
<1>11. Native!RecordExisting(a) => N!RecordExisting(a)
  OBVIOUS
<1>12. Native!Reconcile(a) => N!Reconcile(a)
  OBVIOUS
<1>13. Native!CompensateDecision(a) => N!CompensateDecision(a)
  OBVIOUS
<1>14. Native!ReturnFault(a) => N!ReturnFault(a)
  OBVIOUS
<1>15. Native!CompleteAuthorization(a) => N!CompleteAuthorization(a)
  OBVIOUS
<1> QED
  BY <1>1, <1>2, <1>3, <1>4, <1>5, <1>6, <1>7, <1>8, <1>9, <1>10, <1>11, <1>12,
     <1>13, <1>14, <1>15

LEMMA NativeRunIs ==
    ASSUME NEW a \in NativeAttempts, Native!Run(a)
    PROVE  N!Run(a)
BY NativeActions DEF Native!Run, N!Run, Native!RecordDecision, N!RecordDecision

LEMMA NativeIs ==
    /\ Native!Init => N!Init
    /\ \A a \in NativeAttempts : Native!Arrive(a) => N!Arrive(a)
    /\ \A a \in NativeAttempts : Native!Drop(a) => N!Drop(a)
    /\ \A a \in NativeAttempts : Native!AbandonCommit(a) => N!AbandonCommit(a)
    /\ Native!Restart => N!Restart
    /\ Native!Quiescent => N!Quiescent
    /\ Native!AnsweredIsDurable <=> N!AnsweredIsDurable
<1> USE DEF
         Native!ledgerVars, N!ledgerVars, Native!LedgerInit, N!LedgerInit,
         Native!Reserve, N!Reserve, Native!Authorize, N!Authorize,
         Native!VoidEvents, N!VoidEvents, Native!ReleaseEvents, N!ReleaseEvents,
         Native!Compensate, N!Compensate, Native!CompensationOutcome,
         N!CompensationOutcome, Native!Applied, N!Applied,
         Native!CompensationOutcomes, N!CompensationOutcomes, Native!DefiniteCodes,
         N!DefiniteCodes, Native!ConflictPathCodes, N!ConflictPathCodes,
         Native!CommitLost, N!CommitLost, Native!LookupFailed, N!LookupFailed,
         Native!storeVars, N!storeVars, Native!StoreInit, N!StoreInit, Native!Find,
         N!Find, Native!Locked, N!Locked, Native!Insert, N!Insert,
         Native!LeaveUnsettled, N!LeaveUnsettled, Native!ValidationOrder,
         N!ValidationOrder, Native!ConflictCodes, N!ConflictCodes,
         Native!BusinessCodes, N!BusinessCodes, Native!attemptVars, N!attemptVars,
         Native!vars, N!vars, Native!Transitions, N!Transitions, Native!InFlight,
         N!InFlight, Native!Absent, N!Absent, Native!FreshWorkflow,
         N!FreshWorkflow, Native!Success, N!Success, Native!Fault, N!Fault,
         Native!NoAnswer, N!NoAnswer, Native!FirstFlaw, N!FirstFlaw, Native!Init,
         N!Init, Native!Trace, N!Trace, Native!Goto, N!Goto, Native!Advance,
         N!Advance, Native!FailAt, N!FailAt, Native!Arrive, N!Arrive,
         Native!ValidateRequest, N!ValidateRequest, Native!ResolveIdempotency,
         N!ResolveIdempotency, Native!PolicyResult, N!PolicyResult,
         Native!ScreenPolicy, N!ScreenPolicy, Native!NeedsEffects, N!NeedsEffects,
         Native!ReserveInventory, N!ReserveInventory, Native!Undo, N!Undo,
         Native!AuthorizePayment, N!AuthorizePayment, Native!DecisionOf,
         N!DecisionOf, Native!Recorded, N!Recorded, Native!Suspend, N!Suspend,
         Native!Entered, N!Entered, Native!EnteredNext, N!EnteredNext,
         Native!RecordFails, N!RecordFails, Native!RecordUnknown, N!RecordUnknown,
         Native!CallsStore, N!CallsStore, Native!Writes, N!Writes, Native!KeyFree,
         N!KeyFree, Native!RecordReplayed, N!RecordReplayed,
         Native!RecordWriteFailure, N!RecordWriteFailure,
         Native!RecordDefiniteFailure, N!RecordDefiniteFailure,
         Native!RecordInserted, N!RecordInserted, Native!RecordCommitLost,
         N!RecordCommitLost, Native!RecordExisting, N!RecordExisting,
         Native!RecordDecision, N!RecordDecision, Native!Reconcile, N!Reconcile,
         Native!ReturnFault, N!ReturnFault, Native!CompleteAuthorization,
         N!CompleteAuthorization, Native!Drop, N!Drop, Native!AbandonCommit,
         N!AbandonCommit, Native!Restart, N!Restart, Native!Quiescent, N!Quiescent,
         Native!Answered, N!Answered, Native!AnsweredIsDurable, N!AnsweredIsDurable
<1>1. Native!Init => N!Init
  OBVIOUS
<1>2. \A a \in NativeAttempts : Native!Arrive(a) => N!Arrive(a)
  OBVIOUS
<1>3. \A a \in NativeAttempts : Native!Drop(a) => N!Drop(a)
  OBVIOUS
<1>4. \A a \in NativeAttempts : Native!AbandonCommit(a) => N!AbandonCommit(a)
  OBVIOUS
<1>5. Native!Restart => N!Restart
  OBVIOUS
<1>6. Native!Quiescent => N!Quiescent
  OBVIOUS
<1>7. Native!AnsweredIsDurable <=> N!AnsweredIsDurable
  OBVIOUS
<1> QED
  BY <1>1, <1>2, <1>3, <1>4, <1>5, <1>6, <1>7

LEMMA HybridAssumptions ==
    H!RequestsAssumption /\ H!FailuresAssumption /\ H!StoreFaultsAssumption
<1>1. H!RequestsAssumption /\ H!FailuresAssumption
  BY ServicesAssumption
     DEF H!RequestsAssumption, H!FailuresAssumption, Native!RequestType,
         H!RequestType, Native!Fixtures, H!Fixtures, Native!ValidationCodes,
         H!ValidationCodes, Native!ValidationOrder, H!ValidationOrder
<1>2. H!StoreFaultsAssumption
  BY StoreFaultsAssumption
     DEF H!StoreFaultsAssumption, DefiniteCodes, H!DefiniteCodes, ConflictPathCodes,
         H!ConflictPathCodes, CommitLost, H!CommitLost
<1> QED
  BY <1>1, <1>2

LEMMA HybridActions ==
    ASSUME NEW a \in HybridAttempts
    PROVE  /\ Hybrid!ValidateRequest(a) => H!ValidateRequest(a)
           /\ Hybrid!ResolveIdempotency(a) => H!ResolveIdempotency(a)
           /\ Hybrid!ScreenPolicy(a) => H!ScreenPolicy(a)
           /\ Hybrid!ReserveInventory(a) => H!ReserveInventory(a)
           /\ Hybrid!AuthorizePayment(a) => H!AuthorizePayment(a)
           /\ Hybrid!RecordReplayed(a) => H!RecordReplayed(a)
           /\ Hybrid!RecordWriteFailure(a) => H!RecordWriteFailure(a)
           /\ Hybrid!RecordDefiniteFailure(a) => H!RecordDefiniteFailure(a)
           /\ Hybrid!RecordInserted(a) => H!RecordInserted(a)
           /\ Hybrid!RecordCommitLost(a) => H!RecordCommitLost(a)
           /\ Hybrid!RecordExisting(a) => H!RecordExisting(a)
           /\ Hybrid!Reconcile(a) => H!Reconcile(a)
           /\ Hybrid!CompensateDecision(a) => H!CompensateDecision(a)
           /\ Hybrid!ReturnFault(a) => H!ReturnFault(a)
           /\ Hybrid!CompleteAuthorization(a) => H!CompleteAuthorization(a)
<1> USE DEF
         Hybrid!ledgerVars, H!ledgerVars, Hybrid!Reserve, H!Reserve,
         Hybrid!Authorize, H!Authorize, Hybrid!VoidEvents, H!VoidEvents,
         Hybrid!ReleaseEvents, H!ReleaseEvents, Hybrid!Compensate, H!Compensate,
         Hybrid!CompensationOutcome, H!CompensationOutcome, Hybrid!Applied,
         H!Applied, Hybrid!CompensationOutcomes, H!CompensationOutcomes,
         Hybrid!DefiniteCodes, H!DefiniteCodes, Hybrid!ConflictPathCodes,
         H!ConflictPathCodes, Hybrid!CommitLost, H!CommitLost, Hybrid!LookupFailed,
         H!LookupFailed, Hybrid!storeVars, H!storeVars, Hybrid!Find, H!Find,
         Hybrid!Locked, H!Locked, Hybrid!Insert, H!Insert, Hybrid!LeaveUnsettled,
         H!LeaveUnsettled, Hybrid!ValidationOrder, H!ValidationOrder,
         Hybrid!ConflictCodes, H!ConflictCodes, Hybrid!BusinessCodes,
         H!BusinessCodes, Hybrid!Absent, H!Absent, Hybrid!Success, H!Success,
         Hybrid!Fault, H!Fault, Hybrid!FirstFlaw, H!FirstFlaw, Hybrid!Trace,
         H!Trace, Hybrid!Goto, H!Goto, Hybrid!Advance, H!Advance, Hybrid!FailAt,
         H!FailAt, Hybrid!ValidateRequest, H!ValidateRequest,
         Hybrid!ResolveIdempotency, H!ResolveIdempotency, Hybrid!PolicyResult,
         H!PolicyResult, Hybrid!ScreenPolicy, H!ScreenPolicy, Hybrid!NeedsEffects,
         H!NeedsEffects, Hybrid!ReserveInventory, H!ReserveInventory, Hybrid!Undo,
         H!Undo, Hybrid!AuthorizePayment, H!AuthorizePayment, Hybrid!DecisionOf,
         H!DecisionOf, Hybrid!Recorded, H!Recorded, Hybrid!Suspend, H!Suspend,
         Hybrid!Entered, H!Entered, Hybrid!EnteredNext, H!EnteredNext,
         Hybrid!RecordFails, H!RecordFails, Hybrid!RecordUnknown, H!RecordUnknown,
         Hybrid!CallsStore, H!CallsStore, Hybrid!Writes, H!Writes, Hybrid!KeyFree,
         H!KeyFree, Hybrid!RecordReplayed, H!RecordReplayed,
         Hybrid!RecordWriteFailure, H!RecordWriteFailure,
         Hybrid!RecordDefiniteFailure, H!RecordDefiniteFailure,
         Hybrid!RecordInserted, H!RecordInserted, Hybrid!RecordCommitLost,
         H!RecordCommitLost, Hybrid!RecordExisting, H!RecordExisting,
         Hybrid!RecordDecision, H!RecordDecision, Hybrid!Reconcile, H!Reconcile,
         Hybrid!CompensateDecision, H!CompensateDecision, Hybrid!ReturnFault,
         H!ReturnFault, Hybrid!CompleteAuthorization, H!CompleteAuthorization
<1>1. Hybrid!ValidateRequest(a) => H!ValidateRequest(a)
  OBVIOUS
<1>2. Hybrid!ResolveIdempotency(a) => H!ResolveIdempotency(a)
  OBVIOUS
<1>3. Hybrid!ScreenPolicy(a) => H!ScreenPolicy(a)
  OBVIOUS
<1>4. Hybrid!ReserveInventory(a) => H!ReserveInventory(a)
  OBVIOUS
<1>5. Hybrid!AuthorizePayment(a) => H!AuthorizePayment(a)
  OBVIOUS
<1>6. Hybrid!RecordReplayed(a) => H!RecordReplayed(a)
  OBVIOUS
<1>7. Hybrid!RecordWriteFailure(a) => H!RecordWriteFailure(a)
  OBVIOUS
<1>8. Hybrid!RecordDefiniteFailure(a) => H!RecordDefiniteFailure(a)
  OBVIOUS
<1>9. Hybrid!RecordInserted(a) => H!RecordInserted(a)
  OBVIOUS
<1>10. Hybrid!RecordCommitLost(a) => H!RecordCommitLost(a)
  OBVIOUS
<1>11. Hybrid!RecordExisting(a) => H!RecordExisting(a)
  OBVIOUS
<1>12. Hybrid!Reconcile(a) => H!Reconcile(a)
  OBVIOUS
<1>13. Hybrid!CompensateDecision(a) => H!CompensateDecision(a)
  OBVIOUS
<1>14. Hybrid!ReturnFault(a) => H!ReturnFault(a)
  OBVIOUS
<1>15. Hybrid!CompleteAuthorization(a) => H!CompleteAuthorization(a)
  OBVIOUS
<1> QED
  BY <1>1, <1>2, <1>3, <1>4, <1>5, <1>6, <1>7, <1>8, <1>9, <1>10, <1>11, <1>12,
     <1>13, <1>14, <1>15

LEMMA HybridRunIs ==
    ASSUME NEW a \in HybridAttempts, Hybrid!Run(a)
    PROVE  H!Run(a)
BY HybridActions DEF Hybrid!Run, H!Run, Hybrid!RecordDecision, H!RecordDecision

LEMMA HybridIs ==
    /\ Hybrid!Init => H!Init
    /\ \A a \in HybridAttempts : Hybrid!Arrive(a) => H!Arrive(a)
    /\ \A a \in HybridAttempts : Hybrid!Drop(a) => H!Drop(a)
    /\ \A a \in HybridAttempts : Hybrid!AbandonCommit(a) => H!AbandonCommit(a)
    /\ Hybrid!Restart => H!Restart
    /\ Hybrid!Quiescent => H!Quiescent
    /\ Hybrid!AnsweredIsDurable <=> H!AnsweredIsDurable
<1> USE DEF
         Hybrid!ledgerVars, H!ledgerVars, Hybrid!LedgerInit, H!LedgerInit,
         Hybrid!Reserve, H!Reserve, Hybrid!Authorize, H!Authorize,
         Hybrid!VoidEvents, H!VoidEvents, Hybrid!ReleaseEvents, H!ReleaseEvents,
         Hybrid!Compensate, H!Compensate, Hybrid!CompensationOutcome,
         H!CompensationOutcome, Hybrid!Applied, H!Applied,
         Hybrid!CompensationOutcomes, H!CompensationOutcomes, Hybrid!DefiniteCodes,
         H!DefiniteCodes, Hybrid!ConflictPathCodes, H!ConflictPathCodes,
         Hybrid!CommitLost, H!CommitLost, Hybrid!LookupFailed, H!LookupFailed,
         Hybrid!storeVars, H!storeVars, Hybrid!StoreInit, H!StoreInit, Hybrid!Find,
         H!Find, Hybrid!Locked, H!Locked, Hybrid!Insert, H!Insert,
         Hybrid!LeaveUnsettled, H!LeaveUnsettled, Hybrid!ValidationOrder,
         H!ValidationOrder, Hybrid!ConflictCodes, H!ConflictCodes,
         Hybrid!BusinessCodes, H!BusinessCodes, Hybrid!attemptVars, H!attemptVars,
         Hybrid!vars, H!vars, Hybrid!Transitions, H!Transitions, Hybrid!InFlight,
         H!InFlight, Hybrid!Absent, H!Absent, Hybrid!FreshWorkflow,
         H!FreshWorkflow, Hybrid!Success, H!Success, Hybrid!Fault, H!Fault,
         Hybrid!NoAnswer, H!NoAnswer, Hybrid!FirstFlaw, H!FirstFlaw, Hybrid!Init,
         H!Init, Hybrid!Trace, H!Trace, Hybrid!Goto, H!Goto, Hybrid!Advance,
         H!Advance, Hybrid!FailAt, H!FailAt, Hybrid!Arrive, H!Arrive,
         Hybrid!ValidateRequest, H!ValidateRequest, Hybrid!ResolveIdempotency,
         H!ResolveIdempotency, Hybrid!PolicyResult, H!PolicyResult,
         Hybrid!ScreenPolicy, H!ScreenPolicy, Hybrid!NeedsEffects, H!NeedsEffects,
         Hybrid!ReserveInventory, H!ReserveInventory, Hybrid!Undo, H!Undo,
         Hybrid!AuthorizePayment, H!AuthorizePayment, Hybrid!DecisionOf,
         H!DecisionOf, Hybrid!Recorded, H!Recorded, Hybrid!Suspend, H!Suspend,
         Hybrid!Entered, H!Entered, Hybrid!EnteredNext, H!EnteredNext,
         Hybrid!RecordFails, H!RecordFails, Hybrid!RecordUnknown, H!RecordUnknown,
         Hybrid!CallsStore, H!CallsStore, Hybrid!Writes, H!Writes, Hybrid!KeyFree,
         H!KeyFree, Hybrid!RecordReplayed, H!RecordReplayed,
         Hybrid!RecordWriteFailure, H!RecordWriteFailure,
         Hybrid!RecordDefiniteFailure, H!RecordDefiniteFailure,
         Hybrid!RecordInserted, H!RecordInserted, Hybrid!RecordCommitLost,
         H!RecordCommitLost, Hybrid!RecordExisting, H!RecordExisting,
         Hybrid!RecordDecision, H!RecordDecision, Hybrid!Reconcile, H!Reconcile,
         Hybrid!ReturnFault, H!ReturnFault, Hybrid!CompleteAuthorization,
         H!CompleteAuthorization, Hybrid!Drop, H!Drop, Hybrid!AbandonCommit,
         H!AbandonCommit, Hybrid!Restart, H!Restart, Hybrid!Quiescent, H!Quiescent,
         Hybrid!Answered, H!Answered, Hybrid!AnsweredIsDurable, H!AnsweredIsDurable
<1>1. Hybrid!Init => H!Init
  OBVIOUS
<1>2. \A a \in HybridAttempts : Hybrid!Arrive(a) => H!Arrive(a)
  OBVIOUS
<1>3. \A a \in HybridAttempts : Hybrid!Drop(a) => H!Drop(a)
  OBVIOUS
<1>4. \A a \in HybridAttempts : Hybrid!AbandonCommit(a) => H!AbandonCommit(a)
  OBVIOUS
<1>5. Hybrid!Restart => H!Restart
  OBVIOUS
<1>6. Hybrid!Quiescent => H!Quiescent
  OBVIOUS
<1>7. Hybrid!AnsweredIsDurable <=> H!AnsweredIsDurable
  OBVIOUS
<1> QED
  BY <1>1, <1>2, <1>3, <1>4, <1>5, <1>6, <1>7

\* the store of one is the store of the other, and both decide and answer alike
LEMMA OneStore ==
    /\ N!Rows = H!Rows /\ N!Rows' = H!Rows'
    /\ N!StoreTypeOK <=> H!StoreTypeOK
    /\ N!StoreTypeOK' <=> H!StoreTypeOK'
    /\ N!RowsAreVerdicts <=> H!RowsAreVerdicts
    /\ N!RowsAreVerdicts' <=> H!RowsAreVerdicts'
    /\ N!AuditInv <=> H!AuditInv
    /\ N!AuditInv' <=> H!AuditInv'
<1> USE DEF
         N!Outcomes, H!Outcomes, N!Decision, H!Decision, N!StoreTypeOK,
         H!StoreTypeOK, N!PolicyResult, H!PolicyResult, N!Eligible, H!Eligible,
         N!WorkflowVerdict, H!WorkflowVerdict, N!Rows, H!Rows, N!RowsAreVerdicts,
         H!RowsAreVerdicts, N!AuditInv, H!AuditInv
<1>1. N!Rows = H!Rows /\ N!Rows' = H!Rows'
  OBVIOUS
<1>2. N!StoreTypeOK <=> H!StoreTypeOK
  OBVIOUS
<1>3. N!StoreTypeOK' <=> H!StoreTypeOK'
  OBVIOUS
<1>4. N!RowsAreVerdicts <=> H!RowsAreVerdicts
  OBVIOUS
<1>5. N!RowsAreVerdicts' <=> H!RowsAreVerdicts'
  OBVIOUS
<1>6. N!AuditInv <=> H!AuditInv
  OBVIOUS
<1>7. N!AuditInv' <=> H!AuditInv'
  OBVIOUS
<1> QED
  BY <1>1, <1>2, <1>3, <1>4, <1>5, <1>6, <1>7

LEMMA OneVerdict ==
    /\ \A r : VerdictOf(r) = N!WorkflowVerdict(r) /\ VerdictOf(r) = H!WorkflowVerdict(r)
    /\ \A reply : /\ Native!ReplyClass(reply) = N!ReplyClass(reply)
                  /\ Native!ReplyClass(reply) = H!ReplyClass(reply)
<1> USE DEF VerdictOf,
         Native!ValidationOrder, N!ValidationOrder, H!ValidationOrder,
         Native!ValidationCodes, N!ValidationCodes, H!ValidationCodes,
         Native!BadRequestCodes, N!BadRequestCodes, H!BadRequestCodes,
         Native!ConflictCodes, N!ConflictCodes, H!ConflictCodes,
         Native!BusinessCodes, N!BusinessCodes, H!BusinessCodes,
         Native!FaultStatus, N!FaultStatus, H!FaultStatus, Native!SuccessStatus,
         N!SuccessStatus, H!SuccessStatus, Native!Status, N!Status, H!Status,
         Native!PolicyResult, N!PolicyResult, H!PolicyResult, Native!Eligible,
         N!Eligible, H!Eligible, Native!WorkflowVerdict, N!WorkflowVerdict,
         H!WorkflowVerdict, Native!ReplyClass, N!ReplyClass, H!ReplyClass
<1>1. \A r : VerdictOf(r) = N!WorkflowVerdict(r)
  OBVIOUS
<1>2. \A r : VerdictOf(r) = H!WorkflowVerdict(r)
  OBVIOUS
<1>3. \A reply : Native!ReplyClass(reply) = N!ReplyClass(reply)
  OBVIOUS
<1>4. \A reply : Native!ReplyClass(reply) = H!ReplyClass(reply)
  OBVIOUS
<1> QED
  BY <1>1, <1>2, <1>3, <1>4

-----------------------------------------------------------------------------
(***************************************************************************)
(* A step of both is a step of one, and the other one stands still; what   *)
(* the database does and a step that changes nothing count as steps of the *)
(* native service.                                                         *)
(***************************************************************************)
LEMMA StepsOfOne ==
    ASSUME [BothNext]_bothVars
    PROVE  \/ [N!Next]_(N!vars) /\ UNCHANGED hybridVars
           \/ [H!Next]_(H!vars) /\ UNCHANGED nativeVars
<1>1. CASE \E a \in NativeAttempts : NativeRuns(a)
  BY <1>1, NativeRunIs DEF NativeRuns, N!Next, N!Proceed
<1>2. CASE \E a \in HybridAttempts : HybridRuns(a)
  BY <1>2, HybridRunIs DEF HybridRuns, H!Next, H!Proceed
<1>3. CASE NativeSuffers
  BY <1>3, NativeIs DEF NativeSuffers, N!Next, N!Proceed
<1>4. CASE HybridSuffers
  BY <1>4, HybridIs DEF HybridSuffers, H!Next, H!Proceed
<1>5. CASE DatabaseSettles
  <2>1. N!Settle /\ UNCHANGED hybridVars
    BY <1>5
       DEF DatabaseSettles, N!Settle, SettleCommit, N!SettleCommit, SettleAbort,
           N!SettleAbort, nativeVars, N!attemptVars, N!ledgerVars
  <2> QED
    BY <2>1 DEF N!Next, N!Proceed
<1>6. CASE BothQuiescent
  <2>1. N!Quiescent /\ H!Quiescent
    BY <1>6, NativeIs, HybridIs DEF BothQuiescent
  <2>2. UNCHANGED hybridVars
    BY <2>1 DEF H!Quiescent, H!vars, H!attemptVars, H!ledgerVars, hybridVars
  <2> QED
    BY <2>1, <2>2 DEF N!Next, N!Proceed
<1>7. CASE UNCHANGED bothVars
  BY <1>7 DEF bothVars, nativeVars, storeVars, N!vars, N!attemptVars, N!ledgerVars,
              N!storeVars
<1> QED
  BY <1>1, <1>2, <1>3, <1>4, <1>5, <1>6, <1>7 DEF BothNext

(***************************************************************************)
(* The invariant: that of each service, and behind every row, committed or *)
(* on its way, is a request that somebody sent to one of them.             *)
(***************************************************************************)
SentInv == \A d \in decisions \cup unsettled :
               \E a \in BothAttempts : d.request = bothRequests[a]

BothInv == N!PromisesInv /\ H!PromisesInv /\ SentInv

LEMMA RequestOfOne ==
    /\ \A a \in NativeAttempts : a \in BothAttempts /\ bothRequests[a] = nRequest[a]
    /\ \A a \in HybridAttempts : a \in BothAttempts /\ bothRequests[a] = hRequest[a]
BY AttemptsAssumption DEF BothAttempts, bothRequests

LEMMA SharedStore ==
    ASSUME N!PromisesInv' \/ H!PromisesInv'
    PROVE  /\ N!StoreTypeOK' /\ N!RowsAreVerdicts' /\ N!AuditInv'
           /\ H!StoreTypeOK' /\ H!RowsAreVerdicts' /\ H!AuditInv'
<1>1. CASE N!PromisesInv'
  <2>1. N!StoreTypeOK' /\ N!RowsAreVerdicts' /\ N!AuditInv'
    BY <1>1 DEF N!PromisesInv, N!ClientInv, N!TypeInv, N!TypeOK, N!DurableInv
  <2> QED
    BY <2>1, OneStore
<1>2. CASE H!PromisesInv'
  <2>1. H!StoreTypeOK' /\ H!RowsAreVerdicts' /\ H!AuditInv'
    BY <1>2 DEF H!PromisesInv, H!ClientInv, H!TypeInv, H!TypeOK, H!DurableInv
  <2> QED
    BY <2>1, OneStore
<1> QED
  BY <1>1, <1>2

LEMMA NativeMoves ==
    ASSUME BothInv, [N!Next]_(N!vars), UNCHANGED hybridVars
    PROVE  BothInv' /\ bothRequests' = bothRequests
<1>1. N!PromisesInv'
  BY N!PromisesStep, NativeAssumptions DEF BothInv
<1>2. H!PromisesInv'
  <2>1. decisions \subseteq decisions'
    BY N!DecisionsStay, NativeAssumptions
  <2>2. UNCHANGED <<H!attemptVars, H!ledgerVars>>
    BY DEF hybridVars, H!attemptVars, H!ledgerVars
  <2>3. H!StoreTypeOK' /\ H!RowsAreVerdicts' /\ H!AuditInv'
    BY <1>1, SharedStore
  <2> QED
    BY <2>1, <2>2, <2>3, H!PromisesBeside, HybridAssumptions DEF BothInv
<1>3. nRequest' = nRequest /\ bothRequests' = bothRequests
  <2>1. nRequest' = nRequest
    BY N!RequestsStay, NativeAssumptions
  <2> QED
    BY <2>1 DEF bothRequests, hybridVars
<1>4. SentInv'
  <2>1. \A d \in N!Rows' : d \in N!Rows \/ \E a \in NativeAttempts : d.request = nRequest[a]
    BY N!RowsAreSent, NativeAssumptions
  <2>2. \A d \in (decisions \cup unsettled)' :
          \/ d \in decisions \cup unsettled
          \/ \E a \in NativeAttempts : d.request = nRequest[a]
    BY <2>1 DEF N!Rows
  <2>3. ASSUME NEW d \in (decisions \cup unsettled)'
        PROVE  \E a \in BothAttempts : d.request = bothRequests[a]
    BY <2>2, RequestOfOne DEF BothInv, SentInv
  <2> QED
    BY <1>3, <2>3 DEF SentInv
<1> QED
  BY <1>1, <1>2, <1>3, <1>4 DEF BothInv

LEMMA HybridMoves ==
    ASSUME BothInv, [H!Next]_(H!vars), UNCHANGED nativeVars
    PROVE  BothInv' /\ bothRequests' = bothRequests
<1>1. H!PromisesInv'
  BY H!PromisesStep, HybridAssumptions DEF BothInv
<1>2. N!PromisesInv'
  <2>1. decisions \subseteq decisions'
    BY H!DecisionsStay, HybridAssumptions
  <2>2. UNCHANGED <<N!attemptVars, N!ledgerVars>>
    BY DEF nativeVars, N!attemptVars, N!ledgerVars
  <2>3. N!StoreTypeOK' /\ N!RowsAreVerdicts' /\ N!AuditInv'
    BY <1>1, SharedStore
  <2> QED
    BY <2>1, <2>2, <2>3, N!PromisesBeside, NativeAssumptions DEF BothInv
<1>3. hRequest' = hRequest /\ bothRequests' = bothRequests
  <2>1. hRequest' = hRequest
    BY H!RequestsStay, HybridAssumptions
  <2> QED
    BY <2>1 DEF bothRequests, nativeVars
<1>4. SentInv'
  <2>1. \A d \in H!Rows' : d \in H!Rows \/ \E a \in HybridAttempts : d.request = hRequest[a]
    BY H!RowsAreSent, HybridAssumptions
  <2>2. \A d \in (decisions \cup unsettled)' :
          \/ d \in decisions \cup unsettled
          \/ \E a \in HybridAttempts : d.request = hRequest[a]
    BY <2>1 DEF H!Rows
  <2>3. ASSUME NEW d \in (decisions \cup unsettled)'
        PROVE  \E a \in BothAttempts : d.request = bothRequests[a]
    BY <2>2, RequestOfOne DEF BothInv, SentInv
  <2> QED
    BY <1>3, <2>3 DEF SentInv
<1> QED
  BY <1>1, <1>2, <1>3, <1>4 DEF BothInv

LEMMA BothInvInit == BothInit => BothInv
<1> SUFFICES ASSUME BothInit PROVE BothInv
  OBVIOUS
<1>1. N!Init /\ H!Init
  BY NativeIs, HybridIs DEF BothInit
<1>2. decisions = {} /\ unsettled = {}
  BY <1>1 DEF N!Init, N!StoreInit
<1> QED
  BY <1>1, <1>2, N!PromisesInit, H!PromisesInit, NativeAssumptions, HybridAssumptions
     DEF BothInv, SentInv

LEMMA BothInvStep == BothInv /\ [BothNext]_bothVars => BothInv'
BY StepsOfOne, NativeMoves, HybridMoves

-----------------------------------------------------------------------------
(***************************************************************************)
(* An "ok" of either service names a durable decision, for ever, whatever  *)
(* both of them do and wherever one of them crashes.                       *)
(***************************************************************************)
THEOREM BothAnswerDurably == BothSpec => []AnswersAreDurable
<1>1. BothSpec => BothInit /\ [][BothNext]_bothVars
  BY DEF BothSpec
<1>2. BothInv => AnswersAreDurable
  <2> SUFFICES ASSUME BothInv PROVE AnswersAreDurable
    OBVIOUS
  <2>1. N!AnsweredIsDurable
    BY DEF BothInv, N!PromisesInv, N!ClientInv, N!DurableInv, N!AnswerInv,
           N!AnsweredIsDurable, N!Answered
  <2>2. H!AnsweredIsDurable
    BY DEF BothInv, H!PromisesInv, H!ClientInv, H!DurableInv, H!AnswerInv,
           H!AnsweredIsDurable, H!Answered
  <2> QED
    BY <2>1, <2>2, NativeIs, HybridIs DEF AnswersAreDurable
<1> QED
  BY <1>1, <1>2, BothInvInit, BothInvStep, PTL

(***************************************************************************)
(* One decision per key and one audit per decision in the database of the  *)
(* two, although neither knows of the other's commits that are on their    *)
(* way.                                                                    *)
(***************************************************************************)
THEOREM BothAreAudited == BothSpec => []OneAuditedDecisionPerKey
<1>1. BothSpec => BothInit /\ [][BothNext]_bothVars
  BY DEF BothSpec
<1>2. BothInv => OneAuditedDecisionPerKey
  <2> SUFFICES ASSUME BothInv PROVE OneAuditedDecisionPerKey
    OBVIOUS
  <2>1. N!RowsAreVerdicts /\ N!AuditInv
    BY DEF BothInv, N!PromisesInv, N!ClientInv, N!DurableInv
  <2> QED
    BY <2>1 DEF N!RowsAreVerdicts, N!Rows, N!AuditInv, OneAuditedDecisionPerKey
<1> QED
  BY <1>1, <1>2, BothInvInit, BothInvStep, PTL

(***************************************************************************)
(* Each of the two keeps everything that one service alone promises to its *)
(* clients and its operators: durable and final answers, consistent        *)
(* faults, audits, a ledger with nothing left behind and nothing undone    *)
(* unsaid, whichever futures are dropped on the way: only what a dropped   *)
(* one leaves or undoes is nobody's to report.                             *)
(***************************************************************************)
THEOREM BothKeepPromises == BothSpec => [](N!PromisesKept /\ H!PromisesKept)
<1>1. BothSpec => BothInit /\ [][BothNext]_bothVars
  BY DEF BothSpec
<1>2. BothInv => N!PromisesKept /\ H!PromisesKept
  BY N!PromisesOfInv, H!PromisesOfInv, NativeAssumptions, HybridAssumptions DEF BothInv
<1> QED
  BY <1>1, <1>2, BothInvInit, BothInvStep, PTL

-----------------------------------------------------------------------------
(***************************************************************************)
(* What is shown by either of them is a step of the contract of both.      *)
(***************************************************************************)
LEMMA OneShown ==
    /\ \A r : H!Decides(r) <=> N!Decides(r)
    /\ \A r, what : H!Justified(r, what) <=> N!Justified(r, what)
BY OneVerdict DEF N!Decides, H!Decides, N!Justified, H!Justified

LEMMA DecidesTogether ==
    ASSUME NEW a \in BothAttempts, N!Decides(bothRequests[a]),
           UNCHANGED <<bothRequests, bothReplies>>
    PROVE  Contract!ContractNext
<1>1. Contract!Registered(RequestKey(bothRequests[a])) = {}
  BY DEF N!Decides, Contract!Registered, RequestKey
<1>2. N!WorkflowVerdict(bothRequests[a]) = VerdictOf(bothRequests[a])
  BY OneVerdict
<1>3. Contract!Decide(a)
  BY <1>1, <1>2 DEF N!Decides, Contract!Decide
<1> QED
  BY <1>3 DEF Contract!ContractNext

LEMMA RepliesTogether ==
    ASSUME NEW a \in BothAttempts, NEW what, N!Justified(bothRequests[a], what),
           UNCHANGED <<bothRequests, decisions>>,
           bothReplies[a] = "none",
           bothReplies' = [bothReplies EXCEPT ![a] = what]
    PROVE  Contract!ContractNext
<1>1. Contract!Tell(a, what)
  BY DEF Contract!Tell
<1>2. N!WorkflowVerdict(bothRequests[a]) = VerdictOf(bothRequests[a])
  BY OneVerdict
<1>3. \/ Contract!TellOutcome(a) \/ Contract!TellConflict(a)
      \/ Contract!TellRefused(a) \/ Contract!TellUnavailable(a)
  BY <1>1, <1>2
     DEF N!Justified, Contract!TellOutcome, Contract!TellConflict, Contract!Registered,
         RequestKey, Contract!TellRefused, Contract!TellUnavailable
<1> QED
  BY <1>3 DEF Contract!ContractNext

\* a lost commit that lands late, whichever service the row is from
LEMMA SettlesTogether ==
    ASSUME BothInv, UNCHANGED <<bothRequests, bothReplies>>,
           NEW d \in unsettled, N!SettleCommit(d) \/ N!SettleAbort(d)
    PROVE  [Contract!ContractNext]_(Contract!contractVars)
<1>1. CASE N!SettleAbort(d)
  BY <1>1 DEF N!SettleAbort, Contract!contractVars
<1>2. CASE N!SettleCommit(d)
  <2>1. N!Decides(d.request)
    BY <1>2, N!LateCommitDecides, NativeAssumptions
       DEF BothInv, N!PromisesInv, N!ClientInv, N!TypeInv, N!TypeOK, N!DurableInv
  <2>2. PICK a \in BothAttempts : d.request = bothRequests[a]
    BY DEF BothInv, SentInv
  <2> QED
    BY <2>1, <2>2, DecidesTogether
<1> QED
  BY <1>1, <1>2

LEMMA NativeReplies ==
    ASSUME BothInv, NEW a \in NativeAttempts, N!Replies(a), UNCHANGED hybridVars,
           bothRequests' = bothRequests
    PROVE  Contract!ContractNext
<1> DEFINE what == N!ReplyClass(nAnswer'[a])
<1>1. nAnswer \in [NativeAttempts -> N!Answer]
  BY DEF BothInv, N!PromisesInv, N!ClientInv, N!TypeInv, N!TypeOK
<1>2. /\ nAnswer' = [nAnswer EXCEPT ![a] = nAnswer'[a]]
      /\ N!ReplyClass(nAnswer[a]) = "none"
      /\ N!Justified(nRequest[a], what)
      /\ decisions' = decisions
      /\ hAnswer' = hAnswer
  BY DEF N!Replies, hybridVars
<1>3. a \in BothAttempts /\ bothRequests[a] = nRequest[a]
  BY RequestOfOne
<1>4. Native!ReplyClass(nAnswer[a]) = "none" /\ Native!ReplyClass(nAnswer'[a]) = what
  BY <1>2, OneVerdict
<1> HIDE DEF what
<1>5. bothReplies[a] = "none"
  BY <1>3, <1>4 DEF bothReplies
<1>6. bothReplies' = [bothReplies EXCEPT ![a] = what]
  BY <1>1, <1>2, <1>3, <1>4 DEF bothReplies
<1> QED
  BY <1>2, <1>3, <1>5, <1>6, RepliesTogether

LEMMA HybridReplies ==
    ASSUME BothInv, NEW a \in HybridAttempts, H!Replies(a), UNCHANGED nativeVars,
           bothRequests' = bothRequests
    PROVE  Contract!ContractNext
<1> DEFINE what == H!ReplyClass(hAnswer'[a])
<1>1. hAnswer \in [HybridAttempts -> H!Answer]
  BY DEF BothInv, H!PromisesInv, H!ClientInv, H!TypeInv, H!TypeOK
<1>2. /\ hAnswer' = [hAnswer EXCEPT ![a] = hAnswer'[a]]
      /\ H!ReplyClass(hAnswer[a]) = "none"
      /\ H!Justified(hRequest[a], what)
      /\ decisions' = decisions
      /\ nAnswer' = nAnswer
  BY DEF H!Replies, nativeVars
<1>3. a \in BothAttempts /\ bothRequests[a] = hRequest[a] /\ a \notin NativeAttempts
  BY RequestOfOne, AttemptsAssumption
<1>4. Native!ReplyClass(hAnswer[a]) = "none" /\ Native!ReplyClass(hAnswer'[a]) = what
  BY <1>2, OneVerdict
<1>5. N!Justified(bothRequests[a], what)
  BY <1>2, <1>3, OneShown
<1> HIDE DEF what
<1>6. bothReplies[a] = "none"
  BY <1>3, <1>4 DEF bothReplies
<1>7. bothReplies' = [bothReplies EXCEPT ![a] = what]
  <2>1. \A b \in BothAttempts :
          bothReplies'[b] = IF b = a THEN what ELSE bothReplies[b]
    BY <1>1, <1>2, <1>3, <1>4 DEF BothAttempts, bothReplies
  <2> QED
    BY <2>1, <1>3 DEF bothReplies
<1> QED
  BY <1>2, <1>3, <1>5, <1>6, <1>7, RepliesTogether

LEMMA NativeMaps ==
    ASSUME BothInv, [N!Next]_(N!vars), UNCHANGED hybridVars
    PROVE  [Contract!ContractNext]_(Contract!contractVars)
<1>1. N!ClientInv /\ N!ClientInv' /\ bothRequests' = bothRequests
  BY NativeMoves DEF BothInv, N!PromisesInv
<1>2. \/ UNCHANGED <<nAnswer, decisions>>
      \/ N!Settle
      \/ \E a \in NativeAttempts : N!Shows(a)
  BY <1>1, N!NextShows, NativeAssumptions
<1>3. nAnswer' = nAnswer => bothReplies' = bothReplies
  BY DEF bothReplies, hybridVars
<1>4. CASE UNCHANGED <<nAnswer, decisions>>
  BY <1>1, <1>3, <1>4 DEF Contract!contractVars
<1>5. CASE N!Settle
  <2>1. PICK d \in unsettled : N!SettleCommit(d) \/ N!SettleAbort(d)
    BY <1>5 DEF N!Settle
  <2>2. bothReplies' = bothReplies
    BY <1>3, <1>5 DEF N!Settle, N!attemptVars
  <2> QED
    BY <1>1, <2>1, <2>2, SettlesTogether
<1>6. ASSUME NEW a \in NativeAttempts, N!Shows(a)
      PROVE  [Contract!ContractNext]_(Contract!contractVars)
  <2>1. CASE UNCHANGED nAnswer /\ N!Decides(nRequest[a])
    <3>1. a \in BothAttempts /\ N!Decides(bothRequests[a])
      BY <2>1, RequestOfOne
    <3> QED
      BY <1>1, <1>3, <2>1, <3>1, DecidesTogether
  <2>2. CASE N!Replies(a)
    BY <1>1, <2>2, NativeReplies
  <2> QED
    BY <1>4, <1>6, <2>1, <2>2 DEF N!Shows
<1> QED
  BY <1>2, <1>4, <1>5, <1>6

LEMMA HybridMaps ==
    ASSUME BothInv, [H!Next]_(H!vars), UNCHANGED nativeVars
    PROVE  [Contract!ContractNext]_(Contract!contractVars)
<1>1. H!ClientInv /\ H!ClientInv' /\ bothRequests' = bothRequests
  BY HybridMoves DEF BothInv, H!PromisesInv
<1>2. \/ UNCHANGED <<hAnswer, decisions>>
      \/ H!Settle
      \/ \E a \in HybridAttempts : H!Shows(a)
  BY <1>1, H!NextShows, HybridAssumptions
<1>3. hAnswer' = hAnswer => bothReplies' = bothReplies
  BY DEF bothReplies, nativeVars
<1>4. CASE UNCHANGED <<hAnswer, decisions>>
  BY <1>1, <1>3, <1>4 DEF Contract!contractVars
<1>5. CASE H!Settle
  <2>1. PICK d \in unsettled : N!SettleCommit(d) \/ N!SettleAbort(d)
    BY <1>5 DEF H!Settle, H!SettleCommit, N!SettleCommit, H!SettleAbort, N!SettleAbort
  <2>2. bothReplies' = bothReplies
    BY <1>3, <1>5 DEF H!Settle, H!attemptVars
  <2> QED
    BY <1>1, <2>1, <2>2, SettlesTogether
<1>6. ASSUME NEW a \in HybridAttempts, H!Shows(a)
      PROVE  [Contract!ContractNext]_(Contract!contractVars)
  <2>1. CASE UNCHANGED hAnswer /\ H!Decides(hRequest[a])
    <3>1. a \in BothAttempts /\ N!Decides(bothRequests[a])
      BY <2>1, RequestOfOne, OneShown
    <3> QED
      BY <1>1, <1>3, <2>1, <3>1, DecidesTogether
  <2>2. CASE H!Replies(a)
    BY <1>1, <2>2, HybridReplies
  <2> QED
    BY <1>4, <1>6, <2>1, <2>2 DEF H!Shows
<1> QED
  BY <1>2, <1>4, <1>5, <1>6

LEMMA StartTogether == BothInit => Contract!ContractInit
<1> SUFFICES ASSUME BothInit PROVE Contract!ContractInit
  OBVIOUS
<1>1. N!Init /\ H!Init
  BY NativeIs, HybridIs DEF BothInit
<1>2. bothRequests \in [BothAttempts -> Requests]
  BY <1>1 DEF N!Init, H!Init, BothAttempts, bothRequests
<1>3. decisions = {}
  BY <1>1 DEF N!Init, N!StoreInit
<1>4. /\ \A a \in NativeAttempts : N!ReplyClass(nAnswer[a]) = "none"
      /\ \A a \in HybridAttempts : H!ReplyClass(hAnswer[a]) = "none"
  BY <1>1, N!ReplyClasses, H!ReplyClasses, NativeAssumptions, HybridAssumptions
     DEF N!Init, H!Init, N!NoAnswer, N!Fault, H!NoAnswer, H!Fault
<1>5. bothReplies = [a \in BothAttempts |-> "none"]
  BY <1>4, OneVerdict DEF BothAttempts, bothReplies
<1> QED
  BY <1>2, <1>3, <1>5 DEF Contract!ContractInit

(***************************************************************************)
(* To their clients the two services are one register: every behaviour of  *)
(* the two of them is one of OrderContract, with the attempts of both and  *)
(* the rows of the database they share.                                    *)
(***************************************************************************)
THEOREM BothAreOneRegister == BothSpec => OneRegister
<1>1. BothSpec => BothInit /\ [][BothNext]_bothVars
  BY DEF BothSpec
<1>2. BothInv /\ [BothNext]_bothVars => [Contract!ContractNext]_(Contract!contractVars)
  BY StepsOfOne, NativeMaps, HybridMaps
<1> QED
  BY <1>1, <1>2, BothInvInit, BothInvStep, StartTogether, PTL
     DEF OneRegister, Contract!ContractSpec

=============================================================================
