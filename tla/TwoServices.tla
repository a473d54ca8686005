---------------------------- MODULE TwoServices -----------------------------
(***************************************************************************)
(* The native and the hybrid service at the same time against the same     *)
(* PostgreSQL (README, "Run"): two processes, each with the workflow of    *)
(* OrderAuthorization and an OrderResources of its own, that meet in the   *)
(* rows of the decision store only.  A client may send a retry to either.  *)
(* A client that goes away takes its own future with it; a crash takes one *)
(* of the services down, with all its futures, and leaves the other alone. *)
(***************************************************************************)
EXTENDS DecisionStore

CONSTANTS Orders, Keys, Details, MayDrop, MayRestart,
    NativeAttempts,     \* the HTTP requests sent to the native service
    HybridAttempts      \* those sent to the hybrid service

ASSUME AttemptsAssumption == NativeAttempts \cap HybridAttempts = {}

VARIABLES
    nRequest, nPc, nWorkflow, nPending, nAnswer, nTraces,
    nReservations, nPayments, nEvents,
    hRequest, hPc, hWorkflow, hPending, hAnswer, hTraces,
    hReservations, hPayments, hEvents

nativeVars == <<nRequest, nPc, nWorkflow, nPending, nAnswer, nTraces,
                nReservations, nPayments, nEvents>>
hybridVars == <<hRequest, hPc, hWorkflow, hPending, hAnswer, hTraces,
                hReservations, hPayments, hEvents>>
bothVars == <<nativeVars, hybridVars, storeVars>>

\* run_native_from_env: resources of its own over the pool of DATABASE_URL
Native == INSTANCE OrderRefinement WITH
    Attempts <- NativeAttempts, request <- nRequest, pc <- nPc,
    workflow <- nWorkflow, pending <- nPending, answer <- nAnswer,
    traces <- nTraces, reservations <- nReservations, payments <- nPayments,
    events <- nEvents

\* run_hybrid_from_env
Hybrid == INSTANCE OrderRefinement WITH
    Attempts <- HybridAttempts, request <- hRequest, pc <- hPc,
    workflow <- hWorkflow, pending <- hPending, answer <- hAnswer,
    traces <- hTraces, reservations <- hReservations, payments <- hPayments,
    events <- hEvents

ASSUME ServicesAssumption ==
    /\ Requests \subseteq Native!RequestType
    /\ MayDrop \in BOOLEAN /\ MayRestart \in BOOLEAN

BothInit == Native!Init /\ Hybrid!Init

NativeRuns(a) == Native!Run(a) /\ UNCHANGED hybridVars
HybridRuns(a) == Hybrid!Run(a) /\ UNCHANGED nativeVars

NativeSuffers ==
    /\ \/ \E a \in NativeAttempts :
            Native!Arrive(a) \/ Native!Drop(a) \/ Native!AbandonCommit(a)
       \/ Native!Restart
    /\ UNCHANGED hybridVars

HybridSuffers ==
    /\ \/ \E a \in HybridAttempts :
            Hybrid!Arrive(a) \/ Hybrid!Drop(a) \/ Hybrid!AbandonCommit(a)
       \/ Hybrid!Restart
    /\ UNCHANGED nativeVars

DatabaseSettles ==
    /\ \E d \in unsettled : SettleCommit(d) \/ SettleAbort(d)
    /\ UNCHANGED <<nativeVars, hybridVars>>

BothQuiescent == Native!Quiescent /\ Hybrid!Quiescent

BothNext ==
    \/ \E a \in NativeAttempts : NativeRuns(a)
    \/ \E a \in HybridAttempts : HybridRuns(a)
    \/ NativeSuffers
    \/ HybridSuffers
    \/ DatabaseSettles
    \/ BothQuiescent

\* the fairness of each service, and the database's
BothFairness ==
    /\ \A a \in NativeAttempts : WF_bothVars(NativeRuns(a))
    /\ \A a \in HybridAttempts : WF_bothVars(HybridRuns(a))
    /\ WF_bothVars(DatabaseSettles)

BothSpec == BothInit /\ [][BothNext]_bothVars /\ BothFairness

-----------------------------------------------------------------------------
(***************************************************************************)
(* To their clients the two services are one register: a key decided by    *)
(* one is decided for the other, a conflict at either has the row of the   *)
(* other's request behind it, whatever is lost or restarted on each side.  *)
(***************************************************************************)
RequestKey(r) == r.key
VerdictOf(r) == Native!WorkflowVerdict(r)

BothAttempts == NativeAttempts \cup HybridAttempts

bothRequests == [a \in BothAttempts |->
    IF a \in NativeAttempts THEN nRequest[a] ELSE hRequest[a]]

bothReplies == [a \in BothAttempts |-> Native!ReplyClass(
    IF a \in NativeAttempts THEN nAnswer[a] ELSE hAnswer[a])]

Contract == INSTANCE OrderContract WITH
    Attempts <- BothAttempts,
    KeyOf    <- RequestKey,
    Verdict  <- VerdictOf,
    request  <- bothRequests,
    register <- decisions,
    reply    <- bothReplies

OneRegister == Contract!ContractSpec

(***************************************************************************)
(* An "ok" of either service is durable for both.                          *)
(***************************************************************************)
AnswersAreDurable == Native!AnsweredIsDurable /\ Hybrid!AnsweredIsDurable

(***************************************************************************)
(* Every attempt that arrives at either service ends: an execution of one  *)
(* never waits forever for a key whose commit the other one has lost.      *)
(***************************************************************************)
ArrivalsEnd == Native!ArrivalsEnd /\ Hybrid!ArrivalsEnd

(***************************************************************************)
(* Each ledger is settled by its own service: whatever the executions of   *)
(* the other decide, an effect is eventually approved or undone, or its    *)
(* execution was dropped or called an operator.                            *)
(***************************************************************************)
EffectsAreResolved == Native!EffectsAreResolved /\ Hybrid!EffectsAreResolved
=============================================================================
