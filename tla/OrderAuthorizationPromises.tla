--------------------- MODULE OrderAuthorizationPromises ---------------------
(***************************************************************************)
(* What the workflow promises to its clients and to its operators: the     *)
(* replies are those of OrderContract, faults and traces are consistent    *)
(* with them, no effect is left behind, the event log tells the ledger and *)
(* what is undone is told.                                                 *)
(***************************************************************************)
EXTENDS OrderRefinement, OrderAuthorizationProof, FiniteSetTheorems

(***************************************************************************)
(* Part 1: proofs of ImplementsContract, of FaultsAreConsistent and of     *)
(* TracesTellAnswers.                                                      *)
(*                                                                         *)
(* Each step of the service is a step of OrderContract or changes nothing  *)
(* that its clients see.  A row that becomes durable is a Decide, by the   *)
(* execution that inserts it or, when a lost commit lands late, by some    *)
(* attempt with its request.  An answer is a Tell, because of what         *)
(* AnswerInv says about it.  Everything else stutters.                     *)
(***************************************************************************)

(***************************************************************************)
(* What the mapping needs beside ClientInv: behind every row, committed or *)
(* on its way, is a request that somebody sent.                            *)
(***************************************************************************)
RowsAreRequested ==
    \A d \in Rows : \E a \in Attempts : d.request = request[a]

-----------------------------------------------------------------------------
(***************************************************************************)
(* The invariant.                                                          *)
(***************************************************************************)
LEMMA RequestedInit == Init => RowsAreRequested
BY DEF Init, StoreInit, RowsAreRequested, Rows

LEMMA RowsAreSent ==
    ASSUME [Next]_vars, NEW d \in Rows'
    PROVE  d \in Rows \/ \E a \in Attempts : d.request = request[a]
<1>1. ASSUME NEW a \in Attempts, Step(a)
      PROVE  d \in Rows \/ \E b \in Attempts : d.request = request[b]
  <2>1. DecisionOf(a).request = request[a]
    BY DEF DecisionOf
  <2> QED
    BY <1>1, <2>1, StepRows
<1>2. CASE Settle
  BY <1>2 DEF Settle, SettleCommit, SettleAbort, Rows
<1>3. CASE Restart \/ UNCHANGED vars
  BY <1>3 DEF Restart, vars, storeVars, Rows
<1> QED
  BY <1>1, <1>2, <1>3 DEF Next, Proceed, Step, Quiescent

LEMMA RequestedStep ==
    ASSUME RowsAreRequested, [Next]_vars
    PROVE  RowsAreRequested'
BY RowsAreSent, RequestsStay DEF RowsAreRequested

-----------------------------------------------------------------------------
(***************************************************************************)
(* The class of a reply, by the code of the answer.                        *)
(***************************************************************************)
LEMMA ReplyClasses ==
    ASSUME NEW reply
    PROVE  /\ reply.code = "none" => ReplyClass(reply) = "none"
           /\ reply.code = "ok" => ReplyClass(reply) = reply.outcome
           /\ reply.code \in ConflictCodes => ReplyClass(reply) = "conflict"
           /\ reply.code \in ValidationCodes \cup BusinessCodes =>
                ReplyClass(reply) = "refused"
           /\ reply.code \notin {"none", "ok"} \cup BadRequestCodes \cup ConflictCodes
                                 \cup BusinessCodes =>
                ReplyClass(reply) = "unavailable"
<1> DEFINE code == reply.code
<1>1. /\ code \in ValidationCodes => /\ code \in BadRequestCodes
                                     /\ code \notin {"none", "ok"} \cup ConflictCodes
      /\ code \in ConflictCodes => code \notin {"none", "ok"} \cup BadRequestCodes
      /\ code \in BusinessCodes =>
           code \notin {"none", "ok"} \cup BadRequestCodes \cup ConflictCodes
      /\ code \in {"none", "ok"} =>
           code \notin BadRequestCodes \cup BusinessCodes \cup ConflictCodes
  BY DEF BadRequestCodes, ValidationCodes, ValidationOrder, ConflictCodes, BusinessCodes
<1>2. /\ code = "ok" => Status(reply) = 200
      /\ code # "ok" => Status(reply) = FaultStatus(code)
  BY DEF Status, SuccessStatus
<1>3. /\ code \in BadRequestCodes => FaultStatus(code) = 400
      /\ code \in ConflictCodes => FaultStatus(code) = 409
      /\ code \in BusinessCodes => FaultStatus(code) = 422
      /\ code \notin BadRequestCodes \cup ConflictCodes \cup BusinessCodes =>
           FaultStatus(code) = 503
  <2>1. /\ code \in BadRequestCodes => code \notin ConflictCodes \cup BusinessCodes
        /\ code \in ConflictCodes => code \notin BusinessCodes
    BY <1>1
  <2> HIDE DEF code
  <2>2. code \in BadRequestCodes => FaultStatus(code) = 400
    BY <2>1 DEF FaultStatus
  <2>3. code \in ConflictCodes => FaultStatus(code) = 409
    BY <2>1 DEF FaultStatus
  <2>4. code \in BusinessCodes => FaultStatus(code) = 422
    BY <2>1 DEF FaultStatus
  <2>5. code \notin BadRequestCodes \cup ConflictCodes \cup BusinessCodes =>
          FaultStatus(code) = 503
    BY DEF FaultStatus
  <2> QED
    BY <2>2, <2>3, <2>4, <2>5
<1>4. /\ {200, 503} \cap 400..499 = {}
      /\ {400, 409, 422} \subseteq 400..499
      /\ 409 \notin {200, 400, 422, 503}
  OBVIOUS
<1>5. code = "none" => Status(reply) = 503
  BY <1>1, <1>2, <1>3
<1> QED
  BY <1>1, <1>2, <1>3, <1>4, <1>5 DEF ReplyClass

(***************************************************************************)
(* What a step shows to the clients: nothing, a new row with the verdict   *)
(* of its request under a key that was free, or the first answer to an     *)
(* attempt, of a class the store and its request justify.                  *)
(***************************************************************************)
Decides(r) ==
    /\ WorkflowVerdict(r) # "refused"
    /\ \A e \in decisions : e.request.key # r.key
    /\ decisions' = decisions \cup {[request |-> r, outcome |-> WorkflowVerdict(r)]}

Justified(r, what) ==
    \/ \E d \in decisions : d.request = r /\ what = d.outcome
    \/ /\ what = "conflict"
       /\ \E d \in decisions : d.request.key = r.key /\ d.request # r
    \/ what = "refused" /\ WorkflowVerdict(r) = "refused"
    \/ what = "unavailable"

Replies(a) ==
    /\ decisions' = decisions
    /\ ReplyClass(answer[a]) = "none"
    /\ answer' = [answer EXCEPT ![a] = answer'[a]]
    /\ Justified(request[a], ReplyClass(answer'[a]))

Shows(a) ==
    \/ UNCHANGED <<answer, decisions>>
    \/ UNCHANGED answer /\ Decides(request[a])
    \/ Replies(a)

(***************************************************************************)
(* A row that becomes durable is a decision.                               *)
(***************************************************************************)
LEMMA CommitDecides ==
    ASSUME NEW d \in Decision, Eligible(d.request),
           d.outcome = WorkflowVerdict(d.request),
           \A e \in decisions : e.request.key # d.request.key,
           decisions' = decisions \cup {d}
    PROVE  Decides(d.request)
<1>1. d = [request |-> d.request, outcome |-> WorkflowVerdict(d.request)]
  BY DEF Decision
<1>2. WorkflowVerdict(d.request) # "refused"
  BY DEF WorkflowVerdict, PolicyResult
<1> QED
  BY <1>1, <1>2 DEF Decides

\* however late it becomes so, and whoever settles it
LEMMA LateCommitDecides ==
    ASSUME StoreTypeOK, RowsAreVerdicts, AuditInv, NEW d \in unsettled, SettleCommit(d)
    PROVE  Decides(d.request) /\ d \in Rows
<1>1. d \in Rows /\ d \in Decision /\ d \notin decisions
  BY DEF Rows, StoreTypeOK, AuditInv
<1>2. \A e \in decisions : e.request.key # d.request.key
  BY <1>1 DEF RowsAreVerdicts, Rows
<1>3. Eligible(d.request) /\ d.outcome = WorkflowVerdict(d.request)
  BY <1>1 DEF RowsAreVerdicts
<1>4. decisions' = decisions \cup {d}
  BY DEF SettleCommit
<1> QED
  BY <1>1, <1>2, <1>3, <1>4, CommitDecides

(***************************************************************************)
(* An answer is justified, by what AnswerInv says of its code.             *)
(***************************************************************************)
LEMMA AnswerReplies ==
    ASSUME TypeOK, TypeOK', UntoldInv, NEW a \in Attempts, Answers(a),
           AnswerInv(a)', request' = request
    PROVE  Replies(a)
<1> DEFINE reply == answer'[a]
           code  == answer'[a].code
<1>1. /\ answer[a].code = "none"
      /\ decisions' = decisions
      /\ code # "none"
      /\ pc'[a] = "answered"
  BY DEF UntoldInv, NoAnswer, Fault, Answers, AnswerInv, InFlight, Transitions,
         storeVars
<1>2. ReplyClass(answer[a]) = "none"
  BY <1>1, ReplyClasses
<1> SUFFICES Justified(request[a], ReplyClass(reply))
  BY <1>1, <1>2 DEF Replies, Answers
<1> HIDE DEF reply
<1>3. CASE code = "ok"
  <2>1. [request |-> request[a], outcome |-> reply.outcome] \in decisions
    BY <1>1, <1>3 DEF AnswerInv, reply
  <2>2. ReplyClass(reply) = reply.outcome
    BY <1>3, ReplyClasses DEF reply
  <2> QED
    BY <2>1, <2>2 DEF Justified
<1>4. CASE code \in ConflictCodes
  <2>1. \E d \in decisions : d.request.key = request[a].key /\ d.request # request[a]
    BY <1>1, <1>4 DEF AnswerInv, Conflicting, Find
  <2>2. ReplyClass(reply) = "conflict"
    BY <1>4, ReplyClasses DEF reply
  <2> QED
    BY <2>1, <2>2 DEF Justified
<1>5. CASE code \in ValidationCodes \cup BusinessCodes
  <2>1. ~Eligible(request[a])
    BY <1>1, <1>5 DEF AnswerInv, Eligible
  <2>2. WorkflowVerdict(request[a]) = "refused"
    BY <2>1 DEF WorkflowVerdict
  <2>3. ReplyClass(reply) = "refused"
    BY <1>5, ReplyClasses DEF reply
  <2> QED
    BY <2>2, <2>3 DEF Justified
<1>6. CASE code \notin {"ok"} \cup ConflictCodes \cup ValidationCodes \cup BusinessCodes
  <2>1. code \notin BadRequestCodes
    BY <1>6 DEF TypeOK, Answer, FaultCodes, RecordCodes, DefiniteCodes,
                ConflictPathCodes, CommitLost, Absent, BadRequestCodes
  <2>2. ReplyClass(reply) = "unavailable"
    BY <1>1, <1>6, <2>1, ReplyClasses DEF reply
  <2> QED
    BY <2>2 DEF Justified
<1> QED
  BY <1>3, <1>4, <1>5, <1>6 DEF reply

LEMMA StepShows ==
    ASSUME ClientInv, ClientInv', [Next]_vars, NEW a \in Attempts, Step(a)
    PROVE  Shows(a)
<1>1. TypeOK /\ TypeOK' /\ request' = request
  BY RequestsStay DEF ClientInv, TypeInv
<1>2. CASE Answers(a)
  <2>1. UntoldInv /\ AnswerInv(a)'
    BY DEF ClientInv, DurableInv
  <2> QED
    BY <1>1, <1>2, <2>1, AnswerReplies DEF Shows
<1>3. CASE answer' = answer
  <2>1. CASE decisions' = decisions
    BY <1>3, <2>1 DEF Shows
  <2>2. CASE Writes(a) /\ KeyFree(a) /\ Insert(DecisionOf(a))
    <3> DEFINE d == DecisionOf(a)
    <3>1. /\ d \in Decision
          /\ Eligible(d.request)
          /\ d.outcome = WorkflowVerdict(d.request)
          /\ d.request = request[a]
      BY <1>1, <2>2, DecisionOfType, TypeOKParts, DecisionIsVerdict
         DEF ClientInv, DurableInv
    <3>2. \A e \in decisions : e.request.key # d.request.key
      BY <2>2, <3>1, KeyFreeRows DEF Rows
    <3>3. decisions' = decisions \cup {d}
      BY <2>2 DEF Insert
    <3> HIDE DEF d
    <3> QED
      BY <1>3, <3>1, <3>2, <3>3, CommitDecides DEF Shows
  <2> QED
    BY <2>1, <2>2, StepStore DEF storeVars, LeaveUnsettled
<1> QED
  BY <1>1, <1>2, <1>3, StepAnswers

LEMMA NextShows ==
    ASSUME ClientInv, ClientInv', [Next]_vars
    PROVE  UNCHANGED <<answer, decisions>> \/ Settle \/ \E a \in Attempts : Shows(a)
<1>1. CASE Restart \/ UNCHANGED vars
  BY <1>1 DEF Restart, vars, attemptVars, storeVars
<1> QED
  BY <1>1, StepShows DEF Next, Proceed, Step, Quiescent

(***************************************************************************)
(* What is shown is a step of the contract.                                *)
(***************************************************************************)
LEMMA DecidesImplements ==
    ASSUME NEW a \in Attempts, Decides(request[a]), UNCHANGED <<request, answer>>
    PROVE  Contract!ContractNext
<1>1. Contract!Registered(Key(request[a])) = {}
  BY DEF Decides, Contract!Registered, Key
<1>2. [b \in Attempts |-> ReplyClass(answer[b])]' = [b \in Attempts |-> ReplyClass(answer[b])]
  OBVIOUS
<1>3. Contract!Decide(a)
  BY <1>1, <1>2 DEF Decides, Contract!Decide
<1> QED
  BY <1>3 DEF Contract!ContractNext

LEMMA ShowsImplements ==
    ASSUME TypeOK, NEW a \in Attempts, Shows(a), request' = request
    PROVE  [Contract!ContractNext]_(Contract!contractVars)
<1>1. CASE UNCHANGED <<answer, decisions>>
  BY <1>1 DEF Contract!contractVars
<1>2. CASE UNCHANGED answer /\ Decides(request[a])
  BY <1>2, DecidesImplements
<1>3. CASE Replies(a)
  <2> DEFINE what == ReplyClass(answer'[a])
  <2>1. [b \in Attempts |-> ReplyClass(answer[b])]'
          = [[b \in Attempts |-> ReplyClass(answer[b])] EXCEPT ![a] = what]
    BY <1>3 DEF Replies, TypeOK
  <2>2. Contract!Tell(a, what)
    BY <1>3, <2>1 DEF Replies, Contract!Tell
  <2>3. Justified(request[a], what)
    BY <1>3 DEF Replies
  <2> HIDE DEF what
  <2>4. \/ Contract!TellOutcome(a) \/ Contract!TellConflict(a)
        \/ Contract!TellRefused(a) \/ Contract!TellUnavailable(a)
    BY <2>2, <2>3
       DEF Justified, Contract!TellOutcome, Contract!TellConflict, Contract!Registered,
           Key, Contract!TellRefused, Contract!TellUnavailable
  <2> QED
    BY <2>4 DEF Contract!ContractNext
<1> QED
  BY <1>1, <1>2, <1>3 DEF Shows

LEMMA SettleImplements ==
    ASSUME ClientInv, RowsAreRequested, Settle
    PROVE  [Contract!ContractNext]_(Contract!contractVars)
<1>1. UNCHANGED <<request, answer>>
  BY DEF Settle, attemptVars
<1>2. PICK d \in unsettled : SettleCommit(d) \/ SettleAbort(d)
  BY DEF Settle
<1>3. CASE SettleAbort(d)
  BY <1>1, <1>3 DEF SettleAbort, Contract!contractVars
<1>4. CASE SettleCommit(d)
  <2>1. Decides(d.request) /\ d \in Rows
    BY <1>4, LateCommitDecides DEF ClientInv, TypeInv, TypeOK, DurableInv
  <2>2. PICK a \in Attempts : d.request = request[a]
    BY <2>1 DEF RowsAreRequested
  <2> QED
    BY <1>1, <2>1, <2>2, DecidesImplements
<1> QED
  BY <1>2, <1>3, <1>4

-----------------------------------------------------------------------------
(***************************************************************************)
(* Every behaviour of the service, whatever fails, drops or restarts, is   *)
(* one of the register of OrderContract as its clients see it.             *)
(***************************************************************************)
THEOREM ServiceKeepsContract == Spec => ImplementsContract
<1> DEFINE Inv == ClientInv /\ RowsAreRequested
<1>1. Spec => Init /\ [][Next]_vars
  BY DEF Spec
<1>2. Init => Inv
  BY ClientInvInit, RequestedInit
<1>3. Inv /\ [Next]_vars => Inv'
  BY ClientInvStep, RequestedStep
<1>4. Init => Contract!ContractInit
  BY ReplyClasses DEF Init, StoreInit, Contract!ContractInit, NoAnswer, Fault
<1>5. Inv /\ Inv' /\ [Next]_vars => [Contract!ContractNext]_(Contract!contractVars)
  <2> SUFFICES ASSUME Inv, Inv', [Next]_vars
               PROVE  [Contract!ContractNext]_(Contract!contractVars)
    OBVIOUS
  <2>1. request' = request /\ TypeOK
    BY RequestsStay DEF ClientInv, TypeInv
  <2>2. CASE UNCHANGED <<answer, decisions>>
    BY <2>1, <2>2 DEF Contract!contractVars
  <2>3. CASE Settle
    BY <2>3, SettleImplements
  <2>4. ASSUME NEW a \in Attempts, Shows(a)
        PROVE  [Contract!ContractNext]_(Contract!contractVars)
    BY <2>1, <2>4, ShowsImplements
  <2> QED
    BY <2>2, <2>3, <2>4, NextShows
<1> HIDE DEF Inv
<1> QED
  BY <1>1, <1>2, <1>3, <1>4, <1>5, PTL DEF ImplementsContract, Contract!ContractSpec

-----------------------------------------------------------------------------
(***************************************************************************)
(* What a fault says beside its code, and what the trace says of it.  A    *)
(* conflict leaves no entry when it is returned, so that the invariant     *)
(* needs the entry which RecordDecision left when it met the conflict.     *)
(***************************************************************************)
Consistent(reply) ==
    /\ reply.retryable => Status(reply) = 503
    /\ reply.operator => reply.compensations = {} /\ Status(reply) = 503

TraceEnd(reply) ==
    CASE reply.code = "ok" -> <<"CompleteAuthorization", "next">>
      [] reply.code = "idempotency_key_conflict" /\ reply.step = "RecordDecision" ->
            <<"RecordDecision", "entered">>
      [] OTHER -> <<reply.step, "fault">>

ReplyInv(a) ==
    /\ pc[a] = "answered" => Consistent(answer[a])
    /\ pc[a] = "answered" /\ traces[a] # <<>> => LastEntry(a) = TraceEnd(answer[a])
    /\ pc[a] \in {"Compensate", "ReturnFault"}
       /\ pending[a] = "idempotency_key_conflict" =>
         LastEntry(a) = <<"RecordDecision", "entered">>

RepliesInv == \A a \in Attempts : ReplyInv(a)

LEMMA ConsistentFault ==
    ASSUME NEW code, NEW step, NEW retryable, NEW operator, NEW comps, code # "ok",
           retryable => FaultStatus(code) = 503,
           operator => comps = {} /\ FaultStatus(code) = 503
    PROVE  Consistent(Fault(code, step, retryable, operator, comps))
BY DEF Consistent, Fault, Status

\* the last entry is the last one that was written
LEMMA LastOfTrace ==
    ASSUME TypeOK, NEW a \in Attempts, NEW entries \in Seq(TraceEntry),
           entries # <<>>, Trace(a, entries)
    PROVE  LastEntry(a)' = entries[Len(entries)]
<1>1. traces[a] \in Seq(TraceEntry) /\ traces'[a] = traces[a] \o entries
  BY DEF TypeOK, Trace
<1>2. Len(entries) \in Nat /\ Len(entries) # 0
  OBVIOUS
<1>3. Len(traces'[a]) = Len(traces[a]) + Len(entries)
  BY <1>1
<1> QED
  BY <1>1, <1>2, <1>3 DEF LastEntry

LEMMA TracesLocal ==
    ASSUME TypeOK, NEW a \in Attempts, Step(a), NEW b \in Attempts, b # a
    PROVE  traces'[b] = traces[b]
<1>1. \A entries : Trace(a, entries) => traces'[b] = traces[b]
  BY DEF TypeOK, Trace
<1> QED
  BY <1>1
     DEF Step, Run, Arrive, Drop, AbandonCommit, ValidateRequest, ResolveIdempotency,
         ScreenPolicy, ReserveInventory, AuthorizePayment, RecordDecision,
         RecordReplayed, RecordWriteFailure, RecordDefiniteFailure, RecordInserted,
         RecordCommitLost, RecordExisting, RecordFails, RecordUnknown, Reconcile,
         CompensateDecision, ReturnFault, CompleteAuthorization, Advance, FailAt,
         Suspend, Recorded

\* a fault that ends a transition other than RecordDecision
LEMMA FailAtReplies ==
    ASSUME TypeOK, NEW a \in Attempts, NEW step \in Transitions \ {"RecordDecision"},
           NEW code, NEW retryable, NEW operator, NEW comps, code # "ok",
           retryable => FaultStatus(code) = 503,
           operator => comps = {} /\ FaultStatus(code) = 503,
           FailAt(a, step, code, retryable, operator, comps)
    PROVE  ReplyInv(a)'
<1>1. /\ pc'[a] = "answered"
      /\ answer'[a] = Fault(code, step, retryable, operator, comps)
  BY DEF TypeOK, FailAt, Goto
<1>2. LastEntry(a)' = <<step, "fault">>
  <2>1. ASSUME NEW entries \in Seq(TraceEntry), entries # <<>>, Trace(a, entries)
        PROVE  LastEntry(a)' = entries[Len(entries)]
    BY <2>1, LastOfTrace
  <2> DEFINE entries == << <<step, "entered">>, <<step, "fault">> >>
  <2>2. /\ entries \in Seq(TraceEntry)
        /\ entries # <<>>
        /\ entries[Len(entries)] = <<step, "fault">>
        /\ Trace(a, entries)
    BY EntriesType DEF FailAt
  <2> HIDE DEF entries
  <2> QED
    BY <2>1, <2>2
<1>3. Consistent(answer'[a])
  BY <1>1, ConsistentFault
<1>4. TraceEnd(answer'[a]) = <<step, "fault">>
  BY <1>1 DEF TraceEnd, Fault
<1> QED
  BY <1>1, <1>2, <1>3, <1>4 DEF ReplyInv

LEMMA UnderwayReplies ==
    ASSUME NEW a \in Attempts, pc'[a] \notin {"answered", "Compensate", "ReturnFault"}
    PROVE  ReplyInv(a)'
BY DEF ReplyInv

\* the codes RecordDecision works on are the service's own trouble or conflicts
LEMMA RecordCodeStatus ==
    ASSUME NEW code \in RecordCodes
    PROVE  /\ code # "ok"
           /\ code \notin ConflictCodes => FaultStatus(code) = 503
<1>1. code \notin BadRequestCodes \cup BusinessCodes \cup {"ok"}
  BY DEF RecordCodes, DefiniteCodes, ConflictPathCodes, ConflictCodes, CommitLost,
         Absent, BadRequestCodes, ValidationCodes, ValidationOrder, BusinessCodes
<1> QED
  BY <1>1 DEF FaultStatus

LEMMA EarlyReplies ==
    ASSUME TypeOK, NEW a \in Attempts,
           \/ Arrive(a) \/ Drop(a) \/ AbandonCommit(a) \/ ValidateRequest(a)
           \/ ResolveIdempotency(a) \/ ScreenPolicy(a) \/ ReserveInventory(a)
           \/ AuthorizePayment(a) \/ RecordReplayed(a)
    PROVE  ReplyInv(a)'
<1>1. CASE Arrive(a) \/ Drop(a) \/ AbandonCommit(a)
  <2>1. pc'[a] \in {"ValidateRequest", "dropped"}
    BY <1>1 DEF TypeOK, Arrive, Drop, AbandonCommit, Goto
  <2> QED
    BY <2>1, UnderwayReplies
<1>2. ASSUME NEW step, NEW next \in Transitions, Advance(a, step, next)
      PROVE  ReplyInv(a)'
  BY <1>2, AdvanceLocal, UnderwayReplies DEF Transitions
<1>3. CASE ValidateRequest(a)
  <2>1. CASE Advance(a, "ValidateRequest", "ResolveIdempotency")
    BY <1>2, <2>1 DEF Transitions
  <2>2. CASE /\ request[a].flaws # {}
             /\ FailAt(a, "ValidateRequest", FirstFlaw(request[a]), FALSE, FALSE, {})
    <3> DEFINE code == FirstFlaw(request[a])
    <3>1. code # "ok"
      BY <2>2, RequestFields, FirstFlawIsFlaw, TypeOKParts
         DEF ValidationCodes, ValidationOrder
    <3> HIDE DEF code
    <3>2. FailAt(a, "ValidateRequest", code, FALSE, FALSE, {})
      BY <2>2 DEF code
    <3> QED
      BY <3>1, <3>2, FailAtReplies DEF Transitions
  <2> QED
    BY <1>3, <2>1, <2>2 DEF ValidateRequest
<1>4. CASE ResolveIdempotency(a)
  <2>1. CASE Advance(a, "ResolveIdempotency", "ScreenPolicy")
    BY <1>2, <2>1 DEF Transitions
  <2>2. CASE FailAt(a, "ResolveIdempotency", "idempotency_key_conflict",
                    FALSE, FALSE, {})
    BY <2>2, FailAtReplies DEF Transitions
  <2>3. CASE FailAt(a, "ResolveIdempotency", "idempotency_lookup_failed",
                    TRUE, TRUE, {})
    <3>1. FaultStatus("idempotency_lookup_failed") = 503
      BY DEF FaultStatus, BadRequestCodes, ValidationCodes, ValidationOrder,
             ConflictCodes, BusinessCodes
    <3> QED
      BY <2>3, <3>1, FailAtReplies DEF Transitions
  <2> QED
    BY <1>4, <2>1, <2>2, <2>3 DEF ResolveIdempotency
<1>5. CASE ScreenPolicy(a) \/ RecordReplayed(a)
  BY <1>2, <1>5 DEF ScreenPolicy, RecordReplayed, Transitions
<1>6. CASE ReserveInventory(a)
  <2>1. CASE Advance(a, "ReserveInventory", "AuthorizePayment")
    BY <1>2, <2>1 DEF Transitions
  <2>2. CASE FailAt(a, "ReserveInventory", "inventory_out_of_stock", FALSE, FALSE, {})
    BY <2>2, FailAtReplies DEF Transitions
  <2> QED
    BY <1>6, <2>1, <2>2 DEF ReserveInventory
<1>7. CASE AuthorizePayment(a)
  <2>1. CASE Advance(a, "AuthorizePayment", "RecordDecision")
    BY <1>2, <2>1 DEF Transitions
  <2>2. CASE /\ Undo(a, FALSE, workflow[a].reservation)
             /\ pending' = [pending EXCEPT ![a] = "payment_declined"]
    BY <2>2 DEF TypeOK, Undo, Goto, ReplyInv
  <2> QED
    BY <1>7, <2>1, <2>2 DEF AuthorizePayment
<1> QED
  BY <1>1, <1>3, <1>4, <1>5, <1>6, <1>7

LEMMA RecordReplies ==
    ASSUME TypeOK, NEW a \in Attempts, RecordDecision(a)
    PROVE  ReplyInv(a)'
<1>1. ASSUME NEW outcome, NEW entries, Recorded(a, outcome, entries)
      PROVE  ReplyInv(a)'
  BY <1>1, RecordedLocal, UnderwayReplies
<1>2. ASSUME NEW code, RecordUnknown(a, code)
      PROVE  ReplyInv(a)'
  BY <1>2, SuspendLocal, UnderwayReplies DEF RecordUnknown
<1>3. ASSUME NEW code, RecordFails(a, code)
      PROVE  ReplyInv(a)'
  <2>1. pc'[a] = "Compensate"
    BY <1>3, SuspendLocal DEF RecordFails
  <2>2. Entered \in Seq(TraceEntry) /\ Trace(a, Entered)
    BY <1>3, EntriesType DEF RecordFails, Suspend
  <2>3. LastEntry(a)' = <<"RecordDecision", "entered">>
    BY <2>2, LastOfTrace DEF Entered
  <2> QED
    BY <2>1, <2>3 DEF ReplyInv
<1> QED
  BY <1>1, <1>2, <1>3, EarlyReplies
     DEF RecordDecision, RecordWriteFailure, RecordDefiniteFailure, RecordInserted,
         RecordCommitLost, RecordExisting

LEMMA ReconcileReplies ==
    ASSUME TypeOK, NEW a \in Attempts, ExecutionInv(a), Reconcile(a)
    PROVE  ReplyInv(a)'
<1>1. ASSUME NEW outcome, NEW entries, Recorded(a, outcome, entries)
      PROVE  ReplyInv(a)'
  BY <1>1, RecordedLocal, UnderwayReplies
<1>2. ASSUME NEW code, code # "idempotency_key_conflict",
             Suspend(a, "Compensate", code, <<>>)
      PROVE  ReplyInv(a)'
  BY <1>2, SuspendLocal DEF ReplyInv
<1>3. CASE /\ Goto(a, "answered")
           /\ Trace(a, << <<"RecordDecision", "fault">> >>)
           /\ answer' = [answer EXCEPT ![a] =
                           Fault(pending[a], "RecordDecision", TRUE, TRUE, {})]
  <2>1. /\ pc'[a] = "answered"
        /\ answer'[a] = Fault(pending[a], "RecordDecision", TRUE, TRUE, {})
    BY <1>3 DEF TypeOK, Goto
  <2>2. pending[a] \in RecordCodes \ ConflictCodes
    BY DEF ExecutionInv, Reconcile, UnknownCodes, RecordCodes, ConflictPathCodes,
           CommitLost, ConflictCodes
  <2>3. FaultStatus(pending[a]) = 503 /\ pending[a] # "ok"
    BY <2>2, RecordCodeStatus
  <2>4. Consistent(answer'[a])
    <3>1. Consistent(Fault(pending[a], "RecordDecision", TRUE, TRUE, {}))
      BY <2>3 DEF Consistent, Fault, Status
    <3> QED
      BY <2>1, <3>1
  <2>5. LastEntry(a)' = <<"RecordDecision", "fault">>
    BY <1>3, EntriesType, LastOfTrace
  <2>6. TraceEnd(answer'[a]) = <<"RecordDecision", "fault">>
    BY <2>1, <2>2, <2>3 DEF TraceEnd, Fault, ConflictCodes
  <2> QED
    BY <2>1, <2>4, <2>5, <2>6 DEF ReplyInv
<1> QED
  BY <1>1, <1>2, <1>3 DEF Reconcile, Absent

LEMMA CompensateReplies ==
    ASSUME TypeOK, NEW a \in Attempts, ReplyInv(a), CompensateDecision(a)
    PROVE  ReplyInv(a)'
<1>1. /\ pc[a] = "Compensate"
      /\ pc'[a] = "ReturnFault"
      /\ UNCHANGED <<pending, traces>>
  BY DEF TypeOK, CompensateDecision, Undo, Goto
<1> QED
  BY <1>1 DEF ReplyInv, LastEntry

LEMMA ReturnReplies ==
    ASSUME TypeOK, NEW a \in Attempts, ReplyInv(a),
           pending[a] \in RecordCodes \cup {"payment_declined"}, ReturnFault(a)
    PROVE  ReplyInv(a)'
<1> DEFINE code  == pending[a]
           comps == workflow[a].undone
           step  == IF code = "payment_declined" THEN "AuthorizePayment"
                                                 ELSE "RecordDecision"
           retry == code \notin ConflictCodes \cup BusinessCodes
<1>1. /\ pc[a] = "ReturnFault"
      /\ pc'[a] = "answered"
      /\ answer'[a] = Fault(code, step, retry, FALSE, comps)
  BY DEF TypeOK, ReturnFault, Goto
<1>2. code # "ok" /\ (retry => FaultStatus(code) = 503)
  BY RecordCodeStatus DEF BusinessCodes
<1>3. step \in Transitions
  BY DEF Transitions
<1>4. code # "payment_declined" => step = "RecordDecision"
  OBVIOUS
<1>5. Trace(a, IF code = "idempotency_key_conflict" THEN <<>>
                                                    ELSE << <<step, "fault">> >>)
  BY DEF ReturnFault
<1> HIDE DEF comps, step, retry
<1>6. Consistent(answer'[a])
  <2>1. Consistent(Fault(code, step, retry, FALSE, comps))
    BY <1>2 DEF Consistent, Fault, Status
  <2> QED
    BY <1>1, <2>1
<1>7. CASE code = "idempotency_key_conflict"
  <2>1. traces'[a] = traces[a]
    BY <1>5, <1>7 DEF Trace, TypeOK
  <2>2. LastEntry(a)' = <<"RecordDecision", "entered">>
    BY <1>1, <1>7, <2>1 DEF ReplyInv, LastEntry
  <2>3. TraceEnd(answer'[a]) = <<"RecordDecision", "entered">>
    BY <1>1, <1>4, <1>7 DEF TraceEnd, Fault
  <2> QED
    BY <1>1, <1>6, <2>2, <2>3 DEF ReplyInv
<1>8. CASE code # "idempotency_key_conflict"
  <2>1. Trace(a, << <<step, "fault">> >>)
    BY <1>5, <1>8
  <2>2. LastEntry(a)' = <<step, "fault">>
    BY <1>3, <2>1, EntriesType, LastOfTrace
  <2>3. TraceEnd(answer'[a]) = <<step, "fault">>
    BY <1>1, <1>2, <1>8 DEF TraceEnd, Fault
  <2> QED
    BY <1>1, <1>6, <2>2, <2>3 DEF ReplyInv
<1> QED
  BY <1>7, <1>8

LEMMA CompleteReplies ==
    ASSUME TypeOK, NEW a \in Attempts, CompleteAuthorization(a)
    PROVE  ReplyInv(a)'
<1> DEFINE entries == << <<"CompleteAuthorization", "entered">>,
                         <<"CompleteAuthorization", "next">> >>
<1>1. /\ pc'[a] = "answered"
      /\ answer'[a] = Success(workflow[a].result)
  BY DEF TypeOK, CompleteAuthorization, Goto
<1>2. entries \in Seq(TraceEntry) /\ Trace(a, entries)
  BY EntriesType DEF CompleteAuthorization, Transitions
<1>3. LastEntry(a)' = <<"CompleteAuthorization", "next">>
  BY <1>2, LastOfTrace
<1>4. TraceEnd(answer'[a]) = <<"CompleteAuthorization", "next">>
  BY <1>1 DEF TraceEnd, Success
<1>5. Consistent(answer'[a])
  BY <1>1 DEF Consistent, Success
<1> QED
  BY <1>1, <1>3, <1>4, <1>5 DEF ReplyInv

LEMMA RepliesInit == Init => RepliesInv
BY DEF Init, RepliesInv, ReplyInv

LEMMA RepliesStep == TypeInv /\ DurableInv /\ RepliesInv /\ [Next]_vars => RepliesInv'
<1> SUFFICES ASSUME TypeInv, DurableInv, RepliesInv, [Next]_vars
             PROVE  RepliesInv'
  OBVIOUS
<1>1. TypeOK
  BY DEF TypeInv
<1>2. ASSUME NEW b \in Attempts, Same(b), traces'[b] = traces[b]
      PROVE  ReplyInv(b)'
  BY <1>2 DEF Same, RepliesInv, ReplyInv, LastEntry
<1>3. ASSUME NEW a \in Attempts, Step(a)
      PROVE  RepliesInv'
  <2>1. pc[a] = "ReturnFault" => pending[a] \in RecordCodes \cup {"payment_declined"}
    BY DEF TypeInv, PendingIsSet
  <2>2. ReplyInv(a)'
    BY <1>1, <1>3, <2>1, EarlyReplies, RecordReplies, ReconcileReplies,
       CompensateReplies, ReturnReplies, CompleteReplies
       DEF Step, Run, ReturnFault, DurableInv, RepliesInv
  <2>3. \A b \in Attempts \ {a} : ReplyInv(b)'
    BY <1>1, <1>2, <1>3, StepIsLocal, TracesLocal
  <2> QED
    BY <2>2, <2>3 DEF RepliesInv
<1>4. CASE Restart
  BY <1>4 DEF Restart, RepliesInv, ReplyInv, InFlight
<1>5. CASE Settle \/ UNCHANGED vars
  BY <1>2, <1>5 DEF Settle, vars, attemptVars, Same, RepliesInv
<1> QED
  BY <1>3, <1>4, <1>5 DEF Next, Proceed, Step, Quiescent

(***************************************************************************)
(* The inductive invariant of the replies: what each execution has told is *)
(* consistent, and its trace ends as its answer does, or will.             *)
(***************************************************************************)
THEOREM RepliesInvariance == Spec => []RepliesInv
<1>1. Spec => Init /\ [][Next]_vars
  BY DEF Spec
<1> QED
  BY <1>1, RepliesInit, RepliesStep, TypeCorrectness, DurableInvariance, PTL

(***************************************************************************)
(* "retryable" comes with a 503 only, and who calls an operator has        *)
(* compensated nothing.                                                    *)
(***************************************************************************)
THEOREM FaultsToldConsistently == Spec => []FaultsAreConsistent
<1>1. RepliesInv => FaultsAreConsistent
  BY DEF RepliesInv, ReplyInv, Consistent, FaultsAreConsistent, Answered
<1> QED
  BY <1>1, RepliesInvariance, PTL

(***************************************************************************)
(* The trace of an execution ends as its answer says.                      *)
(***************************************************************************)
THEOREM TracesEndAsAnswered == Spec => []TracesTellAnswers
<1>1. RepliesInv => TracesTellAnswers
  BY DEF RepliesInv, ReplyInv, TraceEnd, TracesTellAnswers, Answered
<1> QED
  BY <1>1, RepliesInvariance, PTL

-----------------------------------------------------------------------------
(***************************************************************************)
(* Part 2, the effect ledger: proofs of NoOrphanedEffects, of              *)
(* EventsTellLedger and of UndoneEffectsAreTold.                           *)
(*                                                                         *)
(* That no effect is left behind needs to know when an execution holds     *)
(* effects (HeldInv), and that one which completes while it holds some has *)
(* an approved row (DurableInv).  A step of an execution then either keeps *)
(* its effects accounted for, undoes them, or ends with an approved order. *)
(***************************************************************************)
\* no reservation before ReserveInventory has run, no payment before
\* AuthorizePayment has, and neither once the policy decides
HeldInv(a) ==
    /\ pc[a] \in {"ScreenPolicy", "ReserveInventory"} => ~workflow[a].reservation
    /\ pc[a] \in {"ScreenPolicy", "ReserveInventory", "AuthorizePayment"} =>
         ~workflow[a].payment
    /\ pc[a] \in InFlight /\ (workflow[a].reservation \/ workflow[a].payment) =>
         PolicyResult(request[a]) = "none"

EffectsInv ==
    /\ NoOrphanedEffects
    /\ \A a \in Attempts : HeldInv(a)

Accounted(a) ==
    \/ pc[a] \in InFlight \ {"ReturnFault"}
    \/ pc[a] = "dropped"
    \/ Answered(a) /\ answer[a].operator

(***************************************************************************)
(* What a step of execution a may do to the ledger and to what it holds.   *)
(***************************************************************************)
EffectStep(a) ==
    /\ \A o \in reservations' \ reservations :
         o = request[a].order /\ workflow'[a].reservation /\ Accounted(a)'
    /\ \A o \in payments' \ payments :
         o = request[a].order /\ workflow'[a].payment /\ Accounted(a)'
    /\ workflow[a].reservation /\ Accounted(a) =>
         \/ workflow'[a].reservation /\ Accounted(a)'
         \/ request[a].order \notin reservations'
         \/ ApprovedOrder(request[a].order)
    /\ workflow[a].payment /\ Accounted(a) =>
         \/ workflow'[a].payment /\ Accounted(a)'
         \/ request[a].order \notin payments'
         \/ ApprovedOrder(request[a].order)

LEMMA EffectStepKeeps ==
    ASSUME NoOrphanedEffects, NEW a \in Attempts, EffectStep(a),
           request'[a] = request[a], \A b \in Attempts \ {a} : Same(b),
           decisions \subseteq decisions'
    PROVE  NoOrphanedEffects'
<1>1. \A o : ApprovedOrder(o) => ApprovedOrder(o)'
  BY DEF ApprovedOrder
<1>2. \A b \in Attempts : request'[b] = request[b]
  BY DEF Same
<1>3. \A b \in Attempts \ {a} : \A o : Accountable(b, o) => Accountable(b, o)'
  BY DEF Same, Accountable, Answered
<1>4. \A o : /\ Accountable(a, o) <=> request[a].order = o /\ Accounted(a)
             /\ Accountable(a, o)' <=> request[a].order = o /\ Accounted(a)'
  BY <1>2 DEF Accountable, Accounted
<1>5. ASSUME NEW o \in Orders, o \in reservations'
      PROVE  \/ ApprovedOrder(o)'
             \/ \E b \in Attempts : workflow'[b].reservation /\ Accountable(b, o)'
  <2>1. CASE o \notin reservations
    BY <1>4, <1>5, <2>1 DEF EffectStep
  <2>2. CASE ApprovedOrder(o)
    BY <1>1, <2>2
  <2>3. CASE \E b \in Attempts : workflow[b].reservation /\ Accountable(b, o)
    <3>1. PICK b \in Attempts : workflow[b].reservation /\ Accountable(b, o)
      BY <2>3
    <3>2. CASE b = a
      BY <1>1, <1>4, <1>5, <3>1, <3>2 DEF EffectStep
    <3>3. CASE b # a
      BY <1>3, <3>1, <3>3 DEF Same
    <3> QED
      BY <3>2, <3>3
  <2> QED
    BY <2>1, <2>2, <2>3 DEF NoOrphanedEffects
<1>6. ASSUME NEW o \in Orders, o \in payments'
      PROVE  \/ ApprovedOrder(o)'
             \/ \E b \in Attempts : workflow'[b].payment /\ Accountable(b, o)'
  <2>1. CASE o \notin payments
    BY <1>4, <1>6, <2>1 DEF EffectStep
  <2>2. CASE ApprovedOrder(o)
    BY <1>1, <2>2
  <2>3. CASE \E b \in Attempts : workflow[b].payment /\ Accountable(b, o)
    <3>1. PICK b \in Attempts : workflow[b].payment /\ Accountable(b, o)
      BY <2>3
    <3>2. CASE b = a
      BY <1>1, <1>4, <1>6, <3>1, <3>2 DEF EffectStep
    <3>3. CASE b # a
      BY <1>3, <3>1, <3>3 DEF Same
    <3> QED
      BY <3>2, <3>3
  <2> QED
    BY <2>1, <2>2, <2>3 DEF NoOrphanedEffects
<1> QED
  BY <1>5, <1>6 DEF NoOrphanedEffects

-----------------------------------------------------------------------------
(***************************************************************************)
(* Steps that leave the ledger and what the execution holds alone, and     *)
(* after which it is still accountable.                                    *)
(***************************************************************************)
Keeps(a) ==
    /\ UNCHANGED ledgerVars
    /\ request'[a] = request[a]
    /\ workflow'[a].reservation = workflow[a].reservation
    /\ workflow'[a].payment = workflow[a].payment

LEMMA KeepsStep ==
    ASSUME NEW a \in Attempts, Keeps(a), Accounted(a)'
    PROVE  EffectStep(a)
BY DEF Keeps, EffectStep, ledgerVars

\* in particular steps of an execution that holds nothing
LEMMA HoldsNothingStep ==
    ASSUME NEW a \in Attempts, Keeps(a),
           ~workflow[a].reservation, ~workflow[a].payment
    PROVE  EffectStep(a)
BY DEF Keeps, EffectStep, ledgerVars

LEMMA EarlySteps ==
    ASSUME TypeOK, NEW a \in Attempts, ExecutionInv(a), HeldInv(a),
           Arrive(a) \/ ValidateRequest(a) \/ ResolveIdempotency(a) \/ ScreenPolicy(a)
    PROVE  EffectStep(a) /\ HeldInv(a)' /\ request'[a] = request[a]
<1>0. pc[a] \in {"idle", "ValidateRequest", "ResolveIdempotency", "ScreenPolicy"}
  BY DEF Arrive, ValidateRequest, ResolveIdempotency, ScreenPolicy
<1>1. ~workflow[a].reservation /\ ~workflow[a].payment
  BY <1>0 DEF ExecutionInv, HeldInv, FreshWorkflow
<1>2. Keeps(a)
  <2>1. workflow \in [Attempts -> WorkflowState] /\ workflow[a] \in WorkflowState
    BY DEF TypeOK
  <2>2. UNCHANGED <<request, ledgerVars>>
    BY DEF Arrive, ValidateRequest, ResolveIdempotency, ScreenPolicy, Advance, FailAt
  <2>3. CASE workflow' = workflow
    BY <2>2, <2>3 DEF Keeps
  <2>4. CASE \E d : workflow' = [workflow EXCEPT ![a].replayed = TRUE,
                                               ![a].result = d.outcome]
    <3>1. PICK d : workflow'[a] = [workflow[a] EXCEPT !.replayed = TRUE,
                                                      !.result = d.outcome]
      BY <2>1, <2>4
    <3> QED
      BY <2>1, <2>2, <3>1 DEF Keeps, WorkflowState
  <2>5. CASE \E r : workflow' = [workflow EXCEPT ![a].result = r]
    <3>1. PICK r : workflow'[a] = [workflow[a] EXCEPT !.result = r]
      BY <2>1, <2>5
    <3> QED
      BY <2>1, <2>2, <3>1 DEF Keeps, WorkflowState
  <2> QED
    BY <2>3, <2>4, <2>5
       DEF Arrive, ValidateRequest, ResolveIdempotency, ScreenPolicy, FailAt
<1>3. HeldInv(a)'
  BY <1>1, <1>2 DEF Keeps, HeldInv
<1> QED
  BY <1>1, <1>2, <1>3, HoldsNothingStep DEF Keeps

LEMMA ReserveStep ==
    ASSUME TypeOK, NEW a \in Attempts, ExecutionInv(a), HeldInv(a),
           ReserveInventory(a)
    PROVE  EffectStep(a) /\ HeldInv(a)' /\ request'[a] = request[a]
<1>0. /\ pc[a] = "ReserveInventory"
      /\ ~workflow[a].reservation
      /\ ~workflow[a].payment
      /\ request' = request
      /\ workflow \in [Attempts -> WorkflowState]
  BY DEF HeldInv, ReserveInventory, Advance, FailAt, TypeOK
<1>1. CASE UNCHANGED <<workflow, ledgerVars>>
  <2>1. Keeps(a)
    BY <1>0, <1>1 DEF Keeps
  <2> QED
    BY <1>0, <2>1, HoldsNothingStep DEF Keeps, HeldInv
<1>2. CASE /\ NeedsEffects(a)
           /\ Reserve(request[a].order)
           /\ workflow' = [workflow EXCEPT ![a].reservation = TRUE]
           /\ Advance(a, "ReserveInventory", "AuthorizePayment")
  <2>1. /\ workflow'[a].reservation
        /\ ~workflow'[a].payment
        /\ pc'[a] = "AuthorizePayment"
    BY <1>0, <1>2, AdvanceLocal DEF WorkflowState
  <2>2. PolicyResult(request[a]) = "none"
    BY <1>0, <1>2 DEF ExecutionInv, NeedsEffects, Deciding, InFlight, Transitions
  <2>3. Accounted(a)'
    BY <2>1 DEF Accounted, InFlight, Transitions
  <2>4. EffectStep(a)
    BY <1>0, <1>2, <2>1, <2>3 DEF EffectStep, Reserve
  <2>5. HeldInv(a)'
    BY <1>0, <2>1, <2>2 DEF HeldInv
  <2> QED
    BY <1>0, <2>4, <2>5
<1>3. CASE FailAt(a, "ReserveInventory", "inventory_out_of_stock", FALSE, FALSE, {})
           /\ UNCHANGED ledgerVars
  <2>1. Keeps(a)
    BY <1>0, <1>3 DEF Keeps, FailAt
  <2> QED
    BY <1>0, <2>1, HoldsNothingStep DEF Keeps, HeldInv
<1> QED
  BY <1>1, <1>2, <1>3 DEF ReserveInventory

\* a compensation takes back all that the execution holds
LEMMA UndoEffects ==
    ASSUME TypeOK, NEW a \in Attempts, NEW void, HeldInv(a), pc[a] \in InFlight,
           workflow[a].payment => void, Undo(a, void, workflow[a].reservation)
    PROVE  EffectStep(a) /\ HeldInv(a)' /\ request'[a] = request[a]
<1>1. /\ pc'[a] = "ReturnFault"
      /\ request'[a] = request[a]
      /\ workflow'[a].reservation = workflow[a].reservation
      /\ workflow'[a].payment = workflow[a].payment
  BY DEF TypeOK, WorkflowState, Undo, Goto
<1>2. EffectStep(a)
  BY <1>1 DEF EffectStep, Undo, Compensate
<1>3. HeldInv(a)'
  BY <1>1 DEF HeldInv
<1> QED
  BY <1>1, <1>2, <1>3

LEMMA AuthorizeStep ==
    ASSUME TypeOK, NEW a \in Attempts, ExecutionInv(a), HeldInv(a),
           AuthorizePayment(a)
    PROVE  EffectStep(a) /\ HeldInv(a)' /\ request'[a] = request[a]
<1>0. /\ pc[a] = "AuthorizePayment"
      /\ ~workflow[a].payment
      /\ request' = request
      /\ workflow \in [Attempts -> WorkflowState]
  BY DEF HeldInv, AuthorizePayment, Advance, Undo, TypeOK
<1>1. CASE /\ Advance(a, "AuthorizePayment", "RecordDecision")
           /\ UNCHANGED <<workflow, ledgerVars>>
  <2>1. Keeps(a)
    BY <1>0, <1>1 DEF Keeps
  <2>2. pc'[a] = "RecordDecision"
    BY <1>1, AdvanceLocal
  <2>3. Accounted(a)'
    BY <2>2 DEF Accounted, InFlight, Transitions
  <2>4. HeldInv(a)'
    BY <1>0, <2>1, <2>2 DEF Keeps, HeldInv, InFlight, Transitions
  <2> QED
    BY <1>0, <2>1, <2>3, <2>4, KeepsStep
<1>2. CASE Undo(a, FALSE, workflow[a].reservation)
  BY <1>0, <1>2, UndoEffects DEF InFlight, Transitions
<1>3. CASE /\ NeedsEffects(a)
           /\ Authorize(request[a].order)
           /\ workflow' = [workflow EXCEPT ![a].payment = TRUE]
           /\ Advance(a, "AuthorizePayment", "RecordDecision")
  <2>1. /\ workflow'[a].reservation = workflow[a].reservation
        /\ workflow'[a].payment
        /\ pc'[a] = "RecordDecision"
    BY <1>0, <1>3, AdvanceLocal DEF WorkflowState
  <2>2. PolicyResult(request[a]) = "none"
    BY <1>0, <1>3 DEF ExecutionInv, NeedsEffects, Deciding, InFlight, Transitions
  <2>3. Accounted(a)'
    BY <2>1 DEF Accounted, InFlight, Transitions
  <2>4. EffectStep(a)
    BY <1>0, <1>3, <2>1, <2>3 DEF EffectStep, Authorize
  <2>5. HeldInv(a)'
    BY <1>0, <2>1, <2>2 DEF HeldInv
  <2> QED
    BY <1>0, <2>4, <2>5
<1> QED
  BY <1>1, <1>2, <1>3 DEF AuthorizePayment

-----------------------------------------------------------------------------
(***************************************************************************)
(* RecordDecision and what follows keep everything until the compensation, *)
(* an operator, or the completion of an approved order.                    *)
(***************************************************************************)
LEMMA KeepsHeld ==
    ASSUME NEW a \in Attempts, HeldInv(a), Keeps(a), pc[a] \in InFlight,
           pc'[a] \notin {"ScreenPolicy", "ReserveInventory", "AuthorizePayment"}
    PROVE  HeldInv(a)'
BY DEF Keeps, HeldInv

LEMMA RecordedKeeps ==
    ASSUME TypeOK, NEW a \in Attempts, UNCHANGED ledgerVars,
           NEW outcome, NEW entries, Recorded(a, outcome, entries)
    PROVE  Keeps(a) /\ pc'[a] = "CompleteAuthorization"
<1>1. workflow \in [Attempts -> WorkflowState] /\ workflow[a] \in WorkflowState
  BY DEF TypeOK
<1>2. workflow'[a] = [workflow[a] EXCEPT !.result = outcome]
  BY <1>1 DEF Recorded
<1>3. /\ workflow'[a].reservation = workflow[a].reservation
      /\ workflow'[a].payment = workflow[a].payment
  BY <1>1, <1>2 DEF WorkflowState
<1> QED
  BY <1>3, RecordedLocal DEF Keeps

LEMMA RecordingKeeps ==
    ASSUME TypeOK, NEW a \in Attempts, RecordDecision(a)
    PROVE  /\ Keeps(a)
           /\ pc'[a] \in {"CompleteAuthorization", "Reconcile", "Compensate"}
<1>2. ASSUME UNCHANGED ledgerVars, NEW step, NEW code, NEW entries,
             Suspend(a, step, code, entries)
      PROVE  Keeps(a) /\ pc'[a] = step
  BY <1>2, SuspendLocal DEF Keeps
<1>4. CASE RecordReplayed(a)
  <2>1. pc'[a] = "CompleteAuthorization"
    BY <1>4, AdvanceLocal DEF RecordReplayed
  <2> QED
    BY <1>4, <2>1 DEF RecordReplayed, Advance, Keeps
<1>5. CASE RecordWriteFailure(a) \/ RecordDefiniteFailure(a) \/ RecordCommitLost(a)
  BY <1>2, <1>5
     DEF RecordWriteFailure, RecordDefiniteFailure, RecordCommitLost,
         RecordFails, RecordUnknown
<1>6. CASE RecordInserted(a) \/ RecordExisting(a)
  BY <1>2, <1>6, RecordedKeeps
     DEF RecordInserted, RecordExisting, RecordFails, RecordUnknown
<1> QED
  BY <1>4, <1>5, <1>6 DEF RecordDecision

LEMMA ReconcileKeeps ==
    ASSUME TypeOK, NEW a \in Attempts, Reconcile(a)
    PROVE  /\ Keeps(a)
           /\ Accounted(a)'
           /\ pc'[a] \in {"CompleteAuthorization", "Compensate", "answered"}
<1>1. /\ pc \in [Attempts -> InFlight \cup {"idle", "answered", "dropped"}]
      /\ answer \in [Attempts -> Answer]
      /\ UNCHANGED ledgerVars
  BY DEF TypeOK, Reconcile
<1>2. CASE \E outcome, entries : Recorded(a, outcome, entries)
  <2>1. Keeps(a) /\ pc'[a] = "CompleteAuthorization"
    BY <1>1, <1>2, RecordedKeeps
  <2> QED
    BY <2>1 DEF Accounted, InFlight, Transitions
<1>3. CASE \E code, entries : Suspend(a, "Compensate", code, entries)
  <2>1. Keeps(a) /\ pc'[a] = "Compensate"
    BY <1>1, <1>3, SuspendLocal DEF Keeps
  <2> QED
    BY <2>1 DEF Accounted, InFlight
<1>4. CASE /\ Goto(a, "answered")
           /\ answer' = [answer EXCEPT ![a] =
                           Fault(pending[a], "RecordDecision", TRUE, TRUE, {})]
           /\ UNCHANGED <<request, workflow, pending>>
  <2>1. pc'[a] = "answered" /\ answer'[a].operator = TRUE
    BY <1>1, <1>4 DEF Goto, Fault
  <2>2. Keeps(a)
    BY <1>1, <1>4 DEF Keeps
  <2> QED
    BY <2>1, <2>2 DEF Accounted, Answered
<1> QED
  BY <1>2, <1>3, <1>4 DEF Reconcile

LEMMA RecordSteps ==
    ASSUME TypeOK, NEW a \in Attempts, HeldInv(a),
           RecordDecision(a) \/ Reconcile(a)
    PROVE  EffectStep(a) /\ HeldInv(a)' /\ request'[a] = request[a]
<1>1. pc[a] \in InFlight
  BY DEF RecordDecision, RecordReplayed, RecordWriteFailure, RecordDefiniteFailure,
         RecordInserted, RecordCommitLost, RecordExisting, Writes, CallsStore,
         Reconcile, InFlight, Transitions
<1>2. /\ Keeps(a)
      /\ Accounted(a)'
      /\ pc'[a] \notin {"ScreenPolicy", "ReserveInventory", "AuthorizePayment"}
  BY RecordingKeeps, ReconcileKeeps DEF Accounted, InFlight, Transitions
<1> QED
  BY <1>1, <1>2, KeepsStep, KeepsHeld DEF Keeps

LEMMA CompensateStep ==
    ASSUME TypeOK, NEW a \in Attempts, HeldInv(a), CompensateDecision(a)
    PROVE  EffectStep(a) /\ HeldInv(a)' /\ request'[a] = request[a]
<1>1. /\ pc[a] \in InFlight
      /\ Undo(a, workflow[a].payment, workflow[a].reservation)
  BY DEF CompensateDecision, InFlight
<1> QED
  BY <1>1, UndoEffects

\* what it held is undone, so it has nothing left to account for
LEMMA ReturnStep ==
    ASSUME TypeOK, NEW a \in Attempts, ReturnFault(a)
    PROVE  EffectStep(a) /\ HeldInv(a)' /\ request'[a] = request[a]
<1>1. /\ pc[a] = "ReturnFault"
      /\ pc'[a] = "answered"
      /\ UNCHANGED <<request, workflow, ledgerVars>>
  BY DEF TypeOK, ReturnFault, Goto
<1>2. ~Accounted(a)
  BY <1>1 DEF Accounted, Answered
<1>3. EffectStep(a)
  BY <1>1, <1>2 DEF EffectStep, ledgerVars
<1>4. HeldInv(a)'
  BY <1>1 DEF HeldInv, InFlight, Transitions
<1> QED
  BY <1>1, <1>3, <1>4

(***************************************************************************)
(* An execution that completes while it holds effects has an approved row. *)
(***************************************************************************)
LEMMA CompleteStep ==
    ASSUME TypeOK, NEW a \in Attempts, RowsAreVerdicts, ExecutionInv(a),
           HeldInv(a), CompleteAuthorization(a)
    PROVE  EffectStep(a) /\ HeldInv(a)' /\ request'[a] = request[a]
<1>1. /\ pc[a] = "CompleteAuthorization"
      /\ pc'[a] = "answered"
      /\ UNCHANGED <<request, workflow, ledgerVars>>
  BY DEF TypeOK, CompleteAuthorization, Goto
<1>2. HeldInv(a)'
  BY <1>1 DEF HeldInv, InFlight, Transitions
<1>3. CASE ~workflow[a].reservation /\ ~workflow[a].payment
  <2>1. Keeps(a)
    BY <1>1 DEF Keeps
  <2> QED
    BY <1>1, <1>2, <1>3, <2>1, HoldsNothingStep
<1>4. CASE workflow[a].reservation \/ workflow[a].payment
  <2>1. PolicyResult(request[a]) = "none"
    BY <1>1, <1>4 DEF HeldInv, InFlight, Transitions
  <2>2. ResultRow(a) \in decisions
    BY <1>1 DEF ExecutionInv
  <2>3. /\ Eligible(request[a])
        /\ workflow[a].result = WorkflowVerdict(request[a])
    BY <2>2 DEF RowsAreVerdicts, Rows, ResultRow
  <2>4. workflow[a].result = "approved"
    BY <2>1, <2>3 DEF WorkflowVerdict
  <2>5. ApprovedOrder(request[a].order)
    BY <2>2, <2>4 DEF ApprovedOrder, ResultRow
  <2>6. EffectStep(a)
    BY <1>1, <2>5 DEF EffectStep, ledgerVars
  <2> QED
    BY <1>1, <1>2, <2>6
<1> QED
  BY <1>3, <1>4

LEMMA LeavingStep ==
    ASSUME TypeOK, NEW a \in Attempts, Drop(a) \/ AbandonCommit(a)
    PROVE  EffectStep(a) /\ HeldInv(a)' /\ request'[a] = request[a]
<1>1. Keeps(a) /\ pc'[a] = "dropped"
  BY DEF TypeOK, Drop, AbandonCommit, Goto, Keeps
<1>2. Accounted(a)'
  BY <1>1 DEF Accounted
<1>3. HeldInv(a)'
  BY <1>1 DEF HeldInv, InFlight, Transitions
<1> QED
  BY <1>1, <1>2, <1>3, KeepsStep DEF Keeps

-----------------------------------------------------------------------------
LEMMA EffectsInit == Init => EffectsInv
<1> SUFFICES ASSUME Init PROVE EffectsInv
  OBVIOUS
<1>1. reservations = {} /\ payments = {}
  BY DEF Init, LedgerInit
<1>2. \A a \in Attempts : pc[a] = "idle"
  BY DEF Init
<1> QED
  BY <1>1, <1>2 DEF EffectsInv, NoOrphanedEffects, HeldInv, InFlight, Transitions

LEMMA EffectsStep == TypeOK /\ DurableInv /\ EffectsInv /\ [Next]_vars => EffectsInv'
<1> SUFFICES ASSUME TypeOK, DurableInv, EffectsInv, [Next]_vars PROVE EffectsInv'
  OBVIOUS
<1>1. ASSUME NEW a \in Attempts, Step(a) PROVE EffectsInv'
  <2>1. EffectStep(a) /\ HeldInv(a)' /\ request'[a] = request[a]
    BY <1>1, EarlySteps, ReserveStep, AuthorizeStep, RecordSteps, CompensateStep,
       ReturnStep, CompleteStep, LeavingStep
       DEF Step, Run, DurableInv, EffectsInv
  <2>2. \A b \in Attempts \ {a} : Same(b)
    BY <1>1, StepIsLocal
  <2>3. \A b \in Attempts \ {a} : HeldInv(b)'
    BY <2>2 DEF Same, HeldInv, EffectsInv
  <2>4. NoOrphanedEffects'
    BY <1>1, <2>1, <2>2, StepRows, EffectStepKeeps DEF EffectsInv
  <2> QED
    BY <2>1, <2>3, <2>4 DEF EffectsInv
<1>2. CASE Settle
  <2>1. /\ decisions \subseteq decisions'
        /\ UNCHANGED <<request, pc, workflow, answer, reservations, payments>>
    BY <1>2 DEF Settle, SettleCommit, SettleAbort, attemptVars, ledgerVars
  <2> QED
    BY <2>1 DEF EffectsInv, NoOrphanedEffects, ApprovedOrder, Accountable, Answered,
                HeldInv
<1>3. CASE Restart
  <2>1. reservations' = {} /\ payments' = {} /\ \A a \in Attempts : workflow'[a] = FreshWorkflow
    BY <1>3 DEF Restart
  <2> QED
    BY <2>1 DEF EffectsInv, NoOrphanedEffects, HeldInv, FreshWorkflow
<1>4. CASE UNCHANGED vars
  BY <1>4 DEF vars, attemptVars, ledgerVars, storeVars, EffectsInv, NoOrphanedEffects,
              ApprovedOrder, Accountable, Answered, HeldInv
<1> QED
  BY <1>1, <1>2, <1>3, <1>4 DEF Next, Proceed, Step, Quiescent

(***************************************************************************)
(* Every active effect has an approved order, an execution or an operator  *)
(* that accounts for it, whatever fails, drops or restarts.                *)
(***************************************************************************)
THEOREM EffectsAreAccountedFor == Spec => []NoOrphanedEffects
<1>1. Spec => Init /\ [][Next]_vars
  BY DEF Spec
<1>2. EffectsInv => NoOrphanedEffects
  BY DEF EffectsInv
<1> QED
  BY <1>1, <1>2, EffectsInit, EffectsStep, TypesAreCorrect, DurableInvariance, PTL

-----------------------------------------------------------------------------
(***************************************************************************)
(* The log tells the ledger: proof of EventsTellLedger, which is inductive *)
(* as it stands.                                                           *)
(*                                                                         *)
(* How one more event changes what a log says of an effect that `do'       *)
(* applies and `undo' undoes: an event of another kind changes nothing,    *)
(* and applying or undoing it keeps the log alternating when it is not, or *)
(* is, applied.                                                            *)
(***************************************************************************)
LEMMA AppendIndices ==
    ASSUME NEW log \in Seq(EventActions), NEW e \in EventActions
    PROVE  /\ Len(log) \in Nat
           /\ DOMAIN log = 1..Len(log)
           /\ DOMAIN Append(log, e) = 1..(Len(log) + 1)
           /\ Len(Append(log, e)) = Len(log) + 1
           /\ \A i \in DOMAIN log : Append(log, e)[i] = log[i]
           /\ Append(log, e)[Len(log) + 1] = e
OBVIOUS

LEMMA AppendOther ==
    ASSUME NEW log \in Seq(EventActions), NEW do, NEW undo,
           NEW e \in EventActions \ {do, undo}, Alternates(log, do, undo)
    PROVE  /\ Alternates(Append(log, e), do, undo)
           /\ StillApplied(Append(log, e), do, undo) <=> StillApplied(log, do, undo)
<1> DEFINE n    == Len(log)
           more == Append(log, e)
<1>1. /\ n \in Nat
      /\ DOMAIN log = 1..n
      /\ DOMAIN more = 1..(n + 1)
      /\ Len(more) = n + 1
      /\ \A i \in 1..n : more[i] = log[i]
      /\ more[n + 1] = e
  BY AppendIndices
<1> HIDE DEF n, more
<1>2. Alternates(more, do, undo)
  <2> SUFFICES ASSUME NEW i \in 1..(n + 1), NEW j \in 1..(n + 1), i < j,
                      more[i] = more[j], more[i] \in {do, undo}
               PROVE  \E m \in i..j : more[m] \in {do, undo} \ {more[i]}
    BY <1>1 DEF Alternates
  <2>1. i \in 1..n /\ j \in 1..n
    BY <1>1
  <2>2. PICK m \in i..j : log[m] \in {do, undo} \ {log[i]}
    BY <1>1, <2>1 DEF Alternates
  <2> QED
    BY <1>1, <2>1, <2>2
<1>3. StillApplied(log, do, undo) => StillApplied(more, do, undo)
  <2> SUFFICES ASSUME NEW i \in 1..n, log[i] = do,
                      \A j \in (i + 1)..n : log[j] # undo
               PROVE  StillApplied(more, do, undo)
    BY <1>1 DEF StillApplied, n
  <2>1. \A j \in (i + 1)..(n + 1) : more[j] # undo
    BY <1>1
  <2> QED
    BY <1>1, <2>1 DEF StillApplied
<1>4. StillApplied(more, do, undo) => StillApplied(log, do, undo)
  <2> SUFFICES ASSUME NEW i \in 1..(n + 1), more[i] = do,
                      \A j \in (i + 1)..(n + 1) : more[j] # undo
               PROVE  StillApplied(log, do, undo)
    BY <1>1 DEF StillApplied
  <2>1. i \in 1..n
    BY <1>1
  <2>2. \A j \in (i + 1)..n : log[j] # undo
    BY <1>1, <2>1
  <2> QED
    BY <1>1, <2>1, <2>2 DEF StillApplied, n
<1> QED
  BY <1>2, <1>3, <1>4 DEF more

LEMMA AppendDo ==
    ASSUME NEW log \in Seq(EventActions), NEW do \in EventActions, NEW undo,
           do # undo, Alternates(log, do, undo), ~StillApplied(log, do, undo)
    PROVE  /\ Alternates(Append(log, do), do, undo)
           /\ StillApplied(Append(log, do), do, undo)
<1> DEFINE n    == Len(log)
           more == Append(log, do)
<1>1. /\ n \in Nat
      /\ DOMAIN log = 1..n
      /\ DOMAIN more = 1..(n + 1)
      /\ Len(more) = n + 1
      /\ \A i \in 1..n : more[i] = log[i]
      /\ more[n + 1] = do
  BY AppendIndices
<1>2. \A i \in 1..n : log[i] = do => \E j \in (i + 1)..n : log[j] = undo
  BY <1>1 DEF StillApplied
<1> HIDE DEF n, more
<1>3. Alternates(more, do, undo)
  <2> SUFFICES ASSUME NEW i \in 1..(n + 1), NEW j \in 1..(n + 1), i < j,
                      more[i] = more[j], more[i] \in {do, undo}
               PROVE  \E m \in i..j : more[m] \in {do, undo} \ {more[i]}
    BY <1>1 DEF Alternates
  <2>1. CASE j \in 1..n
    <3>1. PICK m \in i..j : log[m] \in {do, undo} \ {log[i]}
      BY <1>1, <2>1 DEF Alternates
    <3> QED
      BY <1>1, <2>1, <3>1
  <2>2. CASE j = n + 1
    <3>1. PICK m \in (i + 1)..n : log[m] = undo
      BY <1>1, <1>2, <2>2
    <3> QED
      BY <1>1, <2>2, <3>1
  <2> QED
    BY <1>1, <2>1, <2>2
<1>4. StillApplied(more, do, undo)
  BY <1>1 DEF StillApplied
<1> QED
  BY <1>3, <1>4 DEF more

LEMMA AppendUndo ==
    ASSUME NEW log \in Seq(EventActions), NEW do, NEW undo \in EventActions,
           do # undo, Alternates(log, do, undo), StillApplied(log, do, undo)
    PROVE  /\ Alternates(Append(log, undo), do, undo)
           /\ ~StillApplied(Append(log, undo), do, undo)
<1> DEFINE n    == Len(log)
           more == Append(log, undo)
<1>1. /\ n \in Nat
      /\ DOMAIN log = 1..n
      /\ DOMAIN more = 1..(n + 1)
      /\ Len(more) = n + 1
      /\ \A i \in 1..n : more[i] = log[i]
      /\ more[n + 1] = undo
  BY AppendIndices
<1>2. PICK k \in 1..n : log[k] = do /\ \A j \in (k + 1)..n : log[j] # undo
  BY <1>1 DEF StillApplied
<1> HIDE DEF n, more
<1>3. Alternates(more, do, undo)
  <2> SUFFICES ASSUME NEW i \in 1..(n + 1), NEW j \in 1..(n + 1), i < j,
                      more[i] = more[j], more[i] \in {do, undo}
               PROVE  \E m \in i..j : more[m] \in {do, undo} \ {more[i]}
    BY <1>1 DEF Alternates
  <2>1. CASE j \in 1..n
    <3>1. PICK m \in i..j : log[m] \in {do, undo} \ {log[i]}
      BY <1>1, <2>1 DEF Alternates
    <3> QED
      BY <1>1, <2>1, <3>1
  <2>2. CASE j = n + 1
    BY <1>1, <1>2, <2>2
  <2> QED
    BY <1>1, <2>1, <2>2
<1>4. ~StillApplied(more, do, undo)
  BY <1>1, <1>2 DEF StillApplied
<1> QED
  BY <1>3, <1>4 DEF more

(***************************************************************************)
(* The operations of the ledger keep each order's log true.                *)
(***************************************************************************)
LEMMA ReserveTells ==
    ASSUME LedgerTypeOK, EventsTellLedger, NEW o \in Orders, Reserve(o)
    PROVE  EventsTellLedger'
<1>1. CASE o \in reservations
  <2>1. reservations' = reservations /\ payments' = payments /\ events' = events
    BY <1>1 DEF Reserve
  <2> QED
    BY <2>1 DEF EventsTellLedger
<1>2. CASE o \notin reservations
  <2>1. /\ events'[o] = Append(events[o], "inventory_reserved")
        /\ \A p \in Orders \ {o} : events'[p] = events[p]
        /\ events[o] \in Seq(EventActions)
        /\ payments' = payments
        /\ reservations' = reservations \cup {o}
    BY <1>2 DEF LedgerTypeOK, Reserve
  <2>2. /\ Alternates(events'[o], "payment_authorized", "payment_voided")
        /\ o \in payments' <=>
             StillApplied(events'[o], "payment_authorized", "payment_voided")
    BY <2>1, AppendOther DEF EventsTellLedger, EventActions
  <2>3. /\ Alternates(events'[o], "inventory_reserved", "inventory_released")
        /\ StillApplied(events'[o], "inventory_reserved", "inventory_released")
    BY <1>2, <2>1, AppendDo DEF EventsTellLedger, EventActions
  <2> QED
    BY <2>1, <2>2, <2>3 DEF EventsTellLedger
<1> QED
  BY <1>1, <1>2

LEMMA AuthorizeTells ==
    ASSUME LedgerTypeOK, EventsTellLedger, NEW o \in Orders, Authorize(o)
    PROVE  EventsTellLedger'
<1>1. CASE o \in payments
  <2>1. reservations' = reservations /\ payments' = payments /\ events' = events
    BY <1>1 DEF Authorize
  <2> QED
    BY <2>1 DEF EventsTellLedger
<1>2. CASE o \notin payments
  <2>1. /\ events'[o] = Append(events[o], "payment_authorized")
        /\ \A p \in Orders \ {o} : events'[p] = events[p]
        /\ events[o] \in Seq(EventActions)
        /\ reservations' = reservations
        /\ payments' = payments \cup {o}
    BY <1>2 DEF LedgerTypeOK, Authorize
  <2>2. /\ Alternates(events'[o], "inventory_reserved", "inventory_released")
        /\ o \in reservations' <=>
             StillApplied(events'[o], "inventory_reserved", "inventory_released")
    BY <2>1, AppendOther DEF EventsTellLedger, EventActions
  <2>3. /\ Alternates(events'[o], "payment_authorized", "payment_voided")
        /\ StillApplied(events'[o], "payment_authorized", "payment_voided")
    BY <1>2, <2>1, AppendDo DEF EventsTellLedger, EventActions
  <2> QED
    BY <2>1, <2>2, <2>3 DEF EventsTellLedger
<1> QED
  BY <1>1, <1>2

(***************************************************************************)
(* What compensate appends for one effect: its undoing if it was applied,  *)
(* or nothing.                                                             *)
(***************************************************************************)
LEMMA UndoingTells ==
    ASSUME NEW log \in Seq(EventActions), NEW do, NEW undo \in EventActions,
           NEW entries \in {<<>>, <<undo>>}, do # undo,
           Alternates(log, do, undo),
           entries # <<>> => StillApplied(log, do, undo)
    PROVE  /\ Alternates(log \o entries, do, undo)
           /\ StillApplied(log \o entries, do, undo) <=>
                StillApplied(log, do, undo) /\ entries = <<>>
<1>1. CASE entries = <<>>
  <2>1. log \o entries = log
    BY <1>1
  <2> QED
    BY <1>1, <2>1
<1>2. CASE entries = <<undo>>
  <2>1. log \o entries = Append(log, undo) /\ entries # <<>>
    BY <1>2
  <2>2. /\ Alternates(Append(log, undo), do, undo)
        /\ ~StillApplied(Append(log, undo), do, undo)
    BY <2>1, AppendUndo
  <2> QED
    BY <2>1, <2>2
<1> QED
  BY <1>1, <1>2

LEMMA UndoingOtherTells ==
    ASSUME NEW log \in Seq(EventActions), NEW do, NEW undo,
           NEW e \in EventActions \ {do, undo}, NEW entries \in {<<>>, <<e>>},
           Alternates(log, do, undo)
    PROVE  /\ log \o entries \in Seq(EventActions)
           /\ Alternates(log \o entries, do, undo)
           /\ StillApplied(log \o entries, do, undo) <=> StillApplied(log, do, undo)
<1>1. CASE entries = <<>>
  <2>1. log \o entries = log
    BY <1>1
  <2> QED
    BY <2>1
<1>2. CASE entries = <<e>>
  <2>1. log \o entries = Append(log, e) /\ Append(log, e) \in Seq(EventActions)
    BY <1>2
  <2>2. /\ Alternates(Append(log, e), do, undo)
        /\ StillApplied(Append(log, e), do, undo) <=> StillApplied(log, do, undo)
    BY AppendOther
  <2> QED
    BY <2>1, <2>2
<1> QED
  BY <1>1, <1>2

LEMMA CompensateTells ==
    ASSUME LedgerTypeOK, EventsTellLedger, NEW o \in Orders, NEW void \in BOOLEAN,
           NEW release \in BOOLEAN, Compensate(o, void, release)
    PROVE  EventsTellLedger'
<1> DEFINE log     == events[o]
           voids   == VoidEvents(o, void)
           voided  == log \o voids
           freed   == ReleaseEvents(o, release)
<1>1. /\ log \in Seq(EventActions)
      /\ Alternates(log, "payment_authorized", "payment_voided")
      /\ Alternates(log, "inventory_reserved", "inventory_released")
      /\ o \in payments <=> StillApplied(log, "payment_authorized", "payment_voided")
      /\ o \in reservations <=>
           StillApplied(log, "inventory_reserved", "inventory_released")
  BY DEF LedgerTypeOK, EventsTellLedger
<1>2. /\ voids \in {<<>>, <<"payment_voided">>}
      /\ voids # <<>> => o \in payments
      /\ o \in payments' <=> o \in payments /\ voids = <<>>
  BY DEF Compensate, VoidEvents
<1>3. /\ freed \in {<<>>, <<"inventory_released">>}
      /\ freed # <<>> => o \in reservations
      /\ o \in reservations' <=> o \in reservations /\ freed = <<>>
  BY DEF Compensate, ReleaseEvents
<1>4. /\ events'[o] = voided \o freed
      /\ \A p \in Orders \ {o} : /\ events'[p] = events[p]
                                 /\ p \in payments <=> p \in payments'
                                 /\ p \in reservations <=> p \in reservations'
  BY DEF LedgerTypeOK, Compensate
<1>5. /\ voided \in Seq(EventActions)
      /\ Alternates(voided, "inventory_reserved", "inventory_released")
      /\ o \in reservations <=>
           StillApplied(voided, "inventory_reserved", "inventory_released")
  <2> HIDE DEF log, voids
  <2> QED
    BY <1>1, <1>2, UndoingOtherTells DEF EventActions
<1>6. /\ Alternates(voided, "payment_authorized", "payment_voided")
      /\ o \in payments' <=>
           StillApplied(voided, "payment_authorized", "payment_voided")
  <2> HIDE DEF log, voids
  <2> QED
    BY <1>1, <1>2, UndoingTells DEF EventActions
<1> HIDE DEF voided, freed
<1>7. /\ Alternates(voided \o freed, "inventory_reserved", "inventory_released")
      /\ o \in reservations' <=>
           StillApplied(voided \o freed, "inventory_reserved", "inventory_released")
  BY <1>3, <1>5, UndoingTells DEF EventActions
<1>8. /\ Alternates(voided \o freed, "payment_authorized", "payment_voided")
      /\ o \in payments' <=>
           StillApplied(voided \o freed, "payment_authorized", "payment_voided")
  BY <1>3, <1>5, <1>6, UndoingOtherTells DEF EventActions
<1> QED
  BY <1>4, <1>7, <1>8 DEF EventsTellLedger

(***************************************************************************)
(* What a step of an execution does to the ledger.                         *)
(***************************************************************************)
LEMMA StepLedger ==
    ASSUME TypeOK, NEW a \in Attempts, Step(a)
    PROVE  \/ UNCHANGED ledgerVars
           \/ Reserve(request[a].order) \/ Authorize(request[a].order)
           \/ \E void, release \in BOOLEAN :
                /\ Compensate(request[a].order, void, release)
                /\ pc'[a] = "ReturnFault"
                /\ workflow'[a].undone =
                     CompensationOutcomes(request[a].order, void, release)
<1>1. /\ pc \in [Attempts -> InFlight \cup {"idle", "answered", "dropped"}]
      /\ workflow \in [Attempts -> WorkflowState]
      /\ workflow[a].reservation \in BOOLEAN
      /\ workflow[a].payment \in BOOLEAN
  BY DEF TypeOK, WorkflowState
<1>2. ASSUME NEW void \in BOOLEAN, NEW release \in BOOLEAN, Undo(a, void, release)
      PROVE  /\ Compensate(request[a].order, void, release)
             /\ pc'[a] = "ReturnFault"
             /\ workflow'[a].undone =
                  CompensationOutcomes(request[a].order, void, release)
  <2> DEFINE told == CompensationOutcomes(request[a].order, void, release)
  <2>1. workflow' = [workflow EXCEPT ![a].undone = told]
    BY <1>2 DEF Undo
  <2>2. workflow'[a].undone = told
    <3> HIDE DEF told
    <3> QED
      BY <1>1, <2>1 DEF WorkflowState
  <2> QED
    BY <1>1, <1>2, <2>2 DEF Undo, Goto
<1>3. CASE AuthorizePayment(a)
  <2>1. CASE Undo(a, FALSE, workflow[a].reservation)
    <3> DEFINE void    == FALSE
               release == workflow[a].reservation
    <3>1. void \in BOOLEAN /\ release \in BOOLEAN /\ Undo(a, void, release)
      BY <1>1, <2>1
    <3> HIDE DEF void, release
    <3> QED
      BY <1>2, <3>1
  <2> QED
    BY <1>3, <2>1 DEF AuthorizePayment, ledgerVars
<1>4. CASE CompensateDecision(a)
  <2>1. Undo(a, workflow[a].payment, workflow[a].reservation)
    BY <1>4 DEF CompensateDecision
  <2> QED
    BY <1>1, <1>2, <2>1
<1>5. CASE ReserveInventory(a)
  BY <1>5 DEF ReserveInventory, ledgerVars
<1>6. CASE \/ Arrive(a) \/ Drop(a) \/ AbandonCommit(a) \/ ValidateRequest(a)
           \/ ResolveIdempotency(a) \/ ScreenPolicy(a) \/ Reconcile(a)
           \/ RecordDecision(a) \/ ReturnFault(a) \/ CompleteAuthorization(a)
  BY <1>6 DEF Arrive, Drop, AbandonCommit, ValidateRequest, ResolveIdempotency,
              ScreenPolicy, Reconcile, RecordDecision, RecordReplayed,
              RecordWriteFailure, RecordDefiniteFailure, RecordInserted,
              RecordCommitLost, RecordExisting, ReturnFault, CompleteAuthorization
<1> QED
  BY <1>3, <1>4, <1>5, <1>6 DEF Step, Run

LEMMA EventsInit == Init => EventsTellLedger
BY DEF Init, LedgerInit, EventsTellLedger, Alternates, StillApplied

LEMMA EventsStep == TypeOK /\ EventsTellLedger /\ [Next]_vars => EventsTellLedger'
<1> SUFFICES ASSUME TypeOK, EventsTellLedger, [Next]_vars PROVE EventsTellLedger'
  OBVIOUS
<1>1. ASSUME NEW a \in Attempts, Step(a) PROVE EventsTellLedger'
  <2>1. LedgerTypeOK /\ request[a].order \in Orders
    BY TypeOKParts, RequestFields
  <2>2. CASE UNCHANGED ledgerVars
    BY <2>2 DEF ledgerVars, EventsTellLedger
  <2> QED
    BY <1>1, <2>1, <2>2, StepLedger, ReserveTells, AuthorizeTells, CompensateTells
<1>2. CASE Restart
  <2>1. \A o \in Orders : events'[o] = <<>> /\ o \notin reservations' \cup payments'
    BY <1>2 DEF Restart
  <2> QED
    BY <2>1 DEF EventsTellLedger, Alternates, StillApplied
<1>3. CASE Settle \/ UNCHANGED vars
  BY <1>3 DEF Settle, vars, ledgerVars, EventsTellLedger
<1> QED
  BY <1>1, <1>2, <1>3 DEF Next, Proceed, Step, Quiescent

(***************************************************************************)
(* The event log and the sets of active effects the evidence endpoint      *)
(* publishes never disagree, and no effect is applied or undone twice in a *)
(* row, however executions on one order interleave.                        *)
(***************************************************************************)
THEOREM EventsTellActiveEffects == Spec => []EventsTellLedger
<1>1. Spec => Init /\ [][Next]_vars
  BY DEF Spec
<1> QED
  BY <1>1, EventsInit, EventsStep, TypesAreCorrect, PTL

-----------------------------------------------------------------------------
(***************************************************************************)
(* What is undone is told, or known to an execution that has not answered: *)
(* proof of UndoneEffectsAreTold.  Each step that logs a void or a release *)
(* adds the execution that makes it to those who know of one, and it was   *)
(* not among them, since it neither answered nor came to return a fault    *)
(* before.  It stays one who knows: when it answers, the answer tells what *)
(* its compensation returned to it, however long after the undoing, and    *)
(* when it is dropped the knowledge goes with it.  Finiteness is part of   *)
(* the invariant, for Cardinality to count.                                *)
(***************************************************************************)
Knowers(o, action) == Tellers(o, action) \cup StillToTell(o, action)

Undoings == { <<"payment_voided", "void_payment">>,
              <<"inventory_released", "release_inventory">> }

ToldInv ==
    \A o \in Orders, u \in Undoings :
        /\ IsFiniteSet(Logged(o, u[1]))
        /\ IsFiniteSet(Knowers(o, u[2]))
        /\ Cardinality(Logged(o, u[1])) <= Cardinality(Knowers(o, u[2]))

(***************************************************************************)
(* The events of one action in a log, and how one more event changes them. *)
(***************************************************************************)
Occurrences(log, action) == { i \in DOMAIN log : log[i] = action }

LEMMA AppendOccurrences ==
    ASSUME NEW log \in Seq(EventActions), NEW e \in EventActions, NEW action
    PROVE  /\ Len(log) + 1 \notin Occurrences(log, action)
           /\ Occurrences(Append(log, e), action) =
                IF e = action THEN Occurrences(log, action) \cup {Len(log) + 1}
                              ELSE Occurrences(log, action)
<1>1. Len(log) + 1 \notin DOMAIN log
  BY AppendIndices
<1>2. \A i : /\ i \in Occurrences(log, action) <=> i \in DOMAIN log /\ log[i] = action
             /\ i \in Occurrences(Append(log, e), action) <=>
                  \/ i \in DOMAIN log /\ log[i] = action
                  \/ i = Len(log) + 1 /\ e = action
  BY AppendIndices DEF Occurrences
<1> QED
  BY <1>1, <1>2

LEMMA OtherOccurrences ==
    ASSUME NEW log \in Seq(EventActions), NEW e \in EventActions,
           NEW entries \in {<<>>, <<e>>}, NEW action, action # e
    PROVE  /\ log \o entries \in Seq(EventActions)
           /\ Occurrences(log \o entries, action) = Occurrences(log, action)
<1>1. CASE entries = <<>>
  <2>1. log \o entries = log
    BY <1>1
  <2> QED
    BY <2>1
<1>2. CASE entries = <<e>>
  <2>1. log \o entries = Append(log, e) /\ Append(log, e) \in Seq(EventActions)
    BY <1>2
  <2>2. Occurrences(Append(log, e), action) = Occurrences(log, action)
    BY AppendOccurrences
  <2> QED
    BY <2>1, <2>2
<1> QED
  BY <1>1, <1>2

LEMMA OwnOccurrences ==
    ASSUME NEW log \in Seq(EventActions), NEW e \in EventActions,
           NEW entries \in {<<>>, <<e>>}
    PROVE  \/ Occurrences(log \o entries, e) = Occurrences(log, e)
           \/ /\ entries # <<>>
              /\ \E i : /\ i \notin Occurrences(log, e)
                        /\ Occurrences(log \o entries, e) = Occurrences(log, e) \cup {i}
<1>1. CASE entries = <<>>
  <2>1. log \o entries = log
    BY <1>1
  <2> QED
    BY <2>1
<1>2. CASE entries = <<e>>
  <2>1. log \o entries = Append(log, e) /\ entries # <<>>
    BY <1>2
  <2>2. /\ Len(log) + 1 \notin Occurrences(log, e)
        /\ Occurrences(Append(log, e), e) = Occurrences(log, e) \cup {Len(log) + 1}
    BY AppendOccurrences
  <2> QED
    BY <2>1, <2>2
<1> QED
  BY <1>1, <1>2

(***************************************************************************)
(* What a step of execution a does to the log of one order: for each way   *)
(* of undoing, nothing, or one more entry that it has in hand to tell of.  *)
(***************************************************************************)
UndoStep(a, o, u) ==
    \/ Logged(o, u[1])' = Logged(o, u[1])
    \/ \E i : /\ i \notin Logged(o, u[1])
              /\ Logged(o, u[1])' = Logged(o, u[1]) \cup {i}
              /\ request[a].order = o
              /\ pc'[a] = "ReturnFault"
              /\ AppliedBy(u[2], workflow'[a].undone)

LEMMA CompensateLogs ==
    ASSUME LedgerTypeOK, NEW a \in Attempts, NEW o \in Orders,
           NEW void \in BOOLEAN, NEW release \in BOOLEAN,
           request[a].order = o, Compensate(o, void, release), pc'[a] = "ReturnFault",
           workflow'[a].undone = CompensationOutcomes(o, void, release)
    PROVE  \A u \in Undoings : UndoStep(a, o, u)
<1> DEFINE log    == events[o]
           voids  == VoidEvents(o, void)
           voided == log \o voids
           freed  == ReleaseEvents(o, release)
<1>0. "payment_voided" \in EventActions /\ "inventory_released" \in EventActions
  BY DEF EventActions
<1>1. log \in Seq(EventActions) /\ events'[o] = voided \o freed
  BY DEF LedgerTypeOK, Compensate
<1>2. /\ voids \in {<<>>, <<"payment_voided">>}
      /\ voids # <<>> => void /\ o \in payments
  BY DEF VoidEvents
<1>3. /\ freed \in {<<>>, <<"inventory_released">>}
      /\ freed # <<>> => release /\ o \in reservations
  BY DEF ReleaseEvents
<1>4. void /\ o \in payments =>
        AppliedBy("void_payment", workflow'[a].undone)
  BY DEF CompensationOutcomes, CompensationOutcome, Applied, AppliedBy
<1>5. release /\ o \in reservations =>
        AppliedBy("release_inventory", workflow'[a].undone)
  BY DEF CompensationOutcomes, CompensationOutcome, Applied, AppliedBy
<1>6. \A action : /\ Logged(o, action) = Occurrences(log, action)
                  /\ Logged(o, action)' = Occurrences(voided \o freed, action)
  BY <1>1 DEF Logged, Occurrences
<1> HIDE DEF log, voids, freed
<1>7. /\ voided \in Seq(EventActions)
      /\ Occurrences(voided, "inventory_released") =
           Occurrences(log, "inventory_released")
  BY <1>1, <1>2, <1>0, OtherOccurrences
<1>8. \/ Occurrences(voided, "payment_voided") = Occurrences(log, "payment_voided")
      \/ /\ voids # <<>>
         /\ \E i : /\ i \notin Occurrences(log, "payment_voided")
                   /\ Occurrences(voided, "payment_voided") =
                        Occurrences(log, "payment_voided") \cup {i}
  BY <1>1, <1>2, <1>0, OwnOccurrences
<1> HIDE DEF voided
<1>9. Occurrences(voided \o freed, "payment_voided") =
        Occurrences(voided, "payment_voided")
  <2>1. freed \in {<<>>, <<"inventory_released">>} /\ voided \in Seq(EventActions)
    BY <1>3, <1>7
  <2> QED
    BY <1>0, <2>1, OtherOccurrences
<1>10. \/ Occurrences(voided \o freed, "inventory_released") =
            Occurrences(voided, "inventory_released")
       \/ /\ freed # <<>>
          /\ \E i : /\ i \notin Occurrences(voided, "inventory_released")
                    /\ Occurrences(voided \o freed, "inventory_released") =
                         Occurrences(voided, "inventory_released") \cup {i}
  BY <1>3, <1>7, <1>0, OwnOccurrences
<1>11. UndoStep(a, o, <<"payment_voided", "void_payment">>)
  BY <1>2, <1>4, <1>6, <1>8, <1>9 DEF UndoStep
<1>12. UndoStep(a, o, <<"inventory_released", "release_inventory">>)
  BY <1>3, <1>5, <1>6, <1>7, <1>10 DEF UndoStep
<1> QED
  BY <1>11, <1>12 DEF Undoings

LEMMA StepUndoes ==
    ASSUME TypeOK, NEW a \in Attempts, Step(a), NEW o \in Orders, NEW u \in Undoings
    PROVE  UndoStep(a, o, u)
<1>1. LedgerTypeOK /\ request[a].order \in Orders
  BY TypeOKParts, RequestFields
<1>2. CASE events'[o] = events[o]
  BY <1>2 DEF UndoStep, Logged
<1>3. CASE request[a].order = o /\ (Reserve(o) \/ Authorize(o)) /\ events'[o] # events[o]
  <2>1. PICK e \in {"inventory_reserved", "payment_authorized"} :
          events'[o] = Append(events[o], e)
    BY <1>1, <1>3 DEF LedgerTypeOK, Reserve, Authorize
  <2>2. events[o] \in Seq(EventActions) /\ e \in EventActions /\ e # u[1]
    BY <1>1 DEF LedgerTypeOK, EventActions, Undoings
  <2>3. Occurrences(events'[o], u[1]) = Occurrences(events[o], u[1])
    BY <2>1, <2>2, AppendOccurrences
  <2> QED
    BY <2>3 DEF UndoStep, Logged, Occurrences
<1>4. request[a].order # o => events'[o] = events[o]
  BY <1>1, StepLedger DEF LedgerTypeOK, Reserve, Authorize, Compensate, ledgerVars
<1>5. CASE UNCHANGED ledgerVars
  BY <1>2, <1>5 DEF ledgerVars
<1> QED
  BY <1>1, <1>2, <1>3, <1>4, <1>5, StepLedger, CompensateLogs

(***************************************************************************)
(* Who knew of an undoing before a step still does.  The execution that    *)
(* moves either returns its fault, or is dropped on the way to it, and     *)
(* knows what it knew, or was not among those who know.                    *)
(***************************************************************************)
LEMMA StepKnowers ==
    ASSUME TypeOK, NEW a \in Attempts, Step(a), NEW o \in Orders, NEW action
    PROVE  \/ /\ a \notin Knowers(o, action)
              /\ Knowers(o, action)' = Knowers(o, action)
                 \/ Knowers(o, action)' = Knowers(o, action) \cup {a}
           \/ /\ UNCHANGED ledgerVars
              /\ Knowers(o, action)' = Knowers(o, action)
<1>1. \A b \in Attempts \ {a} : Same(b)
  BY StepIsLocal
<1>2. \A b \in Attempts \ {a} :
        b \in Knowers(o, action) <=> b \in Knowers(o, action)'
  BY <1>1 DEF Same, Knowers, Tellers, StillToTell
<1>3. Knowers(o, action) \subseteq Attempts /\ Knowers(o, action)' \subseteq Attempts
  BY DEF Knowers, Tellers, StillToTell
<1>4. CASE pc[a] # "ReturnFault"
  <2>1. pc[a] \notin {"answered", "dropped"}
    BY StepBegins
  <2>2. a \notin Knowers(o, action)
    BY <1>4, <2>1 DEF Knowers, Tellers, StillToTell
  <2> QED
    BY <1>2, <1>3, <2>2
<1>5. CASE pc[a] = "ReturnFault"
  <2>1. ReturnFault(a) \/ Drop(a)
    BY <1>5 DEF Step, Run, Arrive, AbandonCommit, ValidateRequest, ResolveIdempotency,
                ScreenPolicy, ReserveInventory, AuthorizePayment, RecordDecision,
                RecordReplayed, RecordWriteFailure, RecordDefiniteFailure,
                RecordInserted, RecordCommitLost, RecordExisting, Writes, CallsStore,
                Reconcile, CompensateDecision, CompleteAuthorization
  <2>2. a \in Knowers(o, action) <=> request[a].order = o
                                      /\ AppliedBy(action, workflow[a].undone)
    BY <1>5 DEF Knowers, Tellers, StillToTell
  <2>3. CASE ReturnFault(a)
    <3>1. /\ pc'[a] = "answered"
          /\ answer'[a].compensations = workflow[a].undone
          /\ UNCHANGED <<request, ledgerVars>>
      BY <2>3 DEF TypeOK, ReturnFault, Goto, Fault
    <3>2. a \in Knowers(o, action)' <=> a \in Knowers(o, action)
      BY <2>2, <3>1 DEF Knowers, Tellers, StillToTell
    <3> QED
      BY <1>2, <1>3, <3>1, <3>2
  <2>4. CASE Drop(a)
    <3>1. /\ pc'[a] = "dropped"
          /\ UNCHANGED <<request, workflow, ledgerVars>>
      BY <2>4 DEF TypeOK, Drop, Goto
    <3>2. a \in Knowers(o, action)' <=> a \in Knowers(o, action)
      BY <2>2, <3>1 DEF Knowers, Tellers, StillToTell
    <3> QED
      BY <1>2, <1>3, <3>1, <3>2
  <2> QED
    BY <2>1, <2>3, <2>4
<1> QED
  BY <1>4, <1>5

LEMMA ToldInit == Init => ToldInv
<1> SUFFICES ASSUME Init, NEW o \in Orders, NEW u \in Undoings
             PROVE  Logged(o, u[1]) = {} /\ Knowers(o, u[2]) = {}
  BY FS_EmptySet DEF ToldInv
<1>1. Logged(o, u[1]) = {}
  BY DEF Init, LedgerInit, Logged
<1>2. Knowers(o, u[2]) = {}
  BY DEF Init, Knowers, Tellers, StillToTell
<1> QED
  BY <1>1, <1>2

LEMMA CountedStep ==
    ASSUME NEW L, NEW T, NEW L2, NEW T2, NEW a,
           IsFiniteSet(L), IsFiniteSet(T), Cardinality(L) <= Cardinality(T),
           a \notin T, T2 = T \/ T2 = T \cup {a},
           L2 = L \/ (a \in T2 /\ \E i : i \notin L /\ L2 = L \cup {i})
    PROVE  IsFiniteSet(L2) /\ IsFiniteSet(T2) /\ Cardinality(L2) <= Cardinality(T2)
<1>1. Cardinality(L) \in Nat /\ Cardinality(T) \in Nat
  BY FS_CardinalityType
<1>2. /\ IsFiniteSet(T \cup {a})
      /\ Cardinality(T \cup {a}) = Cardinality(T) + 1
  BY FS_AddElement
<1>3. CASE L2 = L
  BY <1>1, <1>2, <1>3
<1>4. CASE a \in T2 /\ \E i : i \notin L /\ L2 = L \cup {i}
  <2>1. PICK i : i \notin L /\ L2 = L \cup {i}
    BY <1>4
  <2>2. IsFiniteSet(L \cup {i}) /\ Cardinality(L \cup {i}) = Cardinality(L) + 1
    BY <2>1, FS_AddElement
  <2>3. T2 = T \cup {a}
    BY <1>4
  <2> QED
    BY <1>1, <1>2, <2>1, <2>2, <2>3
<1> QED
  BY <1>3, <1>4

LEMMA ToldStep == TypeOK /\ ToldInv /\ [Next]_vars => ToldInv'
<1> SUFFICES ASSUME TypeOK, ToldInv, [Next]_vars, NEW o \in Orders, NEW u \in Undoings
             PROVE  /\ IsFiniteSet(Logged(o, u[1])')
                    /\ IsFiniteSet(Knowers(o, u[2])')
                    /\ Cardinality(Logged(o, u[1])') <= Cardinality(Knowers(o, u[2])')
  BY DEF ToldInv
<1>1. /\ IsFiniteSet(Logged(o, u[1]))
      /\ IsFiniteSet(Knowers(o, u[2]))
      /\ Cardinality(Logged(o, u[1])) <= Cardinality(Knowers(o, u[2]))
  BY DEF ToldInv
<1>2. CASE \E a \in Attempts : Step(a)
  <2>1. PICK a \in Attempts : Step(a)
    BY <1>2
  <2>2. CASE UNCHANGED ledgerVars /\ Knowers(o, u[2])' = Knowers(o, u[2])
    <3>1. Logged(o, u[1])' = Logged(o, u[1])
      BY <2>2 DEF ledgerVars, Logged
    <3> QED
      BY <1>1, <2>2, <3>1
  <2>3. CASE /\ a \notin Knowers(o, u[2])
             /\ \/ Knowers(o, u[2])' = Knowers(o, u[2])
                \/ Knowers(o, u[2])' = Knowers(o, u[2]) \cup {a}
    <3>1. UndoStep(a, o, u)
      BY <2>1, StepUndoes
    <3>2. request[a].order = o /\ pc'[a] = "ReturnFault"
          /\ AppliedBy(u[2], workflow'[a].undone) => a \in Knowers(o, u[2])'
      BY RequestsStay DEF Knowers, StillToTell
    <3>3. \/ Logged(o, u[1])' = Logged(o, u[1])
          \/ /\ a \in Knowers(o, u[2])'
             /\ \E i : /\ i \notin Logged(o, u[1])
                       /\ Logged(o, u[1])' = Logged(o, u[1]) \cup {i}
      BY <3>1, <3>2 DEF UndoStep
    <3> QED
      BY <1>1, <2>3, <3>3, CountedStep
  <2> QED
    BY <2>1, <2>2, <2>3, StepKnowers
<1>3. CASE Restart
  <2>1. Logged(o, u[1])' = {}
    BY <1>3 DEF Restart, Logged
  <2>2. Knowers(o, u[2])' \subseteq Knowers(o, u[2])
    <3>1. \A a \in Attempts : workflow'[a].undone = {}
      BY <1>3 DEF Restart, FreshWorkflow
    <3>2. StillToTell(o, u[2])' = {}
      BY <3>1 DEF StillToTell, AppliedBy
    <3>3. \A a \in Attempts : pc'[a] = "answered" => pc[a] = "answered"
      BY <1>3 DEF Restart
    <3>4. Tellers(o, u[2])' \subseteq Tellers(o, u[2])
      BY <1>3, <3>3 DEF Restart, Tellers
    <3> QED
      BY <3>2, <3>4 DEF Knowers
  <2>3. IsFiniteSet(Knowers(o, u[2])')
    BY <1>1, <2>2, FS_Subset
  <2>4. Cardinality(Knowers(o, u[2])') \in Nat
    BY <2>3, FS_CardinalityType
  <2> QED
    BY <2>1, <2>3, <2>4, FS_EmptySet
<1>4. CASE Settle \/ UNCHANGED vars
  <2>1. Logged(o, u[1])' = Logged(o, u[1])
    BY <1>4 DEF Settle, vars, ledgerVars, Logged
  <2>2. Knowers(o, u[2])' = Knowers(o, u[2])
    BY <1>4 DEF Settle, vars, attemptVars, Knowers, Tellers, StillToTell
  <2> QED
    BY <1>1, <2>1, <2>2
<1> QED
  BY <1>2, <1>3, <1>4 DEF Next, Proceed, Step, Quiescent

LEMMA ToldIsTold == ToldInv => UndoneEffectsAreTold
<1> SUFFICES ASSUME ToldInv, NEW o \in Orders
             PROVE  /\ Cardinality(Logged(o, "payment_voided"))
                         <= Cardinality(Knowers(o, "void_payment"))
                    /\ Cardinality(Logged(o, "inventory_released"))
                         <= Cardinality(Knowers(o, "release_inventory"))
  BY DEF UndoneEffectsAreTold, Knowers
<1>1. <<"payment_voided", "void_payment">> \in Undoings
      /\ <<"inventory_released", "release_inventory">> \in Undoings
  BY DEF Undoings
<1> QED
  BY <1>1 DEF ToldInv

(***************************************************************************)
(* Every void and every release in the log was told to the client of some  *)
(* execution on the order, by one answer each, or is known to an execution *)
(* that returns its fault or was dropped doing so, for any number of       *)
(* executions, drops and restarts between the undoing and the answer.      *)
(***************************************************************************)
THEOREM UndoneEffectsAreReported == Spec => []UndoneEffectsAreTold
<1>1. Spec => Init /\ [][Next]_vars
  BY DEF Spec
<1> QED
  BY <1>1, ToldIsTold, ToldInit, ToldStep, TypesAreCorrect, PTL

-----------------------------------------------------------------------------
(***************************************************************************)
(* Part 3: the promises together, for whatever behaves as this service     *)
(* (the control) or runs beside another one (TwoServices).                 *)
(***************************************************************************)
PromisesKept ==
    /\ AnsweredIsDurable
    /\ ClientFaultIsFinal
    /\ OneAuditedDecisionPerKey
    /\ FaultsAreConsistent
    /\ NoOrphanedEffects
    /\ EventsTellLedger
    /\ UndoneEffectsAreTold

PromisesInv == ClientInv /\ RepliesInv /\ EffectsInv /\ EventsTellLedger /\ ToldInv

LEMMA PromisesInit == Init => PromisesInv
BY ClientInvInit, RepliesInit, EffectsInit, EventsInit, ToldInit DEF PromisesInv

LEMMA PromisesStep == PromisesInv /\ [Next]_vars => PromisesInv'
BY ClientInvStep, RepliesStep, EffectsStep, EventsStep, ToldStep
   DEF PromisesInv, ClientInv, TypeInv

LEMMA PromisesOfInv == PromisesInv => PromisesKept
<1> SUFFICES ASSUME PromisesInv PROVE PromisesKept
  OBVIOUS
<1>1. TypeOK /\ DurableInv /\ AuditInv /\ RepliesInv /\ EffectsInv /\ ToldInv
  BY DEF PromisesInv, ClientInv, TypeInv
<1>2. AnsweredIsDurable
  BY <1>1 DEF DurableInv, AnswerInv, AnsweredIsDurable, Answered
<1>3. OneAuditedDecisionPerKey
  BY <1>1 DEF DurableInv, RowsAreVerdicts, Rows, AuditInv, OneAuditedDecisionPerKey
<1>4. FaultsAreConsistent
  BY <1>1 DEF RepliesInv, ReplyInv, Consistent, FaultsAreConsistent, Answered
<1>5. ClientFaultIsFinal /\ UndoneEffectsAreTold
  BY <1>1, FinalFaults, ToldIsTold
<1> QED
  BY <1>1, <1>2, <1>3, <1>4, <1>5 DEF PromisesInv, EffectsInv, PromisesKept

\* its ledger and its answers are its own, an approved order stays approved
LEMMA PromisesBeside ==
    ASSUME PromisesInv, UNCHANGED <<attemptVars, ledgerVars>>,
           decisions \subseteq decisions', StoreTypeOK', RowsAreVerdicts', AuditInv'
    PROVE  PromisesInv'
<1>1. ClientInv'
  BY Bystander DEF PromisesInv
<1>2. RepliesInv'
  BY DEF PromisesInv, RepliesInv, ReplyInv, LastEntry, attemptVars
<1>3. \A o \in Orders : ApprovedOrder(o) => ApprovedOrder(o)'
  BY DEF ApprovedOrder
<1>4. \A a \in Attempts, o \in Orders : Accountable(a, o)' <=> Accountable(a, o)
  BY DEF Accountable, Answered, attemptVars
<1>5. NoOrphanedEffects'
  BY <1>3, <1>4 DEF PromisesInv, EffectsInv, NoOrphanedEffects, attemptVars, ledgerVars
<1>6. EffectsInv'
  BY <1>5 DEF PromisesInv, EffectsInv, HeldInv, attemptVars
<1>7. EventsTellLedger'
  BY DEF PromisesInv, EventsTellLedger, ledgerVars
<1>8. ToldInv'
  BY DEF PromisesInv, ToldInv, Logged, Knowers, Tellers, StillToTell, attemptVars,
         ledgerVars
<1> QED
  BY <1>1, <1>2, <1>6, <1>7, <1>8 DEF PromisesInv
=============================================================================
