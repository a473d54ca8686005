-------------------------- MODULE PlainControlProof --------------------------
(***************************************************************************)
(* The plain Axum control implements the canonical service: proofs of      *)
(* BehavesAsCanonical, StatusesAgree and LogTellsResponse, and of what the *)
(* control promises because it does so.                                    *)
(*                                                                         *)
(* A method of the control is an action of the workflow, except for record *)
(* whose statements are taken one by one: each stutters, but the one that  *)
(* ends the call.  By then the world may have moved on since the statement *)
(* that looked at it.  What the call still knows is HoldInv (its key is    *)
(* its own from the insertion of the row to the COMMIT) and CallInv (a row *)
(* it has found is never deleted).  HandledInv says which Err is in hand,  *)
(* of which the workflow keeps the code and the compensations only.        *)
(***************************************************************************)
EXTENDS PlainControl, SequenceTheorems, TLAPS

WorkflowStates == [replayed : BOOLEAN, result : Outcomes \cup {"none"},
                   reservation_id : BOOLEAN, payment_id : BOOLEAN]

\* the statements of a call that has not ended
Calling == {"begin", "check", "insert", "lookup", "rollback", "audit", "commit"}

ControlTypes ==
    /\ request \in [Attempts -> Requests]
    /\ at \in [Attempts -> Canonical!InFlight \cup {"idle", "answered", "dropped"}]
    /\ state \in [Attempts -> WorkflowStates]
    /\ fault = [a \in Attempts |-> fault[a]]
    /\ response = [a \in Attempts |-> response[a]]
    /\ log \in [Attempts -> Seq(Canonical!TraceEntry)]
    /\ row \in [Attempts -> Decision]
    /\ stmt \in [Attempts -> Calling \cup {"idle", "done", "gone", "sent"}]
    /\ DOMAIN recorded = Attempts
    /\ decisions \subseteq Decision
    /\ unsettled \subseteq Decision

EnteredEntry == <<"RecordDecision", "entered">>

\* where an execution is while its call is at a statement, and what it knows
CallInv(a) ==
    /\ stmt[a] \in Calling =>
         /\ at[a] = "RecordDecision"
         /\ ~state[a].replayed
         /\ row[a] = RowOf(a)
         /\ log[a] # <<>>
         /\ log[a][Len(log[a])] = EnteredEntry
    /\ stmt[a] = "gone" => at[a] = "dropped"
    /\ stmt[a] \in Calling \ {"begin"} => request[a].fixture # "decision_write_failure"
    /\ stmt[a] \in {"lookup", "rollback"} => Existing(a) # {}

\* the call holds the unique index entry of its key
Holds(a) == stmt[a] \in {"audit", "commit"}

HoldInv ==
    \A a \in Attempts : Holds(a) =>
        /\ \A d \in decisions \cup unsettled : d.request.key # row[a].request.key
        /\ \A b \in Attempts \ {a} : Holds(b) => row[b].request.key # row[a].request.key

UnknownCodes == ConflictPathCodes \cup {"decision_commit_ack_lost", CommitLost}

\* the Err that is returned after a compensation, whose outcomes are u
Returning(code, u) ==
    IF code = "payment_declined"
      THEN Canonical!Fault(code, "AuthorizePayment", FALSE, FALSE, u)
      ELSE Canonical!Fault(code, "RecordDecision", code \notin ConflictCodes, FALSE, u)

\* the Err in hand, with the retryable flag that the workflow computes anew;
\* it lists compensations once they are done
HandledInv(a) ==
    /\ at[a] \notin {"ReturnFault", "answered", "dropped"} => fault[a].compensations = {}
    /\ at[a] = "Reconcile" =>
         \E code \in UnknownCodes : fault[a] = Err(code, "RecordDecision", TRUE)
    /\ at[a] = "Compensate" =>
         \E code \in Canonical!RecordCodes :
            fault[a] = Err(code, "RecordDecision", code \notin ConflictCodes)
    /\ at[a] = "ReturnFault" =>
         \E code \in Canonical!RecordCodes \cup {"payment_declined"} :
            fault[a] = Returning(code, fault[a].compensations)

\* LogTellsResponse, for one attempt
LogInv(a) ==
    at[a] = "answered" /\ log[a] # <<>> =>
        log[a][Len(log[a])] =
            IF response[a].code = "ok" THEN <<"CompleteAuthorization", "next">>
                                       ELSE <<response[a].step, "fault">>

AttemptInv(a) == CallInv(a) /\ HandledInv(a) /\ LogInv(a)

ControlInv ==
    /\ ControlTypes
    /\ HoldInv
    /\ \A a \in Attempts : AttemptInv(a)

-----------------------------------------------------------------------------
(***************************************************************************)
(* The two implementations of the checks and of the status mapping agree,  *)
(* for every body and every code.                                          *)
(***************************************************************************)
LEMMA FaultResponses ==
    \A code : FaultResponse(code) = FaultStatus(code)
<1>1. ValidationCodes =
        {"order_id_invalid", "idempotency_key_invalid", "customer_id_invalid",
         "payment_reference_invalid", "items_invalid", "amount_invalid",
         "currency_invalid"}
  <2>1. 1..7 = {1, 2, 3, 4, 5, 6, 7}
    OBVIOUS
  <2> QED
    BY <2>1 DEF ValidationCodes, ValidationOrder
<1> QED
  BY <1>1 DEF FaultResponse, FaultStatus, BadRequestCodes, ConflictCodes, BusinessCodes

\* Both services give every response of the control the same status, whatever
\* its code (http.rs and http_contract.rs).
THEOREM SameStatuses == ControlSpec => []StatusesAgree
<1>1. \A code : Canonical!FaultStatus(code) = FaultStatus(code)
  BY DEF Canonical!FaultStatus, FaultStatus, Canonical!BadRequestCodes,
         BadRequestCodes, Canonical!ConflictCodes, ConflictCodes,
         Canonical!BusinessCodes, BusinessCodes, Canonical!ValidationCodes,
         ValidationCodes, Canonical!ValidationOrder, ValidationOrder
<1>2. StatusesAgree
  BY <1>1, FaultResponses, Zenon
     DEF StatusesAgree, Replied, Canonical!Status, Canonical!SuccessStatus
<1> QED
  BY <1>2, PTL

LEMMA OffendsAreFlaws ==
    ASSUME NEW body \in BodyType, NEW i \in 1..7
    PROVE  Offends(body)[ValidationOrder[i]] <=> ValidationOrder[i] \in Flaws(body)
<1>1. \A text \in TextType : Fits(text) <=> ValidIdentifier(text)
  BY DEF Fits, ValidIdentifier, TextType
<1>2. \A item \in body.items : item.item_id \in TextType /\ item.quantity \in Nat
  BY DEF BodyType, ItemType
<1>3. /\ body.order_id \in TextType /\ body.idempotency_key \in TextType
      /\ body.customer_id \in TextType /\ body.payment_reference \in TextType
      /\ body.amount_minor \in Int
  BY DEF BodyType
<1>4. ~(body.items # {} /\ \A item \in body.items : Fits(item.item_id) /\ item.quantity > 0)
        <=> body.items = {} \/ \E item \in body.items : InvalidItem(item)
  BY <1>1, <1>2 DEF InvalidItem
<1>5. ValidationOrder[i] \in ValidationCodes
  BY DEF ValidationCodes
<1> DEFINE code == ValidationOrder[i]
<1>6. code \in Flaws(body) <=>
        \/ code = "order_id_invalid" /\ ~Fits(body.order_id)
        \/ code = "idempotency_key_invalid" /\ ~Fits(body.idempotency_key)
        \/ code = "customer_id_invalid" /\ ~Fits(body.customer_id)
        \/ code = "payment_reference_invalid" /\ ~Fits(body.payment_reference)
        \/ code = "items_invalid" /\ Offends(body).items_invalid
        \/ code = "amount_invalid" /\ body.amount_minor <= 0
        \/ /\ code = "currency_invalid"
           /\ body.currency.length # 3 \/ ~body.currency.uppercase
  BY <1>1, <1>3, <1>4, <1>5 DEF Flaws, Offends
<1>7. CASE i = 1
  BY <1>6, <1>7 DEF Offends, ValidationOrder
<1>8. CASE i = 2
  BY <1>6, <1>8 DEF Offends, ValidationOrder
<1>9. CASE i = 3
  BY <1>6, <1>9 DEF Offends, ValidationOrder
<1>10. CASE i = 4
  BY <1>6, <1>10 DEF Offends, ValidationOrder
<1>11. CASE i = 5
  BY <1>6, <1>11 DEF Offends, ValidationOrder
<1>12. CASE i = 6
  BY <1>6, <1>12 DEF Offends, ValidationOrder
<1>13. CASE i = 7
  BY <1>6, <1>13 DEF Offends, ValidationOrder
<1> QED
  BY <1>7, <1>8, <1>9, <1>10, <1>11, <1>12, <1>13

LEMMA FirstOffence ==
    ASSUME NEW a \in Attempts, request[a] \in Requests, NEW i \in 1..7,
           Offends(request[a].details)[ValidationOrder[i]],
           \A j \in 1..(i - 1) : ~Offends(request[a].details)[ValidationOrder[j]]
    PROVE  /\ request[a].flaws # {}
           /\ Canonical!FirstFlaw(request[a]) = ValidationOrder[i]
<1> DEFINE has(j) == ValidationOrder[j] \in request[a].flaws
           first(j) == has(j) /\ \A k \in 1..(j - 1) : ~has(k)
<1>1. \A j \in 1..7 : Offends(request[a].details)[ValidationOrder[j]] <=> has(j)
  BY OffendsAreFlaws, BodiesAssumption
<1>2. first(i)
  <2>1. \A j \in 1..(i - 1) : j \in 1..7
    OBVIOUS
  <2> QED
    BY <1>1, <2>1
<1>3. Canonical!ValidationOrder = ValidationOrder
  BY DEF Canonical!ValidationOrder, ValidationOrder
<1>4. Canonical!FirstFlaw(request[a]) = ValidationOrder[CHOOSE j \in 1..7 : first(j)]
  BY <1>3, Zenon DEF Canonical!FirstFlaw
<1> HIDE DEF has
<1>5. \A j \in 1..7 : first(j) => j = i
  BY <1>2
<1>6. (CHOOSE j \in 1..7 : first(j)) = i
  BY <1>2, <1>5
<1>7. has(i)
  BY <1>2
<1> QED
  BY <1>4, <1>6, <1>7 DEF has

LEMMA NoOffence ==
    ASSUME NEW a \in Attempts, request[a] \in Requests,
           \A i \in 1..7 : ~Offends(request[a].details)[ValidationOrder[i]]
    PROVE  request[a].flaws = {}
<1>1. \A i \in 1..7 : ValidationOrder[i] \notin request[a].flaws
  BY OffendsAreFlaws, BodiesAssumption
<1>2. request[a].flaws \subseteq ValidationCodes
  BY BodiesAssumption DEF Flaws
<1> QED
  BY <1>1, <1>2 DEF ValidationCodes

-----------------------------------------------------------------------------
(***************************************************************************)
(* Every step of an execution has one form: it goes to a method, with a    *)
(* state, an Err in hand, a response, more trace entries, and its call at  *)
(* a statement.  What it leaves alone it sets to what it was.              *)
(***************************************************************************)
Becomes(a, method, s, err, reply, entries, statement) ==
    /\ request' = request
    /\ at' = [at EXCEPT ![a] = method]
    /\ state' = [state EXCEPT ![a] = s]
    /\ fault' = [fault EXCEPT ![a] = err]
    /\ response' = [response EXCEPT ![a] = reply]
    /\ log' = [log EXCEPT ![a] = log[a] \o entries]
    /\ stmt' = [stmt EXCEPT ![a] = statement]

LEMMA Unchanged ==
    ASSUME ControlTypes, NEW a \in Attempts
    PROVE  /\ [at EXCEPT ![a] = at[a]] = at
           /\ [state EXCEPT ![a] = state[a]] = state
           /\ [fault EXCEPT ![a] = fault[a]] = fault
           /\ [response EXCEPT ![a] = response[a]] = response
           /\ [log EXCEPT ![a] = log[a] \o <<>>] = log
           /\ [stmt EXCEPT ![a] = stmt[a]] = stmt
<1>1. log[a] \o <<>> = log[a]
  BY DEF ControlTypes
<1> QED
  BY <1>1 DEF ControlTypes

LEMMA Pair ==
    ASSUME NEW e, NEW f
    PROVE  <<e>> \o <<f>> = <<e, f>>
<1> DEFINE u == <<e>> \o <<f>>
           v == <<e, f>>
<1>1. u \in Seq({e, f}) /\ v \in Seq({e, f})
  OBVIOUS
<1>2. Len(u) = 2 /\ Len(v) = 2
  OBVIOUS
<1>3. u[1] = e /\ u[2] = f /\ v[1] = e /\ v[2] = f
  OBVIOUS
<1>4. \A i \in 1 .. Len(u) : u[i] = v[i]
  BY <1>2, <1>3
<1> HIDE DEF u, v
<1>5. u = v
  BY <1>1, <1>2, <1>4, SeqEqual
<1> QED
  BY <1>5 DEF u, v

LEMMA SaysEntries ==
    \A step : /\ Says(step, <<"entered", "next">>) =
                   << <<step, "entered">>, <<step, "next">> >>
              /\ Says(step, <<"entered", "fault">>) =
                   << <<step, "entered">>, <<step, "fault">> >>
              /\ \A word : Says(step, <<word>>) = << <<step, word>> >>
BY DEF Says

\* an Err with the outcomes of compensate
Listing(err, u) == [err EXCEPT !.compensations = u]
Listed(code, step, retryable, u) == Canonical!Fault(code, step, retryable, FALSE, u)

\* the Err of a compensation is the one that ReturnFault returns
Returns(code, step, retryable) ==
    \A u : Listed(code, step, retryable, u) = Returning(code, u)

\* the ways a method ends
LEMMA MethodEnds ==
    ASSUME ControlTypes, NEW a \in Attempts,
           NEW now, stmt' = [stmt EXCEPT ![a] = now]
    PROVE  /\ \A step, s, following : Ok(a, step, s, following) =>
                Becomes(a, following, s, fault[a], response[a],
                        << <<step, "entered">>, <<step, "next">> >>, now)
           /\ \A err : Refuses(a, err) =>
                Becomes(a, "answered", state[a], fault[a], err,
                        << <<err.step, "entered">>, <<err.step, "fault">> >>, now)
           /\ \A outcome : Settled(a, outcome, <<"next">>) =>
                Becomes(a, "CompleteAuthorization",
                        [state[a] EXCEPT !.result = outcome], fault[a], response[a],
                        << <<"RecordDecision", "next">> >>, now)
           /\ \A method, err : Handles(a, method, err) =>
                Becomes(a, method, state[a], err, response[a], <<>>, now)
           /\ \A step, reply, word :
                Responds(a, reply) /\ TraceStep(a, step, <<word>>) =>
                Becomes(a, "answered", state[a], fault[a], reply,
                        << <<step, word>> >>, now)
           /\ \A err, void, release, entries :
                /\ Undoes(a, err, void, release)
                /\ log' = [log EXCEPT ![a] = log[a] \o entries]
                => Becomes(a, "ReturnFault", state[a],
                           Listing(err, CompensationOutcomes(request[a].order, void, release)),
                           response[a], entries, now)
<1>1. ASSUME NEW step, NEW s, NEW following, Ok(a, step, s, following)
      PROVE  Becomes(a, following, s, fault[a], response[a],
                     << <<step, "entered">>, <<step, "next">> >>, now)
  BY <1>1, Unchanged, SaysEntries DEF Ok, TraceStep, GoTo, Becomes
<1>2. ASSUME NEW err, Refuses(a, err)
      PROVE  Becomes(a, "answered", state[a], fault[a], err,
                     << <<err.step, "entered">>, <<err.step, "fault">> >>, now)
  BY <1>2, Unchanged, SaysEntries DEF Refuses, Responds, TraceStep, GoTo, Becomes
<1>3. ASSUME NEW outcome, Settled(a, outcome, <<"next">>)
      PROVE  Becomes(a, "CompleteAuthorization",
                     [state[a] EXCEPT !.result = outcome], fault[a], response[a],
                     << <<"RecordDecision", "next">> >>, now)
  <2>1. log' = [log EXCEPT ![a] = log[a] \o << <<"RecordDecision", "next">> >>]
    BY <1>3, SaysEntries DEF Settled, TraceStep
  <2> QED
    BY <1>3, <2>1, Unchanged DEF Settled, GoTo, Becomes
<1>4. ASSUME NEW method, NEW err, Handles(a, method, err)
      PROVE  Becomes(a, method, state[a], err, response[a], <<>>, now)
  BY <1>4, Unchanged DEF Handles, GoTo, Becomes
<1>5. ASSUME NEW step, NEW reply, NEW word,
             Responds(a, reply), TraceStep(a, step, <<word>>)
      PROVE  Becomes(a, "answered", state[a], fault[a], reply,
                     << <<step, word>> >>, now)
  <2>1. log' = [log EXCEPT ![a] = log[a] \o << <<step, word>> >>]
    BY <1>5, SaysEntries DEF TraceStep
  <2> QED
    BY <1>5, <2>1, Unchanged DEF Responds, GoTo, Becomes
<1>6. ASSUME NEW err, NEW void, NEW release, NEW entries,
             Undoes(a, err, void, release),
             log' = [log EXCEPT ![a] = log[a] \o entries]
      PROVE  Becomes(a, "ReturnFault", state[a],
                     Listing(err, CompensationOutcomes(request[a].order, void, release)),
                     response[a], entries, now)
  BY <1>6, Unchanged DEF Undoes, GoTo, Becomes, Listing
<1> QED
  BY <1>1, <1>2, <1>3, <1>4, <1>5, <1>6

LEMMA CutLast ==
    ASSUME NEW S, NEW s \in Seq(S), NEW e \in S
    PROVE  /\ s \o <<e>> # <<>>
           /\ SubSeq(s \o <<e>>, 1, Len(s \o <<e>>) - 1) = s
           /\ (s \o <<e>>)[Len(s \o <<e>>)] = e
OBVIOUS

LEMMA LastBack ==
    ASSUME NEW S, NEW s \in Seq(S), s # <<>>
    PROVE  /\ SubSeq(s, 1, Len(s) - 1) \in Seq(S)
           /\ SubSeq(s, 1, Len(s) - 1) \o <<s[Len(s)]>> = s
<1> DEFINE front == SubSeq(s, 1, Len(s) - 1)
           whole == front \o <<s[Len(s)]>>
<1>1. Len(s) \in Nat \ {0} /\ s[Len(s)] \in S
  OBVIOUS
<1>2. /\ front \in Seq(S)
      /\ Len(front) = Len(s) - 1
      /\ \A i \in 1..(Len(s) - 1) : front[i] = s[i]
  <2>1. \A i \in 1..(Len(s) - 1) : s[i] \in S
    BY <1>1
  <2> DEFINE n == Len(s) - 1
  <2>2. n \in Nat /\ \A i \in 1..n : s[i] \in S
    BY <1>1, <2>1
  <2> HIDE DEF n
  <2>3. /\ SubSeq(s, 1, n) \in Seq(S)
        /\ Len(SubSeq(s, 1, n)) = n
        /\ \A i \in 1..n : SubSeq(s, 1, n)[i] = s[i]
    BY <2>2
  <2> QED
    BY <2>3 DEF n
<1> HIDE DEF front
<1>3. /\ whole \in Seq(S)
      /\ Len(whole) = Len(s)
      /\ \A i \in 1..(Len(s) - 1) : whole[i] = front[i]
      /\ whole[Len(s)] = s[Len(s)]
  BY <1>1, <1>2
<1> HIDE DEF whole
<1>4. \A i \in 1..Len(s) : whole[i] = s[i]
  BY <1>1, <1>2, <1>3
<1>5. whole = s
  BY <1>3, <1>4, SeqEqual
<1> QED
  BY <1>2, <1>5 DEF front, whole

LEMMA Entries ==
    /\ <<>> \in Seq(Canonical!TraceEntry)
    /\ \A step \in Canonical!Transitions :
         \A first, second \in {"entered", "next", "fault"} :
           /\ <<step, first>> \in Canonical!TraceEntry
           /\ << <<step, first>> >> \in Seq(Canonical!TraceEntry)
           /\ << <<step, first>>, <<step, second>> >> \in Seq(Canonical!TraceEntry)
<1>1. \A step \in Canonical!Transitions : \A word \in {"entered", "next", "fault"} :
        <<step, word>> \in Canonical!TraceEntry
  BY DEF Canonical!TraceEntry
<1> HIDE DEF Canonical!TraceEntry
<1>2. \A e, f \in Canonical!TraceEntry :
        /\ <<>> \in Seq(Canonical!TraceEntry)
        /\ <<e>> \in Seq(Canonical!TraceEntry)
        /\ <<e, f>> \in Seq(Canonical!TraceEntry)
  OBVIOUS
<1> QED
  BY <1>1, <1>2

-----------------------------------------------------------------------------
(***************************************************************************)
(* What such a step does to the execution, to the others, and to what the  *)
(* mapping shows of it.                                                    *)
(***************************************************************************)
SameFor(b) ==
    /\ request'[b] = request[b]
    /\ at'[b] = at[b]
    /\ state'[b] = state[b]
    /\ fault'[b] = fault[b]
    /\ response'[b] = response[b]
    /\ log'[b] = log[b]
    /\ stmt'[b] = stmt[b]

LEMMA BecomesAt ==
    ASSUME ControlTypes, NEW a \in Attempts, NEW m, NEW s, NEW e, NEW r, NEW w, NEW t,
           Becomes(a, m, s, e, r, w, t)
    PROVE  /\ at'[a] = m /\ state'[a] = s /\ fault'[a] = e /\ response'[a] = r
           /\ log'[a] = log[a] \o w /\ stmt'[a] = t
           /\ request' = request
           /\ \A b \in Attempts \ {a} : SameFor(b)
<1>1. /\ DOMAIN at = Attempts /\ DOMAIN state = Attempts /\ DOMAIN fault = Attempts
      /\ DOMAIN response = Attempts /\ DOMAIN log = Attempts /\ DOMAIN stmt = Attempts
  BY DEF ControlTypes
<1> QED
  BY <1>1 DEF Becomes, SameFor

Stations == Canonical!InFlight \cup {"idle", "answered", "dropped"}
Statements == Calling \cup {"idle", "done", "gone", "sent"}

LEMMA BecomesTypes ==
    ASSUME ControlTypes, NEW a \in Attempts, NEW m \in Stations,
           NEW s \in WorkflowStates, NEW e, NEW r, NEW w \in Seq(Canonical!TraceEntry),
           NEW t \in Statements, Becomes(a, m, s, e, r, w, t),
           row' \in [Attempts -> Decision], DOMAIN recorded' = Attempts,
           decisions' \subseteq Decision, unsettled' \subseteq Decision
    PROVE  ControlTypes'
<1>1. log[a] \o w \in Seq(Canonical!TraceEntry)
  BY DEF ControlTypes
<1>2. log' \in [Attempts -> Seq(Canonical!TraceEntry)]
  BY <1>1 DEF ControlTypes, Becomes
<1> QED
  BY <1>2 DEF ControlTypes, Becomes, Stations, Statements

WorkflowOf(s, e) == [replayed |-> s.replayed, result |-> s.result,
                     reservation |-> s.reservation_id, payment |-> s.payment_id,
                     undone |-> e.compensations]

\* what a step records in its task's state, it records in the workflow
LEMMA WorkflowEdits ==
    ASSUME NEW s \in WorkflowStates, NEW e
    PROVE  /\ \A o : WorkflowOf([s EXCEPT !.replayed = TRUE, !.result = o], e) =
                       [WorkflowOf(s, e) EXCEPT !.replayed = TRUE, !.result = o]
           /\ WorkflowOf([s EXCEPT !.reservation_id = TRUE], e) =
                [WorkflowOf(s, e) EXCEPT !.reservation = TRUE]
           /\ WorkflowOf([s EXCEPT !.payment_id = TRUE], e) =
                [WorkflowOf(s, e) EXCEPT !.payment = TRUE]
           /\ \A f : WorkflowOf(s, f) = [WorkflowOf(s, e) EXCEPT !.undone = f.compensations]
<1> DEFINE Replay(y, o) ==
               WorkflowOf([s EXCEPT !.replayed = y, !.result = o], e) =
               [WorkflowOf(s, e) EXCEPT !.replayed = y, !.result = o]
           Hold(y) == WorkflowOf([s EXCEPT !.reservation_id = y], e) =
                      [WorkflowOf(s, e) EXCEPT !.reservation = y]
           Charge(y) == WorkflowOf([s EXCEPT !.payment_id = y], e) =
                        [WorkflowOf(s, e) EXCEPT !.payment = y]
<1>1. \A y, o : Replay(y, o)
  <2> TAKE y, o
  <2> DEFINE u == [s EXCEPT !.replayed = y]
             v == [u EXCEPT !.result = o]
             w == WorkflowOf(s, e)
             x == [w EXCEPT !.replayed = y]
  <2>1. /\ v.replayed = y /\ v.result = o
        /\ v.reservation_id = s.reservation_id /\ v.payment_id = s.payment_id
    BY DEF WorkflowStates
  <2>2. [s EXCEPT !.replayed = y, !.result = o] = v
    BY DEF WorkflowStates
  <2>3. x = [replayed |-> y, result |-> s.result,
             reservation |-> s.reservation_id, payment |-> s.payment_id,
             undone |-> e.compensations]
    BY DEF WorkflowOf
  <2>4. [w EXCEPT !.replayed = y, !.result = o] = [x EXCEPT !.result = o]
    BY DEF WorkflowOf
  <2> HIDE DEF v, x
  <2>5. [x EXCEPT !.result = o] = [replayed |-> y, result |-> o,
             reservation |-> s.reservation_id, payment |-> s.payment_id,
             undone |-> e.compensations]
    BY <2>3
  <2>6. WorkflowOf(v, e) = [replayed |-> y, result |-> o,
             reservation |-> s.reservation_id, payment |-> s.payment_id,
             undone |-> e.compensations]
    BY <2>1 DEF WorkflowOf
  <2> QED
    BY <2>2, <2>4, <2>5, <2>6
<1>2. \A y : Hold(y)
  <2> TAKE y
  <2> DEFINE v == [s EXCEPT !.reservation_id = y]
  <2>1. /\ v.replayed = s.replayed /\ v.result = s.result
        /\ v.reservation_id = y /\ v.payment_id = s.payment_id
    BY DEF WorkflowStates
  <2> HIDE DEF v
  <2>2. Hold(y) <=> WorkflowOf(v, e) = [WorkflowOf(s, e) EXCEPT !.reservation = y]
    BY DEF v
  <2> QED
    BY <2>1, <2>2 DEF WorkflowOf
<1>3. \A y : Charge(y)
  <2> TAKE y
  <2> DEFINE v == [s EXCEPT !.payment_id = y]
  <2>1. /\ v.replayed = s.replayed /\ v.result = s.result
        /\ v.reservation_id = s.reservation_id /\ v.payment_id = y
    BY DEF WorkflowStates
  <2> HIDE DEF v
  <2>2. Charge(y) <=> WorkflowOf(v, e) = [WorkflowOf(s, e) EXCEPT !.payment = y]
    BY DEF v
  <2> QED
    BY <2>1, <2>2 DEF WorkflowOf
<1>5. \A f : WorkflowOf(s, f) = [WorkflowOf(s, e) EXCEPT !.undone = f.compensations]
  BY DEF WorkflowOf
<1> HIDE DEF Replay, Hold, Charge
<1>4. (\A o : Replay(TRUE, o)) /\ Hold(TRUE) /\ Charge(TRUE)
  BY <1>1, <1>2, <1>3, Zenon
<1> QED
  BY <1>4, <1>5, Zenon DEF Replay, Hold, Charge

workflowBar == [b \in Attempts |-> WorkflowOf(state[b], fault[b])]
pendingBar  == [b \in Attempts |-> fault[b].code]
tracesBar   == [b \in Attempts |-> CanonicalLog(b)]

\* what the change of a method, or of several, is in the canonical service
Maps(a, m, s, e, r, entries) ==
    /\ request' = request
    /\ at' = [at EXCEPT ![a] = m]
    /\ workflowBar' = [workflowBar EXCEPT ![a] = WorkflowOf(s, e)]
    /\ pendingBar' = [pendingBar EXCEPT ![a] = e.code]
    /\ response' = [response EXCEPT ![a] = r]
    /\ tracesBar' = [tracesBar EXCEPT ![a] = @ \o entries]

LEMMA BecomesMaps ==
    ASSUME ControlTypes, NEW a \in Attempts, NEW m, NEW s, NEW e, NEW r, NEW w, NEW t,
           Becomes(a, m, s, e, r, w, t),
           NEW entries, CanonicalLog(a)' = CanonicalLog(a) \o entries
    PROVE  Maps(a, m, s, e, r, entries)
<1>1. /\ state'[a] = s /\ fault'[a] = e
      /\ \A b \in Attempts \ {a} : SameFor(b)
  BY BecomesAt
<1>2. \A b \in Attempts \ {a} : CanonicalLog(b)' = CanonicalLog(b)
  BY <1>1 DEF SameFor, CanonicalLog, TracedConflict, PendingEntry
<1>3. tracesBar' = [tracesBar EXCEPT ![a] = @ \o entries]
  BY <1>2 DEF tracesBar
<1>4. workflowBar' = [workflowBar EXCEPT ![a] = WorkflowOf(s, e)]
  BY <1>1 DEF workflowBar, SameFor
<1>5. pendingBar' = [pendingBar EXCEPT ![a] = e.code]
  BY <1>1 DEF pendingBar, SameFor
<1> QED
  BY <1>3, <1>4, <1>5 DEF Becomes, Maps

\* the ends of a method are the ends of a transition
LEMMA EndsMap ==
    ASSUME ControlTypes, NEW a \in Attempts, NEW w, NEW now, NEW entries,
           CanonicalLog(a)' = CanonicalLog(a) \o entries
    PROVE  /\ \A step, s, m :
                /\ Becomes(a, m, s, fault[a], response[a], w, now)
                /\ entries = << <<step, "entered">>, <<step, "next">> >>
                => /\ Canonical!Advance(a, step, m)
                   /\ workflowBar' = [workflowBar EXCEPT ![a] = WorkflowOf(s, fault[a])]
           /\ \A step, reply :
                /\ Becomes(a, "answered", state[a], fault[a], reply, w, now)
                /\ entries = << <<step, "entered">>, <<step, "fault">> >>
                => \A code, retryable, operator, compensations :
                     reply = Canonical!Fault(code, step, retryable, operator, compensations)
                     => Canonical!FailAt(a, step, code, retryable, operator, compensations)
           /\ \A m, e :
                /\ Becomes(a, m, state[a], e, response[a], w, now)
                /\ e.compensations = fault[a].compensations
                => Canonical!Suspend(a, m, e.code, entries)
           /\ \A outcome :
                Becomes(a, "CompleteAuthorization", [state[a] EXCEPT !.result = outcome],
                        fault[a], response[a], w, now)
                => Canonical!Recorded(a, outcome, entries)
<1>1. /\ [workflowBar EXCEPT ![a] = WorkflowOf(state[a], fault[a])] = workflowBar
      /\ [pendingBar EXCEPT ![a] = fault[a].code] = pendingBar
      /\ [response EXCEPT ![a] = response[a]] = response
  BY Unchanged DEF workflowBar, pendingBar
<1>2. ASSUME NEW step, NEW s, NEW m,
             Becomes(a, m, s, fault[a], response[a], w, now)
      PROVE  entries = << <<step, "entered">>, <<step, "next">> >> =>
               /\ Canonical!Advance(a, step, m)
               /\ workflowBar' = [workflowBar EXCEPT ![a] = WorkflowOf(s, fault[a])]
  <2>0. Maps(a, m, s, fault[a], response[a], entries)
    BY <1>2, BecomesMaps
  <2>1. /\ request' = request
        /\ at' = [at EXCEPT ![a] = m]
        /\ workflowBar' = [workflowBar EXCEPT ![a] = WorkflowOf(s, fault[a])]
        /\ pendingBar' = pendingBar
        /\ response' = response
        /\ tracesBar' = [tracesBar EXCEPT ![a] = @ \o entries]
    BY <1>1, <2>0 DEF Maps
  <2> QED
    BY <2>1 DEF Canonical!Advance, Canonical!Goto, Canonical!Trace, pendingBar,
                      tracesBar
<1>3. ASSUME NEW step, NEW reply, NEW code, NEW retryable, NEW operator,
             NEW compensations,
             Becomes(a, "answered", state[a], fault[a], reply, w, now)
      PROVE  /\ entries = << <<step, "entered">>, <<step, "fault">> >>
             /\ reply = Canonical!Fault(code, step, retryable, operator, compensations)
             => Canonical!FailAt(a, step, code, retryable, operator, compensations)
  <2>0. Maps(a, "answered", state[a], fault[a], reply, entries)
    BY <1>3, BecomesMaps
  <2>1. /\ request' = request
        /\ at' = [at EXCEPT ![a] = "answered"]
        /\ workflowBar' = workflowBar
        /\ pendingBar' = pendingBar
        /\ response' = [response EXCEPT ![a] = reply]
        /\ tracesBar' = [tracesBar EXCEPT ![a] = @ \o entries]
    BY <1>1, <2>0 DEF Maps
  <2> QED
    BY <2>1 DEF Canonical!FailAt, Canonical!Goto, Canonical!Trace, pendingBar,
                      tracesBar, workflowBar, WorkflowOf
<1>4. ASSUME NEW m, NEW e, Becomes(a, m, state[a], e, response[a], w, now),
             e.compensations = fault[a].compensations
      PROVE  Canonical!Suspend(a, m, e.code, entries)
  <2>0. Maps(a, m, state[a], e, response[a], entries)
    BY <1>4, BecomesMaps
  <2>1. WorkflowOf(state[a], e) = WorkflowOf(state[a], fault[a])
    BY <1>4 DEF WorkflowOf
  <2>2. /\ request' = request
        /\ at' = [at EXCEPT ![a] = m]
        /\ workflowBar' = workflowBar
        /\ pendingBar' = [pendingBar EXCEPT ![a] = e.code]
        /\ response' = response
        /\ tracesBar' = [tracesBar EXCEPT ![a] = @ \o entries]
    BY <1>1, <2>0, <2>1 DEF Maps
  <2> QED
    BY <2>2 DEF Canonical!Suspend, Canonical!Goto, Canonical!Trace, pendingBar,
                tracesBar, workflowBar, WorkflowOf
<1>5. ASSUME NEW outcome,
             Becomes(a, "CompleteAuthorization", [state[a] EXCEPT !.result = outcome],
                     fault[a], response[a], w, now)
      PROVE  Canonical!Recorded(a, outcome, entries)
  <2> DEFINE s == [state[a] EXCEPT !.result = outcome]
  <2>1. /\ request' = request
        /\ at' = [at EXCEPT ![a] = "CompleteAuthorization"]
        /\ workflowBar' = [workflowBar EXCEPT ![a] = WorkflowOf(s, fault[a])]
        /\ pendingBar' = pendingBar
        /\ response' = response
        /\ tracesBar' = [tracesBar EXCEPT ![a] = @ \o entries]
    BY <1>1, <1>5, BecomesMaps DEF Maps
  <2>2. state[a] \in WorkflowStates
    BY DEF ControlTypes
  <2>3. WorkflowOf(s, fault[a]) = [WorkflowOf(state[a], fault[a]) EXCEPT !.result = outcome]
    BY <2>2 DEF WorkflowOf, WorkflowStates
  <2>4. workflowBar' = [workflowBar EXCEPT ![a].result = outcome]
    BY <2>1, <2>3 DEF workflowBar
  <2> QED
    BY <2>1, <2>4 DEF Canonical!Recorded, Canonical!Goto, Canonical!Trace, pendingBar,
                      tracesBar, workflowBar, WorkflowOf
<1> QED
  BY <1>2, <1>3, <1>4, <1>5

\* what a step adds to the trace of the workflow: outside a call the entries of
\* the log; with the end of a call also the entry the call began with
LEMMA LogGrows ==
    ASSUME ControlTypes, NEW a \in Attempts, AttemptInv(a),
           at[a] \notin {"answered", "dropped"},
           NEW m, NEW s, NEW e, NEW r, NEW w \in Seq(Canonical!TraceEntry),
           NEW t \in {"idle", "done", "sent"},
           Becomes(a, m, s, e, r, w, t), ~TracedConflict(a)'
    PROVE  /\ stmt[a] \notin Calling => CanonicalLog(a)' = CanonicalLog(a) \o w
           /\ stmt[a] \in Calling =>
                CanonicalLog(a)' = CanonicalLog(a) \o (<<EnteredEntry>> \o w)
<1>1. /\ log'[a] = log[a] \o w
      /\ stmt'[a] = t
      /\ log[a] \in Seq(Canonical!TraceEntry)
      /\ stmt[a] \in Statements
  BY BecomesAt DEF ControlTypes, Statements
<1>2. ~TracedConflict(a)
  BY DEF TracedConflict
<1>3. CanonicalLog(a)' = log[a] \o w
  BY <1>1 DEF CanonicalLog, PendingEntry
<1>4. CASE stmt[a] \notin Calling
  <2>1. stmt[a] # "gone"
    BY DEF AttemptInv, CallInv
  <2>2. ~PendingEntry(a)
    BY <1>1, <1>4, <2>1 DEF PendingEntry, Statements
  <2> QED
    BY <1>2, <1>3, <1>4, <2>2 DEF CanonicalLog
<1>5. CASE stmt[a] \in Calling
  <2>1. log[a] # <<>> /\ log[a][Len(log[a])] = EnteredEntry
    BY <1>5 DEF AttemptInv, CallInv
  <2>2. PendingEntry(a)
    BY <1>5 DEF PendingEntry, Calling
  <2> DEFINE front == CanonicalLog(a)
  <2>3. front = SubSeq(log[a], 1, Len(log[a]) - 1)
    BY <2>1, <2>2 DEF CanonicalLog
  <2>4. /\ front \in Seq(Canonical!TraceEntry)
        /\ front \o <<EnteredEntry>> = log[a]
    BY <1>1, <2>1, <2>3, LastBack
  <2>5. EnteredEntry \in Canonical!TraceEntry
    BY <1>1, <2>1
  <2> HIDE DEF front
  <2>6. (front \o <<EnteredEntry>>) \o w = front \o (<<EnteredEntry>> \o w)
    BY <2>4, <2>5
  <2> QED
    BY <1>3, <1>5, <2>4, <2>6 DEF front
<1> QED
  BY <1>4, <1>5

-----------------------------------------------------------------------------
(***************************************************************************)
(* The invariant, by the parts of a step: the other executions, the        *)
(* holders of keys, and the execution itself.                              *)
(***************************************************************************)
LEMMA OthersKeep ==
    ASSUME NEW b \in Attempts, SameFor(b), row'[b] = row[b],
           decisions \subseteq decisions', AttemptInv(b)
    PROVE  AttemptInv(b)'
<1>1. RowOf(b)' = RowOf(b)
  BY DEF SameFor, RowOf, Terminal
<1>2. Existing(b) \subseteq Existing(b)'
  BY DEF SameFor, Existing, Find
<1>3. CallInv(b)'
  BY <1>1, <1>2 DEF AttemptInv, CallInv, SameFor
<1>4. HandledInv(b)'
  BY DEF AttemptInv, HandledInv, SameFor
<1>5. LogInv(b)'
  BY DEF AttemptInv, LogInv, SameFor
<1> QED
  BY <1>3, <1>4, <1>5 DEF AttemptInv

\* no new holder, and no row but that of a holder who lets go
LEMMA HoldKept ==
    ASSUME HoldInv, NEW a \in Attempts,
           \A b \in Attempts \ {a} : stmt'[b] = stmt[b] /\ row'[b] = row[b],
           Holds(a)' => Holds(a) /\ row'[a] = row[a],
           \/ decisions' \cup unsettled' \subseteq decisions \cup unsettled
           \/ /\ Holds(a) /\ ~Holds(a)'
              /\ decisions' \cup unsettled' \subseteq decisions \cup unsettled \cup {row[a]}
    PROVE  HoldInv'
<1> SUFFICES ASSUME NEW b \in Attempts, Holds(b)'
             PROVE  /\ \A d \in decisions' \cup unsettled' :
                          d.request.key # row'[b].request.key
                    /\ \A c \in Attempts \ {b} : Holds(c)' =>
                          row'[c].request.key # row'[b].request.key
  BY DEF HoldInv
<1>1. \A c \in Attempts : Holds(c)' => Holds(c) /\ row'[c] = row[c]
  BY DEF Holds
<1>2. Holds(b) /\ row'[b] = row[b]
  BY <1>1
<1>3. \A c \in Attempts \ {b} : Holds(c)' => row'[c].request.key # row'[b].request.key
  BY <1>1, <1>2 DEF HoldInv
<1>4. \A d \in decisions' \cup unsettled' : d.request.key # row'[b].request.key
  BY <1>1, <1>2 DEF HoldInv
<1> QED
  BY <1>3, <1>4

\* the insertion of a row whose key nobody else has
LEMMA HoldGained ==
    ASSUME HoldInv, NEW a \in Attempts, Holds(a)', UNCHANGED <<row, storeVars>>,
           \A b \in Attempts \ {a} : stmt'[b] = stmt[b],
           \A d \in decisions \cup unsettled : d.request.key # row[a].request.key,
           \A b \in Attempts \ {a} : Holds(b) => row[b].request.key # row[a].request.key
    PROVE  HoldInv'
BY DEF HoldInv, Holds, storeVars

LEMMA StepKeeps ==
    ASSUME ControlInv, NEW a \in Attempts, NEW m \in Stations, NEW s \in WorkflowStates,
           NEW e, NEW r, NEW w \in Seq(Canonical!TraceEntry), NEW t \in Statements,
           Becomes(a, m, s, e, r, w, t),
           row' \in [Attempts -> Decision], DOMAIN recorded' = Attempts,
           decisions' \subseteq Decision, unsettled' \subseteq Decision,
           \A b \in Attempts \ {a} : row'[b] = row[b],
           decisions \subseteq decisions', HoldInv', AttemptInv(a)'
    PROVE  ControlInv'
<1>1. ControlTypes'
  BY BecomesTypes DEF ControlInv
<1>2. \A b \in Attempts \ {a} : SameFor(b)
  BY BecomesAt DEF ControlInv
<1>3. \A b \in Attempts \ {a} : AttemptInv(b)'
  BY <1>2, OthersKeep DEF ControlInv
<1> QED
  BY <1>1, <1>3 DEF ControlInv

\* a step outside of a call
LEMMA QuietKeeps ==
    ASSUME ControlInv, NEW a \in Attempts, stmt[a] \notin Calling, at[a] # "dropped",
           NEW m \in Stations, NEW s \in WorkflowStates, NEW e, NEW r,
           NEW w \in Seq(Canonical!TraceEntry),
           Becomes(a, m, s, e, r, w, stmt[a]), UNCHANGED <<callVars, storeVars>>,
           HandledInv(a)', LogInv(a)'
    PROVE  ControlInv'
<1>1. ControlTypes /\ stmt[a] \in Statements /\ stmt' = stmt
  BY DEF ControlInv, ControlTypes, Statements, callVars
<1>2. stmt[a] # "gone"
  BY DEF ControlInv, AttemptInv, CallInv
<1>3. CallInv(a)'
  BY <1>1, <1>2 DEF CallInv, Calling
<1>4. HoldInv'
  <2>1. ~Holds(a)
    BY DEF Holds, Calling
  <2> QED
    BY <1>1, <2>1, HoldKept DEF ControlInv, Holds, callVars, storeVars
<1>5. AttemptInv(a)'
  BY <1>3 DEF AttemptInv
<1> QED
  BY <1>1, <1>4, <1>5, StepKeeps DEF ControlInv, ControlTypes, callVars, storeVars

\* between methods there is no response, and no Err in hand
LEMMA GoesOn ==
    ASSUME ControlTypes, NEW a \in Attempts, NEW s, NEW e, NEW r, NEW w, NEW t,
           NEW m \in Stations \ {"Reconcile", "Compensate", "ReturnFault", "answered"},
           Becomes(a, m, s, e, r, w, t), e.compensations = {}
    PROVE  HandledInv(a)' /\ LogInv(a)' /\ ~TracedConflict(a)'
<1>1. /\ at'[a] = m /\ fault'[a] = e
      /\ m \notin {"Reconcile", "Compensate", "ReturnFault", "answered"}
  BY BecomesAt
<1>2. HandledInv(a)'
  BY <1>1 DEF HandledInv
<1> QED
  BY <1>1, <1>2 DEF LogInv, TracedConflict

\* an answer goes with its last trace entry
LEMMA Answers ==
    ASSUME ControlTypes, NEW a \in Attempts, NEW s, NEW e, NEW r, NEW t,
           NEW w \in Seq(Canonical!TraceEntry), w # <<>>,
           Becomes(a, "answered", s, e, r, w, t),
           w[Len(w)] = IF r.code = "ok" THEN <<"CompleteAuthorization", "next">>
                                        ELSE <<r.step, "fault">>
    PROVE  HandledInv(a)' /\ LogInv(a)'
<1>1. /\ at'[a] = "answered" /\ response'[a] = r
      /\ log'[a] = log[a] \o w
      /\ log[a] \in Seq(Canonical!TraceEntry)
  BY BecomesAt DEF ControlTypes
<1>2. (log[a] \o w)[Len(log[a] \o w)] = w[Len(w)]
  BY <1>1
<1> QED
  BY <1>1, <1>2 DEF HandledInv, LogInv

-----------------------------------------------------------------------------
(***************************************************************************)
(* The methods outside of record: each is a transition of the workflow,    *)
(* and keeps the invariant.                                                *)
(***************************************************************************)
LEMMA Outside ==
    ASSUME ControlInv, NEW a \in Attempts,
           at[a] # "RecordDecision" \/ state[a].replayed
    PROVE  stmt[a] \notin Calling
BY DEF ControlInv, AttemptInv, CallInv

LEMMA QuietOk ==
    ASSUME ControlInv, NEW a \in Attempts, stmt[a] \notin Calling,
           at[a] \notin {"ReturnFault", "answered", "dropped"},
           NEW step \in Canonical!Transitions, NEW s \in WorkflowStates,
           NEW following \in Canonical!Transitions,
           Ok(a, step, s, following), UNCHANGED <<callVars, storeVars>>
    PROVE  /\ ControlInv'
           /\ Canonical!Advance(a, step, following)
           /\ workflowBar' = [workflowBar EXCEPT ![a] = WorkflowOf(s, fault[a])]
<1> DEFINE w == << <<step, "entered">>, <<step, "next">> >>
<1>1. ControlTypes /\ AttemptInv(a)
  BY DEF ControlInv
<1>2. stmt' = [stmt EXCEPT ![a] = stmt[a]]
  BY <1>1, Unchanged DEF callVars
<1>3. Becomes(a, following, s, fault[a], response[a], w, stmt[a])
  BY <1>1, <1>2, MethodEnds
<1>4. w \in Seq(Canonical!TraceEntry)
  BY Entries
<1>5. following \in Stations \ {"Reconcile", "Compensate", "ReturnFault", "answered"}
  BY DEF Stations, Canonical!InFlight, Canonical!Transitions
<1>6. HandledInv(a)' /\ LogInv(a)' /\ ~TracedConflict(a)'
  <2>1. fault[a].compensations = {}
    BY <1>1 DEF AttemptInv, HandledInv
  <2> QED
    BY <1>1, <1>3, <1>5, <2>1, GoesOn
<1>7. stmt[a] \in {"idle", "done", "sent"}
  BY <1>1 DEF AttemptInv, CallInv, ControlTypes
<1> HIDE DEF w
<1>8. CanonicalLog(a)' = CanonicalLog(a) \o w
  BY <1>1, <1>3, <1>4, <1>6, <1>7, LogGrows
<1>9. ControlInv'
  BY <1>3, <1>4, <1>5, <1>6, QuietKeeps
<1>10. /\ Canonical!Advance(a, step, following)
       /\ workflowBar' = [workflowBar EXCEPT ![a] = WorkflowOf(s, fault[a])]
  <2>1. w = << <<step, "entered">>, <<step, "next">> >>
    BY DEF w
  <2>2. /\ Becomes(a, following, s, fault[a], response[a], w, stmt[a])
        /\ w = << <<step, "entered">>, <<step, "next">> >>
        => /\ Canonical!Advance(a, step, following)
           /\ workflowBar' = [workflowBar EXCEPT ![a] = WorkflowOf(s, fault[a])]
    BY <1>1, <1>8, EndsMap
  <2> QED
    BY <1>3, <2>1, <2>2
<1> QED
  BY <1>9, <1>10

LEMMA QuietRefuses ==
    ASSUME ControlInv, NEW a \in Attempts, stmt[a] \notin Calling,
           at[a] \notin {"answered", "dropped"},
           NEW step \in Canonical!Transitions \ {"RecordDecision"},
           NEW code, code # "ok", NEW retryable, NEW operator, NEW compensations,
           Refuses(a, Canonical!Fault(code, step, retryable, operator, compensations)),
           UNCHANGED <<callVars, storeVars>>
    PROVE  /\ ControlInv'
           /\ Canonical!FailAt(a, step, code, retryable, operator, compensations)
<1> DEFINE err == Canonical!Fault(code, step, retryable, operator, compensations)
           w == << <<step, "entered">>, <<step, "fault">> >>
<1>1. ControlTypes /\ AttemptInv(a)
  BY DEF ControlInv
<1>2. stmt' = [stmt EXCEPT ![a] = stmt[a]]
  BY <1>1, Unchanged DEF callVars
<1>3. err.step = step /\ err.code = code
  BY DEF Canonical!Fault
<1> HIDE DEF err
<1>4. Becomes(a, "answered", state[a], fault[a], err, w, stmt[a])
  BY <1>1, <1>2, <1>3, MethodEnds DEF err
<1>5. /\ w \in Seq(Canonical!TraceEntry) /\ w # <<>>
      /\ w[Len(w)] = <<err.step, "fault">>
  BY <1>3, Entries
<1>6. HandledInv(a)' /\ LogInv(a)'
  BY <1>1, <1>3, <1>4, <1>5, Answers
<1>7. ~TracedConflict(a)'
  BY <1>1, <1>3, <1>4, BecomesAt DEF TracedConflict
<1>8. stmt[a] \in {"idle", "done", "sent"}
  BY <1>1 DEF AttemptInv, CallInv, ControlTypes
<1>9. "answered" \in Stations /\ state[a] \in WorkflowStates
  BY <1>1 DEF Stations, ControlTypes
<1>10. CanonicalLog(a)' = CanonicalLog(a) \o w
  <2> HIDE DEF w
  <2> QED
    BY <1>1, <1>4, <1>5, <1>7, <1>8, LogGrows
<1>11. ControlInv'
  <2> HIDE DEF w
  <2> QED
    BY <1>4, <1>5, <1>6, <1>9, QuietKeeps
<1>12. Canonical!FailAt(a, step, code, retryable, operator, compensations)
  BY <1>1, <1>4, <1>10, EndsMap DEF err
<1> QED
  BY <1>11, <1>12

LEMMA SameStore ==
    /\ \A key : Canonical!Find(key) = Find(key)
    /\ \A key : Canonical!Locked(key) = Locked(key)
    /\ Canonical!LookupFailed = LookupFailed
    /\ Canonical!CommitLost = CommitLost
    /\ Canonical!DefiniteCodes = DefiniteCodes
    /\ Canonical!ConflictPathCodes = ConflictPathCodes
    /\ Canonical!ConflictCodes = ConflictCodes
BY DEF Canonical!Find, Find, Canonical!Locked, Locked, Canonical!LookupFailed,
       LookupFailed, Canonical!CommitLost, CommitLost, Canonical!DefiniteCodes,
       DefiniteCodes, Canonical!ConflictPathCodes, ConflictPathCodes,
       Canonical!ConflictCodes, ConflictCodes

LEMMA Faults ==
    /\ \A code, step, retryable :
         /\ Err(code, step, retryable) = Canonical!Fault(code, step, retryable, FALSE, {})
         /\ RequiringOperator(Err(code, step, retryable)) =
              Canonical!Fault(code, step, retryable, TRUE, {})
<1>1. \A code, step, retryable :
        Err(code, step, retryable) = Canonical!Fault(code, step, retryable, FALSE, {})
  BY DEF Err, Canonical!Fault
<1> DEFINE Operator(code, step, retryable, o, y) ==
               [Canonical!Fault(code, step, retryable, o, {}) EXCEPT !.operator = y] =
               Canonical!Fault(code, step, retryable, y, {})
<1>2. \A code, step, retryable, o, y : Operator(code, step, retryable, o, y)
  BY DEF Canonical!Fault
<1> HIDE DEF Operator
<1>4. \A code, step, retryable : Operator(code, step, retryable, FALSE, TRUE)
  BY <1>2, Zenon
<1>5. \A code, step, retryable :
        [Canonical!Fault(code, step, retryable, FALSE, {}) EXCEPT !.operator = TRUE] =
        Canonical!Fault(code, step, retryable, TRUE, {})
  BY <1>4, Zenon DEF Operator
<1>7. ASSUME NEW code, NEW step, NEW retryable
      PROVE  RequiringOperator(Err(code, step, retryable)) =
               Canonical!Fault(code, step, retryable, TRUE, {})
  <2>1. Err(code, step, retryable) = Canonical!Fault(code, step, retryable, FALSE, {})
    BY <1>1
  <2> QED
    BY <1>5, <2>1, Zenon DEF RequiringOperator
<1> QED
  BY <1>1, <1>7, Zenon

LEMMA ListedFaults ==
    \A code, step, retryable, u :
       Listing(Err(code, step, retryable), u) = Listed(code, step, retryable, u)
<1> DEFINE Made(code, step, retryable, o, u) ==
               [code |-> code, outcome |-> "none", step |-> step, retryable |-> retryable,
                operator |-> o, compensations |-> u]
           Lists(code, step, retryable, o, u) ==
               [Made(code, step, retryable, o, {}) EXCEPT !.compensations = u] =
               Made(code, step, retryable, o, u)
           no == FALSE
<1>1. \A code, step, retryable, o, u : Lists(code, step, retryable, o, u)
  OBVIOUS
<1>2. /\ \A code, step, retryable : Err(code, step, retryable) = Made(code, step, retryable, no, {})
      /\ \A code, step, retryable, u :
           Listed(code, step, retryable, u) = Made(code, step, retryable, no, u)
  BY DEF Err, Listed, Canonical!Fault
<1> HIDE DEF Made, no
<1> QED
  BY <1>1, <1>2 DEF Listing

LEMMA SameWorkflow ==
    ASSUME ControlTypes, NEW a \in Attempts
    PROVE  /\ [workflowBar EXCEPT ![a] = WorkflowOf(state[a], fault[a])] = workflowBar
           /\ workflowBar[a] = WorkflowOf(state[a], fault[a])
           /\ state[a] \in WorkflowStates
           /\ request[a] \in Requests
BY DEF ControlTypes, workflowBar

LEMMA EditsHere ==
    ASSUME ControlTypes, NEW a \in Attempts
    PROVE  /\ \A o : WorkflowOf([state[a] EXCEPT !.replayed = TRUE, !.result = o], fault[a]) =
                       [WorkflowOf(state[a], fault[a]) EXCEPT !.replayed = TRUE, !.result = o]
           /\ WorkflowOf([state[a] EXCEPT !.reservation_id = TRUE], fault[a]) =
                [WorkflowOf(state[a], fault[a]) EXCEPT !.reservation = TRUE]
           /\ WorkflowOf([state[a] EXCEPT !.payment_id = TRUE], fault[a]) =
                [WorkflowOf(state[a], fault[a]) EXCEPT !.payment = TRUE]
           /\ \A f : WorkflowOf(state[a], f) =
                [WorkflowOf(state[a], fault[a]) EXCEPT !.undone = f.compensations]
<1>1. state[a] \in WorkflowStates
  BY SameWorkflow
<1> QED
  BY <1>1, WorkflowEdits

LEMMA CalledStep ==
    ASSUME ControlInv, NEW a \in Attempts, Called(a)
    PROVE  ControlInv' /\ Canonical!Arrive(a)
<1>1. ControlTypes /\ AttemptInv(a) /\ at[a] = "idle"
  BY DEF ControlInv, Called
<1>2. stmt[a] \notin Calling /\ stmt[a] # "gone"
  BY <1>1 DEF AttemptInv, CallInv
<1>3. Becomes(a, "ValidateRequest", state[a], fault[a], response[a], <<>>, stmt[a])
  BY <1>1, Unchanged DEF Called, GoTo, Becomes, callVars
<1>4. "ValidateRequest" \in Stations \ {"Reconcile", "Compensate", "ReturnFault", "answered"}
  BY DEF Stations, Canonical!InFlight, Canonical!Transitions
<1>5. HandledInv(a)' /\ LogInv(a)' /\ ~TracedConflict(a)'
  <2>1. fault[a].compensations = {}
    BY <1>1 DEF AttemptInv, HandledInv
  <2> QED
    BY <1>1, <1>3, <1>4, <2>1, GoesOn
<1>6. UNCHANGED <<callVars, storeVars>>
  BY DEF Called
<1>7. ControlInv'
  BY <1>1, <1>2, <1>3, <1>4, <1>5, <1>6, SameWorkflow, Entries, QuietKeeps
<1>8. workflowBar' = workflowBar /\ pendingBar' = pendingBar
  BY DEF Called, workflowBar, pendingBar
<1>9. tracesBar' = tracesBar
  <2>1. \A b \in Attempts : ~TracedConflict(b)' <=> ~TracedConflict(b)
    <3>1. \A b \in Attempts \ {a} : at'[b] = at[b]
      BY DEF Called, GoTo
    <3>2. ~TracedConflict(a)
      BY <1>1 DEF TracedConflict
    <3> QED
      BY <1>5, <3>1, <3>2 DEF TracedConflict, Called
  <2> QED
    BY <2>1 DEF tracesBar, CanonicalLog, PendingEntry, Called, callVars
<1> QED
  BY <1>1, <1>7, <1>8, <1>9
     DEF Canonical!Arrive, Canonical!Goto, Canonical!ledgerVars, Canonical!storeVars,
         Called, GoTo, workflowBar, pendingBar, tracesBar, WorkflowOf, ledgerVars,
         storeVars

LEMMA ValidateStep ==
    ASSUME ControlInv, NEW a \in Attempts, Validate(a)
    PROVE  ControlInv' /\ Canonical!ValidateRequest(a)
<1>1. /\ ControlTypes /\ at[a] = "ValidateRequest"
      /\ UNCHANGED <<callVars, ledgerVars, storeVars>>
  BY DEF ControlInv, Validate
<1>2. stmt[a] \notin Calling
  BY <1>1, Outside
<1>3. /\ "ValidateRequest" \in Canonical!Transitions \ {"RecordDecision"}
      /\ "ResolveIdempotency" \in Canonical!Transitions
  BY DEF Canonical!Transitions
<1>4. DOMAIN ValidationOrder = 1..7
  BY DEF ValidationOrder
<1> DEFINE offends(i) == Offends(request[a].details)[ValidationOrder[i]]
<1>5. ASSUME \A i \in 1..7 : ~offends(i),
             Ok(a, "ValidateRequest", state[a], "ResolveIdempotency")
      PROVE  ControlInv' /\ Canonical!ValidateRequest(a)
  <2>1. request[a].flaws = {}
    BY <1>1, <1>5, NoOffence, SameWorkflow
  <2>2. /\ ControlInv'
        /\ Canonical!Advance(a, "ValidateRequest", "ResolveIdempotency")
        /\ workflowBar' = workflowBar
    BY <1>1, <1>2, <1>3, <1>5, SameWorkflow, QuietOk
  <2> QED
    BY <1>1, <2>1, <2>2
       DEF Canonical!ValidateRequest, workflowBar, WorkflowOf, Canonical!ledgerVars,
           Canonical!storeVars, ledgerVars, storeVars
<1>6. ASSUME NEW i \in 1..7, offends(i), \A j \in 1..(i - 1) : ~offends(j),
             Refuses(a, Err(ValidationOrder[i], "ValidateRequest", FALSE))
      PROVE  ControlInv' /\ Canonical!ValidateRequest(a)
  <2>1. /\ request[a].flaws # {}
        /\ Canonical!FirstFlaw(request[a]) = ValidationOrder[i]
    BY <1>1, <1>6, FirstOffence, SameWorkflow
  <2>2. ValidationOrder[i] # "ok"
    BY DEF ValidationOrder
  <2>3. Refuses(a, Canonical!Fault(ValidationOrder[i], "ValidateRequest", FALSE, FALSE, {}))
    BY <1>6, Faults
  <2>4. /\ ControlInv'
        /\ Canonical!FailAt(a, "ValidateRequest", ValidationOrder[i], FALSE, FALSE, {})
    <3> HIDE DEF offends
    <3> QED
      BY <1>1, <1>2, <1>3, <2>2, <2>3, QuietRefuses
  <2> QED
    BY <1>1, <2>1, <2>4
       DEF Canonical!ValidateRequest, Canonical!ledgerVars, Canonical!storeVars,
           ledgerVars, storeVars
<1> QED
  BY <1>4, <1>5, <1>6 DEF Validate

LEMMA ResolveStep ==
    ASSUME ControlInv, NEW a \in Attempts, Resolve(a)
    PROVE  ControlInv' /\ Canonical!ResolveIdempotency(a)
<1>1. /\ ControlTypes /\ at[a] = "ResolveIdempotency"
      /\ UNCHANGED <<callVars, ledgerVars, storeVars>>
  BY DEF ControlInv, Resolve
<1>2. stmt[a] \notin Calling
  BY <1>1, Outside
<1>3. /\ "ResolveIdempotency" \in Canonical!Transitions \ {"RecordDecision"}
      /\ "ScreenPolicy" \in Canonical!Transitions
  BY DEF Canonical!Transitions
<1>4. /\ Canonical!Find(request[a].key) = Existing(a)
      /\ Canonical!LookupFailed = LookupFailed
      /\ UNCHANGED <<Canonical!ledgerVars, Canonical!storeVars>>
  BY <1>1, SameStore
     DEF Existing, Canonical!ledgerVars, Canonical!storeVars, ledgerVars, storeVars
<1>5. ASSUME NEW d \in Same(a),
             Ok(a, "ResolveIdempotency",
                [state[a] EXCEPT !.replayed = TRUE, !.result = d.outcome], "ScreenPolicy")
      PROVE  ControlInv' /\ Canonical!ResolveIdempotency(a)
  <2> DEFINE s == [state[a] EXCEPT !.replayed = TRUE, !.result = d.outcome]
  <2>1. d \in Existing(a) /\ d.request = request[a] /\ d.outcome \in Outcomes
    BY <1>1 DEF Same, Existing, Find, ControlTypes, Decision
  <2>2. s \in WorkflowStates
    BY <1>1, <2>1, SameWorkflow DEF WorkflowStates
  <2>3. WorkflowOf(s, fault[a]) = [WorkflowOf(state[a], fault[a]) EXCEPT !.replayed = TRUE,
                                                     !.result = d.outcome]
    BY <1>1, EditsHere DEF s
  <2> HIDE DEF s
  <2>4. /\ ControlInv'
        /\ Canonical!Advance(a, "ResolveIdempotency", "ScreenPolicy")
        /\ workflowBar' = [workflowBar EXCEPT ![a] = WorkflowOf(s, fault[a])]
    BY <1>1, <1>2, <1>3, <1>5, <2>2, QuietOk DEF s
  <2>5. workflowBar' = [workflowBar EXCEPT ![a].replayed = TRUE, ![a].result = d.outcome]
    BY <2>3, <2>4 DEF workflowBar
  <2> QED
    BY <1>1, <1>4, <2>1, <2>4, <2>5
       DEF Canonical!ResolveIdempotency, workflowBar, WorkflowOf
<1>6. ASSUME Other(a) # {},
             Refuses(a, Err("idempotency_key_conflict", "ResolveIdempotency", FALSE))
      PROVE  ControlInv' /\ Canonical!ResolveIdempotency(a)
  <2>1. Refuses(a, Canonical!Fault("idempotency_key_conflict", "ResolveIdempotency",
                                   FALSE, FALSE, {}))
    BY <1>6, Faults
  <2>2. /\ ControlInv'
        /\ Canonical!FailAt(a, "ResolveIdempotency", "idempotency_key_conflict",
                            FALSE, FALSE, {})
    BY <1>1, <1>2, <1>3, <2>1, QuietRefuses
  <2>3. \E d \in Existing(a) : d.request # request[a]
    BY <1>6 DEF Other, Same
  <2> QED
    BY <1>1, <1>4, <2>2, <2>3 DEF Canonical!ResolveIdempotency
<1>7. ASSUME Existing(a) = {},
             Ok(a, "ResolveIdempotency", state[a], "ScreenPolicy")
      PROVE  ControlInv' /\ Canonical!ResolveIdempotency(a)
  <2>1. /\ ControlInv'
        /\ Canonical!Advance(a, "ResolveIdempotency", "ScreenPolicy")
        /\ workflowBar' = workflowBar
    BY <1>1, <1>2, <1>3, <1>7, SameWorkflow, QuietOk
  <2> QED
    BY <1>1, <1>4, <1>7, <2>1 DEF Canonical!ResolveIdempotency, workflowBar, WorkflowOf
<1>8. ASSUME LookupFailed \in StoreFaults,
             Refuses(a, RequiringOperator(
                 Err("idempotency_lookup_failed", "ResolveIdempotency", TRUE)))
      PROVE  ControlInv' /\ Canonical!ResolveIdempotency(a)
  <2>1. Refuses(a, Canonical!Fault("idempotency_lookup_failed", "ResolveIdempotency",
                                   TRUE, TRUE, {}))
    BY <1>8, Faults
  <2>2. /\ ControlInv'
        /\ Canonical!FailAt(a, "ResolveIdempotency", "idempotency_lookup_failed",
                            TRUE, TRUE, {})
    BY <1>1, <1>2, <1>3, <2>1, QuietRefuses
  <2> QED
    BY <1>1, <1>4, <1>8, <2>2 DEF Canonical!ResolveIdempotency
<1> QED
  BY <1>5, <1>6, <1>7, <1>8 DEF Resolve

LEMMA ScreenStep ==
    ASSUME ControlInv, NEW a \in Attempts, Screen(a)
    PROVE  ControlInv' /\ Canonical!ScreenPolicy(a)
<1> DEFINE s == IF state[a].replayed THEN state[a]
                ELSE [state[a] EXCEPT !.result = Screened(request[a])]
<1>1. /\ ControlTypes /\ at[a] = "ScreenPolicy"
      /\ UNCHANGED <<callVars, ledgerVars, storeVars>>
      /\ Ok(a, "ScreenPolicy", s, "ReserveInventory")
  BY DEF ControlInv, Screen
<1>2. stmt[a] \notin Calling
  BY <1>1, Outside
<1>3. /\ "ScreenPolicy" \in Canonical!Transitions
      /\ "ReserveInventory" \in Canonical!Transitions
  BY DEF Canonical!Transitions
<1>4. Screened(request[a]) \in Outcomes \cup {"none"}
  BY DEF Screened, Outcomes
<1>5. s \in WorkflowStates
  BY <1>1, <1>4, SameWorkflow DEF WorkflowStates
<1>6. Canonical!PolicyResult(request[a]) = Screened(request[a])
  BY DEF Canonical!PolicyResult, Screened
<1>7. WorkflowOf(s, fault[a]) = [WorkflowOf(state[a], fault[a]) EXCEPT !.result =
                         IF WorkflowOf(state[a], fault[a]).replayed THEN @
                         ELSE Canonical!PolicyResult(request[a])]
  BY <1>1, <1>6, SameWorkflow DEF WorkflowOf, WorkflowStates
<1> HIDE DEF s
<1>8. /\ ControlInv'
      /\ Canonical!Advance(a, "ScreenPolicy", "ReserveInventory")
      /\ workflowBar' = [workflowBar EXCEPT ![a] = WorkflowOf(s, fault[a])]
  BY <1>1, <1>2, <1>3, <1>5, QuietOk
<1>9. workflowBar' = [workflowBar EXCEPT ![a].result =
                        IF workflowBar[a].replayed THEN @
                        ELSE Canonical!PolicyResult(request[a])]
  BY <1>7, <1>8 DEF workflowBar
<1> QED
  BY <1>1, <1>8, <1>9
     DEF Canonical!ScreenPolicy, workflowBar, WorkflowOf, Canonical!ledgerVars,
         Canonical!storeVars, ledgerVars, storeVars

LEMMA SameLedger ==
    ASSUME ControlTypes, NEW a \in Attempts
    PROVE  /\ Canonical!NeedsEffects(a) <=> Undecided(a)
           /\ \A o : Reserve(o) => Canonical!Reserve(o)
           /\ \A o : Authorize(o) => Canonical!Authorize(o)
           /\ \A o, void, release :
                /\ Compensate(o, void, release) => Canonical!Compensate(o, void, release)
                /\ CompensationOutcomes(o, void, release) =
                     Canonical!CompensationOutcomes(o, void, release)
<1>1. Canonical!NeedsEffects(a) <=> Undecided(a)
  BY DEF Canonical!NeedsEffects, Undecided
<1>2. \A o : Reserve(o) => Canonical!Reserve(o)
  BY DEF Canonical!Reserve, Reserve
<1>3. \A o : Authorize(o) => Canonical!Authorize(o)
  BY DEF Canonical!Authorize, Authorize
<1>4. \A o, void, release :
         Compensate(o, void, release) => Canonical!Compensate(o, void, release)
  BY DEF Canonical!Compensate, Compensate, Canonical!VoidEvents, VoidEvents,
         Canonical!ReleaseEvents, ReleaseEvents
<1>5. \A o, void, release :
         CompensationOutcomes(o, void, release) =
           Canonical!CompensationOutcomes(o, void, release)
  BY DEF Canonical!CompensationOutcomes, CompensationOutcomes,
         Canonical!CompensationOutcome, CompensationOutcome, Canonical!Applied, Applied
<1> QED
  BY <1>1, <1>2, <1>3, <1>4, <1>5

LEMMA ReserveStep ==
    ASSUME ControlInv, NEW a \in Attempts, ReserveStock(a)
    PROVE  ControlInv' /\ Canonical!ReserveInventory(a)
<1>1. /\ ControlTypes /\ at[a] = "ReserveInventory"
      /\ UNCHANGED <<callVars, storeVars>>
  BY DEF ControlInv, ReserveStock
<1>2. stmt[a] \notin Calling
  BY <1>1, Outside
<1>3. /\ "ReserveInventory" \in Canonical!Transitions \ {"RecordDecision"}
      /\ "AuthorizePayment" \in Canonical!Transitions
  BY DEF Canonical!Transitions
<1>4. /\ UNCHANGED Canonical!storeVars
      /\ UNCHANGED ledgerVars => UNCHANGED Canonical!ledgerVars
  BY <1>1 DEF Canonical!ledgerVars, Canonical!storeVars, ledgerVars, storeVars
<1>5. ASSUME ~Undecided(a), UNCHANGED ledgerVars,
             Ok(a, "ReserveInventory", state[a], "AuthorizePayment")
      PROVE  ControlInv' /\ Canonical!ReserveInventory(a)
  <2>1. /\ ControlInv'
        /\ Canonical!Advance(a, "ReserveInventory", "AuthorizePayment")
        /\ workflowBar' = workflowBar
    BY <1>1, <1>2, <1>3, <1>5, SameWorkflow, QuietOk
  <2>2. ~Canonical!NeedsEffects(a)
    BY <1>1, <1>5, SameLedger
  <2> QED
    BY <1>1, <1>4, <1>5, <2>1, <2>2 DEF Canonical!ReserveInventory, workflowBar, WorkflowOf
<1>6. ASSUME Undecided(a), request[a].fixture = "out_of_stock", UNCHANGED ledgerVars,
             Refuses(a, Err("inventory_out_of_stock", "ReserveInventory", FALSE))
      PROVE  ControlInv' /\ Canonical!ReserveInventory(a)
  <2>1. Refuses(a, Canonical!Fault("inventory_out_of_stock", "ReserveInventory",
                                   FALSE, FALSE, {}))
    BY <1>6, Faults
  <2>2. /\ ControlInv'
        /\ Canonical!FailAt(a, "ReserveInventory", "inventory_out_of_stock",
                            FALSE, FALSE, {})
    BY <1>1, <1>2, <1>3, <2>1, QuietRefuses
  <2>3. Canonical!NeedsEffects(a)
    BY <1>1, <1>6, SameLedger
  <2> QED
    BY <1>1, <1>4, <1>6, <2>2, <2>3 DEF Canonical!ReserveInventory
<1>7. ASSUME Undecided(a), request[a].fixture # "out_of_stock",
             Reserve(request[a].order),
             Ok(a, "ReserveInventory",
                [state[a] EXCEPT !.reservation_id = TRUE], "AuthorizePayment")
      PROVE  ControlInv' /\ Canonical!ReserveInventory(a)
  <2> DEFINE s == [state[a] EXCEPT !.reservation_id = TRUE]
  <2>1. s \in WorkflowStates
    BY <1>1, SameWorkflow DEF WorkflowStates
  <2>2. WorkflowOf(s, fault[a]) = [WorkflowOf(state[a], fault[a]) EXCEPT !.reservation = TRUE]
    BY <1>1, EditsHere DEF s
  <2> HIDE DEF s
  <2>3. /\ ControlInv'
        /\ Canonical!Advance(a, "ReserveInventory", "AuthorizePayment")
        /\ workflowBar' = [workflowBar EXCEPT ![a] = WorkflowOf(s, fault[a])]
    BY <1>1, <1>2, <1>3, <1>7, <2>1, QuietOk DEF s
  <2>4. workflowBar' = [workflowBar EXCEPT ![a].reservation = TRUE]
    BY <2>2, <2>3 DEF workflowBar
  <2>5. Canonical!NeedsEffects(a) /\ Canonical!Reserve(request[a].order)
    BY <1>1, <1>7, SameLedger
  <2> QED
    BY <1>1, <1>4, <1>7, <2>3, <2>4, <2>5
       DEF Canonical!ReserveInventory, workflowBar, WorkflowOf
<1> QED
  BY <1>5, <1>6, <1>7 DEF ReserveStock

\* what a step of an execution outside of its call is to the workflow
LEMMA QuietMaps ==
    ASSUME ControlInv, NEW a \in Attempts, stmt[a] \notin Calling,
           at[a] \notin {"answered", "dropped"},
           NEW m \in Stations, NEW s \in WorkflowStates, NEW e, NEW r,
           NEW w \in Seq(Canonical!TraceEntry),
           Becomes(a, m, s, e, r, w, stmt[a]), UNCHANGED <<callVars, storeVars>>,
           HandledInv(a)', LogInv(a)', ~TracedConflict(a)'
    PROVE  ControlInv' /\ CanonicalLog(a)' = CanonicalLog(a) \o w
<1>1. ControlTypes /\ AttemptInv(a)
  BY DEF ControlInv
<1>2. stmt[a] \in {"idle", "done", "sent"}
  BY <1>1 DEF AttemptInv, CallInv, ControlTypes
<1>3. CanonicalLog(a)' = CanonicalLog(a) \o w
  BY <1>1, <1>2, LogGrows
<1>4. ControlInv'
  BY QuietKeeps
<1> QED
  BY <1>3, <1>4

LEMMA EndEntries ==
    /\ << <<"RecordDecision", "next">> >> \in Seq(Canonical!TraceEntry)
    /\ << <<"RecordDecision", "fault">> >> \in Seq(Canonical!TraceEntry)
    /\ << <<"CompleteAuthorization", "entered">>,
          <<"CompleteAuthorization", "next">> >> \in Seq(Canonical!TraceEntry)
    /\ <<>> \in Seq(Canonical!TraceEntry)
BY Entries DEF Canonical!Transitions

LEMMA LaterStations ==
    /\ {"Reconcile", "Compensate", "ReturnFault", "answered", "dropped"} \subseteq Stations
    /\ "CompleteAuthorization" \in Stations \ {"Reconcile", "Compensate", "ReturnFault", "answered"}
    /\ "RecordDecision" \in Stations
BY DEF Stations, Canonical!InFlight, Canonical!Transitions

UndoesAndLogs(a, code, step, retryable, void, release, entries) ==
    /\ Undoes(a, Err(code, step, retryable), void, release)
    /\ log' = [log EXCEPT ![a] = log[a] \o entries]
    /\ UNCHANGED <<callVars, storeVars>>

\* a compensation: what the workflow remembers of it, the Err lists
LEMMA UndoesStep ==
    ASSUME ControlInv, NEW a \in Attempts, stmt[a] \notin Calling,
           at[a] \notin {"answered", "dropped"},
           NEW code \in Canonical!RecordCodes \cup {"payment_declined"},
           NEW step, NEW retryable, NEW void, NEW release,
           NEW entries \in Seq(Canonical!TraceEntry),
           UndoesAndLogs(a, code, step, retryable, void, release, entries),
           Returns(code, step, retryable)
    PROVE  /\ ControlInv'
           /\ Canonical!Undo(a, void, release)
           /\ pendingBar' = [pendingBar EXCEPT ![a] = code]
           /\ tracesBar' = [tracesBar EXCEPT ![a] = @ \o entries]
<1> DEFINE outcomes == CompensationOutcomes(request[a].order, void, release)
           e == Listing(Err(code, step, retryable), outcomes)
<1>1. /\ ControlTypes /\ AttemptInv(a)
      /\ Undoes(a, Err(code, step, retryable), void, release)
      /\ log' = [log EXCEPT ![a] = log[a] \o entries]
      /\ UNCHANGED <<callVars, storeVars>>
  BY DEF ControlInv, UndoesAndLogs
<1>2. stmt' = [stmt EXCEPT ![a] = stmt[a]]
  BY <1>1, Unchanged DEF callVars
<1>3. Becomes(a, "ReturnFault", state[a], e, response[a], entries, stmt[a])
  BY <1>1, <1>2, MethodEnds
<1>4. /\ Compensate(request[a].order, void, release)
      /\ UNCHANGED <<request, response>>
      /\ at' = [at EXCEPT ![a] = "ReturnFault"]
  BY <1>1 DEF Undoes, GoTo
<1>5. outcomes = Canonical!CompensationOutcomes(request[a].order, void, release)
  BY <1>1, SameLedger
<1>6. Canonical!Compensate(request[a].order, void, release)
  BY <1>1, <1>4, SameLedger
<1> HIDE DEF outcomes
<1>7. e = Listed(code, step, retryable, outcomes)
  BY ListedFaults
<1>8. e.code = code /\ e.compensations = outcomes
  BY <1>7 DEF Listed, Canonical!Fault
<1>9. e = Returning(code, e.compensations)
  BY <1>7, <1>8 DEF Returns
<1> HIDE DEF e
<1>10. HandledInv(a)' /\ LogInv(a)' /\ ~TracedConflict(a)'
  <2>1. at'[a] = "ReturnFault" /\ fault'[a] = e
    BY <1>1, <1>3, BecomesAt
  <2> QED
    BY <1>9, <2>1 DEF HandledInv, LogInv, TracedConflict
<1>11. ControlInv' /\ CanonicalLog(a)' = CanonicalLog(a) \o entries
  <2>1. "ReturnFault" \in Stations /\ state[a] \in WorkflowStates
    BY <1>1, LaterStations, SameWorkflow
  <2> QED
    BY <1>1, <1>3, <1>10, <2>1, QuietMaps
<1>12. Maps(a, "ReturnFault", state[a], e, response[a], entries)
  BY <1>1, <1>3, <1>11, BecomesMaps
<1>13. WorkflowOf(state[a], e) = [WorkflowOf(state[a], fault[a]) EXCEPT !.undone = outcomes]
  <2>1. WorkflowOf(state[a], e) =
          [WorkflowOf(state[a], fault[a]) EXCEPT !.undone = e.compensations]
    BY <1>1, EditsHere
  <2> QED
    BY <1>8, <2>1
<1>14. workflowBar' = [workflowBar EXCEPT ![a].undone = outcomes]
  BY <1>12, <1>13 DEF Maps, workflowBar
<1>15. Canonical!Undo(a, void, release)
  BY <1>4, <1>5, <1>6, <1>14
     DEF Canonical!Undo, Canonical!Goto, workflowBar, WorkflowOf
<1> QED
  BY <1>8, <1>11, <1>12, <1>15 DEF Maps

LEMMA ChargeStep ==
    ASSUME ControlInv, NEW a \in Attempts, ChargePayment(a)
    PROVE  ControlInv' /\ Canonical!AuthorizePayment(a)
<1>1. /\ ControlTypes /\ at[a] = "AuthorizePayment"
      /\ UNCHANGED <<callVars, storeVars>>
  BY DEF ControlInv, ChargePayment
<1>2. stmt[a] \notin Calling
  BY <1>1, Outside
<1>3. /\ "AuthorizePayment" \in Canonical!Transitions \ {"RecordDecision"}
      /\ "RecordDecision" \in Canonical!Transitions
  BY DEF Canonical!Transitions
<1>4. /\ UNCHANGED Canonical!storeVars
      /\ UNCHANGED ledgerVars => UNCHANGED Canonical!ledgerVars
  BY <1>1 DEF Canonical!ledgerVars, Canonical!storeVars, ledgerVars, storeVars
<1> DEFINE release == state[a].reservation_id
           o == request[a].order
<1>5. ASSUME ~Undecided(a), UNCHANGED ledgerVars,
             Ok(a, "AuthorizePayment", state[a], "RecordDecision")
      PROVE  ControlInv' /\ Canonical!AuthorizePayment(a)
  <2>1. /\ ControlInv'
        /\ Canonical!Advance(a, "AuthorizePayment", "RecordDecision")
        /\ workflowBar' = workflowBar
    BY <1>1, <1>2, <1>3, <1>5, SameWorkflow, QuietOk
  <2>2. ~Canonical!NeedsEffects(a)
    BY <1>1, <1>5, SameLedger
  <2> QED
    BY <1>1, <1>4, <1>5, <2>1, <2>2 DEF Canonical!AuthorizePayment, workflowBar, WorkflowOf
<1>6. ASSUME Undecided(a), request[a].fixture = "payment_declined",
             Undoes(a, Err("payment_declined", "AuthorizePayment", FALSE), FALSE, release),
             TraceStep(a, "AuthorizePayment", <<"entered">>)
      PROVE  ControlInv' /\ Canonical!AuthorizePayment(a)
  <2> DEFINE code == "payment_declined"
             no == FALSE
             w == << <<"AuthorizePayment", "entered">> >>
  <2>0. PICK held : held = release
    OBVIOUS
  <2>1. w \in Seq(Canonical!TraceEntry) /\ log' = [log EXCEPT ![a] = log[a] \o w]
    BY <1>3, <1>6, Entries, SaysEntries DEF TraceStep
  <2>2. Returns(code, "AuthorizePayment", no)
    BY DEF Returns, Returning, Listed
  <2>3. Undoes(a, Err(code, "AuthorizePayment", no), no, held)
    BY <1>6, <2>0 DEF Undoes
  <2>4. code \in Canonical!RecordCodes \cup {"payment_declined"}
    OBVIOUS
  <2> HIDE DEF code, no, w
  <2>5. /\ ControlInv'
        /\ Canonical!Undo(a, no, held)
        /\ pendingBar' = [pendingBar EXCEPT ![a] = code]
        /\ tracesBar' = [tracesBar EXCEPT ![a] = @ \o w]
    <3>1. UndoesAndLogs(a, code, "AuthorizePayment", no, no, held, w)
      BY <1>1, <2>1, <2>3 DEF UndoesAndLogs
    <3>2. at[a] \notin {"answered", "dropped"} /\ w \in Seq(Canonical!TraceEntry)
      BY <1>1, <2>1
    <3>3. PICK v : v = no
      OBVIOUS
    <3>4. UndoesAndLogs(a, code, "AuthorizePayment", v, v, held, w)
      BY <3>1, <3>3
    <3>5. Returns(code, "AuthorizePayment", v)
      BY <2>2, <3>3
    <3>6. /\ ControlInv'
          /\ Canonical!Undo(a, v, held)
          /\ pendingBar' = [pendingBar EXCEPT ![a] = code]
          /\ tracesBar' = [tracesBar EXCEPT ![a] = @ \o w]
      BY <1>2, <2>4, <3>2, <3>4, <3>5, UndoesStep
    <3> QED
      BY <3>3, <3>6
  <2>6. Canonical!Trace(a, << <<"AuthorizePayment", "entered">> >>)
    BY <2>5 DEF Canonical!Trace, tracesBar, w
  <2>7. Canonical!NeedsEffects(a)
    BY <1>1, <1>6, SameLedger
  <2>8. workflowBar[a].reservation = held
    <3>1. workflowBar[a] = WorkflowOf(state[a], fault[a])
      BY <1>1, SameWorkflow
    <3>2. \A s, e : WorkflowOf(s, e).reservation = s.reservation_id
      BY DEF WorkflowOf
    <3> QED
      BY <2>0, <3>1, <3>2
  <2> QED
    BY <1>1, <1>4, <1>6, <2>5, <2>6, <2>7, <2>8
       DEF Canonical!AuthorizePayment, Canonical!Undo, Canonical!Compensate,
           workflowBar, WorkflowOf, pendingBar, code, no
<1>7. ASSUME Undecided(a), request[a].fixture # "payment_declined",
             Authorize(request[a].order),
             Ok(a, "AuthorizePayment",
                [state[a] EXCEPT !.payment_id = TRUE], "RecordDecision")
      PROVE  ControlInv' /\ Canonical!AuthorizePayment(a)
  <2> DEFINE s == [state[a] EXCEPT !.payment_id = TRUE]
  <2>1. s \in WorkflowStates
    BY <1>1, SameWorkflow DEF WorkflowStates
  <2>2. WorkflowOf(s, fault[a]) = [WorkflowOf(state[a], fault[a]) EXCEPT !.payment = TRUE]
    BY <1>1, EditsHere DEF s
  <2> HIDE DEF s
  <2>3. /\ ControlInv'
        /\ Canonical!Advance(a, "AuthorizePayment", "RecordDecision")
        /\ workflowBar' = [workflowBar EXCEPT ![a] = WorkflowOf(s, fault[a])]
    BY <1>1, <1>2, <1>3, <1>7, <2>1, QuietOk DEF s
  <2>4. workflowBar' = [workflowBar EXCEPT ![a].payment = TRUE]
    BY <2>2, <2>3 DEF workflowBar
  <2>5. Canonical!NeedsEffects(a) /\ Canonical!Authorize(request[a].order)
    BY <1>1, <1>7, SameLedger
  <2> QED
    BY <1>1, <1>4, <1>7, <2>3, <2>4, <2>5
       DEF Canonical!AuthorizePayment, workflowBar, WorkflowOf
<1> QED
  BY <1>5, <1>6, <1>7 DEF ChargePayment

LEMMA ReplayStep ==
    ASSUME ControlInv, NEW a \in Attempts, RecordReplay(a)
    PROVE  ControlInv' /\ Canonical!RecordDecision(a)
<1>1. /\ ControlTypes /\ at[a] = "RecordDecision" /\ state[a].replayed
      /\ UNCHANGED <<callVars, ledgerVars, storeVars>>
  BY DEF ControlInv, RecordReplay
<1>2. stmt[a] \notin Calling
  BY <1>1, Outside
<1>3. /\ "RecordDecision" \in Canonical!Transitions
      /\ "CompleteAuthorization" \in Canonical!Transitions
  BY DEF Canonical!Transitions
<1>4. /\ ControlInv'
      /\ Canonical!Advance(a, "RecordDecision", "CompleteAuthorization")
      /\ workflowBar' = workflowBar
  BY <1>1, <1>2, <1>3, SameWorkflow, QuietOk DEF RecordReplay
<1> QED
  BY <1>1, <1>4
     DEF Canonical!RecordDecision, Canonical!RecordReplayed, workflowBar, WorkflowOf,
         Canonical!ledgerVars, Canonical!storeVars, ledgerVars, storeVars

-----------------------------------------------------------------------------
(***************************************************************************)
(* After record: the lookup that reconciles, the compensation, the answer. *)
(***************************************************************************)
LEMMA ReconcileStep ==
    ASSUME ControlInv, NEW a \in Attempts, ReconcileUnknown(a)
    PROVE  ControlInv' /\ Canonical!Reconcile(a)
<1>1. /\ ControlTypes /\ AttemptInv(a) /\ at[a] = "Reconcile"
      /\ UNCHANGED <<callVars, ledgerVars, storeVars>>
  BY DEF ControlInv, ReconcileUnknown
<1>2. stmt[a] \notin Calling /\ stmt' = [stmt EXCEPT ![a] = stmt[a]]
  BY <1>1, Outside, Unchanged DEF callVars
<1>3. /\ Canonical!Find(request[a].key) = Existing(a)
      /\ Canonical!LookupFailed = LookupFailed
      /\ UNCHANGED <<Canonical!ledgerVars, Canonical!storeVars>>
  BY <1>1, SameStore
     DEF Existing, Canonical!ledgerVars, Canonical!storeVars, ledgerVars, storeVars
<1>4. PICK code \in UnknownCodes : fault[a] = Err(code, "RecordDecision", TRUE)
  BY <1>1 DEF AttemptInv, HandledInv
<1>5. /\ fault[a].code = code /\ code # "ok" /\ code # "idempotency_key_conflict"
      /\ fault[a].compensations = {}
  BY <1>4 DEF Err, UnknownCodes, ConflictPathCodes, CommitLost
<1>6. ASSUME NEW d \in Same(a), Settled(a, d.outcome, <<"next">>)
      PROVE  ControlInv' /\ Canonical!Reconcile(a)
  <2> DEFINE s == [state[a] EXCEPT !.result = d.outcome]
             w == << <<"RecordDecision", "next">> >>
  <2>1. d \in Existing(a) /\ d.request = request[a] /\ d.outcome \in Outcomes
    BY <1>1 DEF Same, Existing, Find, ControlTypes, Decision
  <2>2. s \in WorkflowStates
    BY <1>1, <2>1, SameWorkflow DEF WorkflowStates
  <2>3. Becomes(a, "CompleteAuthorization", s, fault[a], response[a], w, stmt[a])
    BY <1>1, <1>2, <1>6, MethodEnds
  <2>4. w \in Seq(Canonical!TraceEntry) /\ w = << <<"RecordDecision", "next">> >>
    BY EndEntries
  <2> HIDE DEF w
  <2>5. HandledInv(a)' /\ LogInv(a)' /\ ~TracedConflict(a)'
    BY <1>1, <1>5, <2>3, LaterStations, GoesOn
  <2>6. ControlInv' /\ CanonicalLog(a)' = CanonicalLog(a) \o w
    BY <1>1, <1>2, <2>2, <2>3, <2>4, <2>5, LaterStations, QuietMaps
  <2>7. Canonical!Recorded(a, d.outcome, w)
    BY <1>1, <2>3, <2>6, EndsMap
  <2> QED
    BY <1>1, <1>3, <2>1, <2>4, <2>6, <2>7 DEF Canonical!Reconcile
<1>7. ASSUME NEW found \in Canonical!RecordCodes, NEW retryable,
             retryable = (found \notin ConflictCodes),
             Handles(a, "Compensate", Err(found, "RecordDecision", retryable))
      PROVE  ControlInv' /\ Canonical!Suspend(a, "Compensate", found, <<>>)
  <2> DEFINE err == Err(found, "RecordDecision", retryable)
  <2>1. Becomes(a, "Compensate", state[a], err, response[a], <<>>, stmt[a])
    BY <1>1, <1>2, <1>7, MethodEnds
  <2>2. err.code = found /\ err.compensations = fault[a].compensations
    BY <1>5 DEF Err
  <2>3. HandledInv(a)' /\ LogInv(a)' /\ ~TracedConflict(a)'
    <3>1. /\ at'[a] = "Compensate"
          /\ fault'[a] = Err(found, "RecordDecision", found \notin ConflictCodes)
      BY <1>1, <1>7, <2>1, BecomesAt
    <3>2. fault'[a].compensations = {}
      BY <3>1 DEF Err
    <3>3. HandledInv(a)'
      BY <1>7, <3>1, <3>2 DEF HandledInv
    <3> QED
      BY <3>1, <3>3 DEF LogInv, TracedConflict
  <2> HIDE DEF err
  <2>4. ControlInv' /\ CanonicalLog(a)' = CanonicalLog(a) \o <<>>
    BY <1>1, <1>2, <2>1, <2>3, EndEntries, LaterStations, SameWorkflow, QuietMaps
  <2>5. Canonical!Suspend(a, "Compensate", err.code, <<>>)
    BY <1>1, <2>1, <2>2, <2>4, EndsMap
  <2> QED
    BY <2>2, <2>4, <2>5
<1>8. ASSUME Other(a) # {},
             Handles(a, "Compensate",
                Err("decision_reconciliation_conflict", "RecordDecision", FALSE))
      PROVE  ControlInv' /\ Canonical!Reconcile(a)
  <2>1. /\ "decision_reconciliation_conflict" \in Canonical!RecordCodes
        /\ FALSE = ("decision_reconciliation_conflict" \notin ConflictCodes)
    BY DEF Canonical!RecordCodes, Canonical!ConflictCodes, ConflictCodes
  <2>2. /\ ControlInv'
        /\ Canonical!Suspend(a, "Compensate", "decision_reconciliation_conflict", <<>>)
    BY <1>7, <1>8, <2>1
  <2>3. \E d \in Existing(a) : d.request # request[a]
    BY <1>8 DEF Other, Same
  <2> QED
    BY <1>1, <1>3, <2>2, <2>3 DEF Canonical!Reconcile
<1>9. ASSUME Existing(a) = {},
             Handles(a, "Compensate",
                Err("decision_absence_proven_after_unknown_commit",
                    "RecordDecision", TRUE))
      PROVE  ControlInv' /\ Canonical!Reconcile(a)
  <2>1. /\ Canonical!Absent \in Canonical!RecordCodes
        /\ TRUE = (Canonical!Absent \notin ConflictCodes)
        /\ Canonical!Absent = "decision_absence_proven_after_unknown_commit"
    BY DEF Canonical!RecordCodes, Canonical!Absent, ConflictCodes
  <2>2. ControlInv' /\ Canonical!Suspend(a, "Compensate", Canonical!Absent, <<>>)
    BY <1>7, <1>9, <2>1
  <2> QED
    BY <1>1, <1>3, <1>9, <2>2 DEF Canonical!Reconcile
<1>10. ASSUME LookupFailed \in StoreFaults,
              Responds(a, RequiringOperator(fault[a])),
              TraceStep(a, "RecordDecision", <<"fault">>)
       PROVE  ControlInv' /\ Canonical!Reconcile(a)
  <2> DEFINE w == << <<"RecordDecision", "fault">> >>
             r == Canonical!Fault(code, "RecordDecision", TRUE, TRUE, {})
  <2>1. RequiringOperator(fault[a]) = r
    BY <1>4, Faults
  <2>2. r.code = code /\ r.step = "RecordDecision"
    BY DEF Canonical!Fault
  <2> HIDE DEF r
  <2>3. Becomes(a, "answered", state[a], fault[a], r, w, stmt[a])
    BY <1>1, <1>2, <1>10, <2>1, MethodEnds
  <2>4. /\ w \in Seq(Canonical!TraceEntry) /\ w # <<>>
        /\ w[Len(w)] = <<r.step, "fault">>
        /\ w = << <<"RecordDecision", "fault">> >>
    BY <2>2, EndEntries
  <2> HIDE DEF w
  <2>5. HandledInv(a)' /\ LogInv(a)'
    BY <1>1, <1>5, <2>2, <2>3, <2>4, Answers
  <2>6. ~TracedConflict(a)'
    BY <1>1, <1>5, <2>2, <2>3, BecomesAt DEF TracedConflict
  <2>7. ControlInv' /\ CanonicalLog(a)' = CanonicalLog(a) \o w
    <3>1. /\ "answered" \in Stations /\ state[a] \in WorkflowStates
          /\ at[a] \notin {"answered", "dropped"}
      BY <1>1, LaterStations, SameWorkflow
    <3> QED
      BY <1>1, <1>2, <2>3, <2>4, <2>5, <2>6, <3>1, QuietMaps
  <2>8. Maps(a, "answered", state[a], fault[a], r, w)
    BY <1>1, <2>3, <2>7, BecomesMaps
  <2>9. /\ workflowBar' = workflowBar
        /\ pendingBar' = pendingBar
        /\ pendingBar[a] = code
    BY <1>1, <1>5, <2>8, SameWorkflow, Unchanged DEF Maps, pendingBar
  <2> QED
    BY <1>1, <1>3, <1>10, <2>4, <2>7, <2>8, <2>9
       DEF Maps, Canonical!Reconcile, Canonical!Goto, Canonical!Trace, workflowBar, WorkflowOf,
           pendingBar, tracesBar, r
<1> QED
  BY <1>6, <1>8, <1>9, <1>10 DEF ReconcileUnknown

LEMMA CompensateStep ==
    ASSUME ControlInv, NEW a \in Attempts, CompensateState(a)
    PROVE  ControlInv' /\ Canonical!CompensateDecision(a)
<1> DEFINE none == <<>>
<1>0. PICK void, release :
         void = state[a].payment_id /\ release = state[a].reservation_id
  OBVIOUS
<1>1. /\ ControlTypes /\ AttemptInv(a) /\ at[a] = "Compensate"
      /\ UNCHANGED <<callVars, storeVars>> /\ log' = log
      /\ Undoes(a, fault[a], state[a].payment_id, state[a].reservation_id)
  BY DEF ControlInv, CompensateState
<1>2. stmt[a] \notin Calling
  BY <1>1, Outside
<1>3. PICK code \in Canonical!RecordCodes :
         fault[a] = Err(code, "RecordDecision", code \notin ConflictCodes)
  BY <1>1 DEF AttemptInv, HandledInv
<1>4. fault[a].code = code /\ code # "payment_declined"
  BY <1>3 DEF Err, Canonical!RecordCodes, Canonical!DefiniteCodes,
              Canonical!ConflictPathCodes, Canonical!ConflictCodes,
              Canonical!CommitLost, Canonical!Absent
<1> DEFINE retryable == code \notin ConflictCodes
<1>5. Returns(code, "RecordDecision", retryable)
  BY <1>4 DEF Returns, Returning, Listed
<1>6. Undoes(a, Err(code, "RecordDecision", retryable), void, release)
  BY <1>0, <1>1, <1>3 DEF Undoes
<1>7. none \in Seq(Canonical!TraceEntry) /\ log' = [log EXCEPT ![a] = log[a] \o none]
  BY <1>1, EndEntries, Unchanged
<1> HIDE DEF retryable, none
<1>8. /\ ControlInv'
      /\ Canonical!Undo(a, void, release)
      /\ pendingBar' = [pendingBar EXCEPT ![a] = code]
      /\ tracesBar' = [tracesBar EXCEPT ![a] = @ \o none]
  <2>1. UndoesAndLogs(a, code, "RecordDecision", retryable, void, release, none)
    BY <1>1, <1>6, <1>7 DEF UndoesAndLogs
  <2>2. at[a] \notin {"answered", "dropped"} /\ none \in Seq(Canonical!TraceEntry)
    BY <1>1, <1>7
  <2>3. code \in Canonical!RecordCodes \cup {"payment_declined"}
    OBVIOUS
  <2> QED
    BY <1>2, <1>5, <2>1, <2>2, <2>3, UndoesStep
<1>9. pendingBar' = pendingBar
  BY <1>1, <1>4, <1>8, Unchanged DEF pendingBar
<1>10. tracesBar' = tracesBar
  <2>1. \A b \in Attempts : CanonicalLog(b) \in Seq(Canonical!TraceEntry)
    BY <1>1, LastBack DEF CanonicalLog, ControlTypes
  <2>2. CanonicalLog(a) \o none = CanonicalLog(a)
    BY <2>1 DEF none
  <2>3. /\ tracesBar[a] = CanonicalLog(a)
        /\ [tracesBar EXCEPT ![a] = CanonicalLog(a)] = tracesBar
    BY DEF tracesBar
  <2> QED
    BY <1>8, <2>2, <2>3
<1>11. workflowBar[a].payment = void /\ workflowBar[a].reservation = release
  <2>1. workflowBar[a] = WorkflowOf(state[a], fault[a])
    BY <1>1, SameWorkflow
  <2>2. \A s, e : /\ WorkflowOf(s, e).payment = s.payment_id
                 /\ WorkflowOf(s, e).reservation = s.reservation_id
    BY DEF WorkflowOf
  <2> QED
    BY <1>0, <2>1, <2>2
<1>12. UNCHANGED Canonical!storeVars
  BY <1>1 DEF Canonical!storeVars, storeVars
<1> QED
  BY <1>1, <1>8, <1>9, <1>10, <1>11, <1>12
     DEF Canonical!CompensateDecision, Canonical!Undo, Canonical!Compensate,
         workflowBar, WorkflowOf, pendingBar, tracesBar

\* of the conflict that record met, only the control traces the fault
LEMMA ReturnStep ==
    ASSUME ControlInv, NEW a \in Attempts, ReturnUndone(a)
    PROVE  ControlInv' /\ Canonical!ReturnFault(a)
<1> DEFINE r == fault[a]
           step == IF r.code = "payment_declined" THEN "AuthorizePayment"
                                                  ELSE "RecordDecision"
           w == << <<step, "fault">> >>
<1>1. /\ ControlTypes /\ AttemptInv(a) /\ at[a] = "ReturnFault"
      /\ UNCHANGED <<callVars, ledgerVars, storeVars>>
      /\ Responds(a, r) /\ TraceStep(a, r.step, <<"fault">>)
  BY DEF ControlInv, ReturnUndone
<1>2. stmt[a] \notin Calling /\ stmt' = [stmt EXCEPT ![a] = stmt[a]]
  BY <1>1, Outside, Unchanged DEF callVars
<1>3. PICK code \in Canonical!RecordCodes \cup {"payment_declined"} :
         r = Returning(code, r.compensations)
  BY <1>1 DEF AttemptInv, HandledInv
<1>4. r.code = code /\ r.step = step
  BY <1>3 DEF Returning, Canonical!Fault
<1>5. code # "ok" /\ (code \in BusinessCodes <=> code = "payment_declined")
  BY DEF Canonical!RecordCodes, Canonical!DefiniteCodes,
         Canonical!ConflictPathCodes, Canonical!ConflictCodes,
         Canonical!CommitLost, Canonical!Absent, BusinessCodes
<1>6. step \in Canonical!Transitions
  BY DEF Canonical!Transitions
<1>7. Becomes(a, "answered", state[a], fault[a], r, w, stmt[a])
  BY <1>1, <1>2, <1>4, MethodEnds
<1>8. /\ w \in Seq(Canonical!TraceEntry) /\ w # <<>>
      /\ w[Len(w)] = <<r.step, "fault">>
      /\ w = << <<step, "fault">> >>
  BY <1>4, <1>6, Entries
<1> HIDE DEF w
<1>9. HandledInv(a)' /\ LogInv(a)'
  BY <1>1, <1>4, <1>5, <1>7, <1>8, Answers
<1>10. ControlInv'
  BY <1>1, <1>2, <1>7, <1>8, <1>9, LaterStations, SameWorkflow, QuietKeeps
<1> DEFINE entries == IF code = "idempotency_key_conflict" THEN <<>> ELSE w
<1>11. CanonicalLog(a)' = CanonicalLog(a) \o entries
  <2>1. CASE code = "idempotency_key_conflict"
    <3>1. TracedConflict(a)'
      BY <1>1, <1>4, <1>7, <2>1, BecomesAt DEF TracedConflict
    <3> DEFINE e == <<step, "fault">>
    <3>2. log'[a] = log[a] \o <<e>> /\ log[a] \in Seq(Canonical!TraceEntry)
      <4>1. log'[a] = log[a] \o w
        BY <1>1, <1>7, BecomesAt
      <4>2. log[a] \in Seq(Canonical!TraceEntry)
        BY <1>1 DEF ControlTypes
      <4> QED
        BY <1>8, <4>1, <4>2
    <3>3. e \in Canonical!TraceEntry
      BY <1>6 DEF Canonical!TraceEntry
    <3> HIDE DEF e
    <3>4. /\ log'[a] # <<>>
          /\ SubSeq(log'[a], 1, Len(log'[a]) - 1) = log[a]
      BY <3>2, <3>3, CutLast
    <3>5. CanonicalLog(a)' = log[a]
      BY <3>1, <3>4 DEF CanonicalLog
    <3>6. stmt[a] \in {"idle", "done", "sent"}
      BY <1>1, <1>2 DEF AttemptInv, CallInv, ControlTypes
    <3>7. CanonicalLog(a) = log[a]
      BY <1>1, <3>6 DEF CanonicalLog, TracedConflict, PendingEntry
    <3> QED
      BY <2>1, <3>2, <3>5, <3>7
  <2>2. CASE code # "idempotency_key_conflict"
    <3>1. ~TracedConflict(a)'
      BY <1>1, <1>4, <1>7, <2>2, BecomesAt DEF TracedConflict
    <3>2. /\ "answered" \in Stations /\ state[a] \in WorkflowStates
          /\ at[a] \notin {"answered", "dropped"}
      BY <1>1, LaterStations, SameWorkflow
    <3>3. CanonicalLog(a)' = CanonicalLog(a) \o w
      BY <1>1, <1>2, <1>7, <1>8, <1>9, <3>1, <3>2, QuietMaps
    <3> QED
      BY <2>2, <3>3
  <2> QED
    BY <2>1, <2>2
<1> HIDE DEF entries
<1>12. Maps(a, "answered", state[a], fault[a], r, entries)
  BY <1>1, <1>7, <1>11, BecomesMaps
<1>13. /\ workflowBar' = workflowBar /\ pendingBar' = pendingBar
       /\ pendingBar[a] = code
       /\ workflowBar[a].undone = r.compensations
  <2>1. workflowBar' = workflowBar /\ workflowBar[a] = WorkflowOf(state[a], fault[a])
    BY <1>1, <1>12, SameWorkflow DEF Maps
  <2>2. pendingBar' = pendingBar /\ pendingBar[a] = code
    <3>1. \A b \in Attempts : pendingBar[b] = fault[b].code
      BY DEF pendingBar
    <3>2. [pendingBar EXCEPT ![a] = fault[a].code] = pendingBar
      BY DEF pendingBar
    <3> QED
      BY <1>4, <1>12, <3>1, <3>2 DEF Maps
  <2>3. \A s, e : WorkflowOf(s, e).undone = e.compensations
    BY DEF WorkflowOf
  <2> QED
    BY <2>1, <2>2, <2>3
<1>14. UNCHANGED <<Canonical!ledgerVars, Canonical!storeVars>>
  BY <1>1 DEF Canonical!ledgerVars, Canonical!storeVars, ledgerVars, storeVars
<1>15. Canonical!Goto(a, "answered")
  BY <1>12 DEF Maps, Canonical!Goto
<1>16. Canonical!Trace(a, IF code = "idempotency_key_conflict"
                            THEN <<>> ELSE << <<step, "fault">> >>)
  BY <1>8, <1>12 DEF Maps, Canonical!Trace, tracesBar, entries
<1> DEFINE retryable == code \notin Canonical!ConflictCodes \cup Canonical!BusinessCodes
<1>17. r = Canonical!Fault(code, step, retryable, FALSE, r.compensations)
  <2>1. /\ Canonical!ConflictCodes = ConflictCodes
        /\ Canonical!BusinessCodes = BusinessCodes
    BY SameStore DEF Canonical!BusinessCodes, BusinessCodes
  <2>2. CASE code = "payment_declined"
    <3>1. retryable = FALSE /\ step = "AuthorizePayment"
      BY <1>4, <1>5, <2>1, <2>2
    <3>2. r = Canonical!Fault(code, "AuthorizePayment", FALSE, FALSE, r.compensations)
      BY <1>3, <2>2 DEF Returning
    <3> QED
      BY <3>1, <3>2
  <2>3. CASE code # "payment_declined"
    <3>1. retryable = (code \notin ConflictCodes) /\ step = "RecordDecision"
      BY <1>4, <1>5, <2>1, <2>3
    <3>2. r = Canonical!Fault(code, "RecordDecision", code \notin ConflictCodes,
                              FALSE, r.compensations)
      BY <1>3, <2>3 DEF Returning
    <3> QED
      BY <3>1, <3>2
  <2> QED
    BY <2>2, <2>3
<1> HIDE DEF retryable
<1>18. response' = [response EXCEPT ![a] =
          Canonical!Fault(code, step, retryable, FALSE, workflowBar[a].undone)]
  BY <1>12, <1>13, <1>17 DEF Maps
<1> HIDE DEF r
<1> QED
  BY <1>1, <1>4, <1>10, <1>12, <1>13, <1>14, <1>15, <1>16, <1>18
     DEF Maps, Canonical!ReturnFault, workflowBar, WorkflowOf, pendingBar, retryable

LEMMA CompleteStep ==
    ASSUME ControlInv, NEW a \in Attempts, Complete(a)
    PROVE  ControlInv' /\ Canonical!CompleteAuthorization(a)
<1> DEFINE w == << <<"CompleteAuthorization", "entered">>,
                   <<"CompleteAuthorization", "next">> >>
           r == [Nothing EXCEPT !.code = "ok", !.outcome = state[a].result]
<1>1. /\ ControlTypes /\ at[a] = "CompleteAuthorization"
      /\ UNCHANGED <<callVars, ledgerVars, storeVars>>
      /\ UNCHANGED <<request, state, fault>>
      /\ at' = [at EXCEPT ![a] = "answered"]
      /\ response' = [response EXCEPT ![a] = r]
  BY DEF ControlInv, Complete, Responds, GoTo
<1>2. stmt[a] \notin Calling
  BY <1>1, Outside
<1>3. r.code = "ok" /\ r = Canonical!Success(state[a].result)
  <2> DEFINE Settle(retryable, operator) ==
                 [Canonical!Fault("none", "none", retryable, operator, {})
                    EXCEPT !.code = "ok", !.outcome = state[a].result] =
                 [code |-> "ok", outcome |-> state[a].result, step |-> "none",
                  retryable |-> retryable, operator |-> operator, compensations |-> {}]
  <2>1. ASSUME NEW retryable, NEW operator
        PROVE  Settle(retryable, operator)
    <3> DEFINE n == Canonical!Fault("none", "none", retryable, operator, {})
               u == [n EXCEPT !.code = "ok"]
               result == state[a].result
    <3>1. u = [code |-> "ok", outcome |-> "none", step |-> "none",
               retryable |-> retryable, operator |-> operator, compensations |-> {}]
      BY DEF Canonical!Fault
    <3> HIDE DEF result
    <3>2. [n EXCEPT !.code = "ok", !.outcome = result] = [u EXCEPT !.outcome = result]
      BY DEF Canonical!Fault
    <3> HIDE DEF u
    <3>3. [n EXCEPT !.code = "ok", !.outcome = result] =
            [code |-> "ok", outcome |-> result, step |-> "none",
             retryable |-> retryable, operator |-> operator, compensations |-> {}]
      BY <3>1, <3>2
    <3> QED
      BY <3>3, Zenon DEF result
  <2> HIDE DEF Settle
  <2>2. Settle(FALSE, FALSE)
    BY <2>1, Zenon
  <2>3. Nothing = Canonical!Fault("none", "none", FALSE, FALSE, {})
    BY DEF Nothing, Err, Canonical!Fault
  <2>4. r = Canonical!Success(state[a].result)
    BY <2>2, <2>3, Zenon DEF Settle, Canonical!Success
  <2> QED
    BY <2>4 DEF Canonical!Success
<1>4. log' = [log EXCEPT ![a] = log[a] \o w]
  BY SaysEntries DEF Complete, TraceStep
<1> HIDE DEF r
<1>5. Becomes(a, "answered", state[a], fault[a], r, w, stmt[a])
  BY <1>1, <1>4, Unchanged DEF Becomes, callVars
<1>6. /\ w \in Seq(Canonical!TraceEntry) /\ w # <<>>
      /\ w[Len(w)] = <<"CompleteAuthorization", "next">>
      /\ w = << <<"CompleteAuthorization", "entered">>,
                <<"CompleteAuthorization", "next">> >>
  BY EndEntries
<1> HIDE DEF w
<1>7. HandledInv(a)' /\ LogInv(a)'
  BY <1>1, <1>3, <1>5, <1>6, Answers
<1>8. ~TracedConflict(a)'
  BY <1>1, <1>3, <1>5, BecomesAt DEF TracedConflict
<1>9. ControlInv' /\ CanonicalLog(a)' = CanonicalLog(a) \o w
  <2>1. /\ "answered" \in Stations /\ state[a] \in WorkflowStates
        /\ at[a] \notin {"answered", "dropped"}
    BY <1>1, LaterStations, SameWorkflow
  <2> QED
    BY <1>1, <1>2, <1>5, <1>6, <1>7, <1>8, <2>1, QuietMaps
<1>10. Maps(a, "answered", state[a], fault[a], r, w)
  <2>1. ControlTypes
    BY <1>1
  <2>2. CanonicalLog(a)' = CanonicalLog(a) \o w
    BY <1>9
  <2> QED
    BY <1>5, <2>1, <2>2, BecomesMaps
<1>11. workflowBar' = workflowBar /\ pendingBar' = pendingBar
  BY <1>1 DEF workflowBar, pendingBar
<1>12. Canonical!Trace(a, << <<"CompleteAuthorization", "entered">>,
                             <<"CompleteAuthorization", "next">> >>)
  BY <1>6, <1>10 DEF Maps, Canonical!Trace, tracesBar
<1>13. /\ Canonical!Goto(a, "answered")
       /\ workflowBar[a].result = state[a].result
       /\ UNCHANGED <<Canonical!ledgerVars, Canonical!storeVars>>
  <2>1. Canonical!Goto(a, "answered")
    BY <1>1 DEF Canonical!Goto
  <2>2. workflowBar[a].result = state[a].result
    <3>1. \A s : WorkflowOf(s, fault[a]).result = s.result
      BY DEF WorkflowOf
    <3> QED
      BY <1>1, <3>1, SameWorkflow
  <2>3. UNCHANGED <<Canonical!ledgerVars, Canonical!storeVars>>
    BY <1>1 DEF Canonical!ledgerVars, Canonical!storeVars, ledgerVars, storeVars
  <2> QED
    BY <2>1, <2>2, <2>3
<1> QED
  BY <1>1, <1>3, <1>9, <1>11, <1>12, <1>13
     DEF Canonical!CompleteAuthorization, workflowBar, WorkflowOf, pendingBar

-----------------------------------------------------------------------------
(***************************************************************************)
(* The call of record.  Until it ends, the workflow sees nothing of it:    *)
(* the entry with which it begins is only mapped with the one that ends    *)
(* it.                                                                     *)
(***************************************************************************)
LEMMA MappedSame ==
    ASSUME UNCHANGED <<request, at, state, fault, response, ledgerVars, storeVars>>,
           \A b \in Attempts : CanonicalLog(b)' = CanonicalLog(b)
    PROVE  UNCHANGED Canonical!vars
<1>1. workflowBar' = workflowBar /\ pendingBar' = pendingBar
  BY DEF workflowBar, pendingBar
<1>2. tracesBar' = tracesBar
  BY DEF tracesBar
<1> QED
  BY <1>1, <1>2
     DEF Canonical!vars, Canonical!attemptVars, Canonical!ledgerVars, Canonical!storeVars,
         workflowBar, pendingBar, tracesBar, WorkflowOf, ledgerVars, storeVars

LEMMA AskStep ==
    ASSUME ControlInv, NEW a \in Attempts, AskStore(a)
    PROVE  ControlInv' /\ UNCHANGED Canonical!vars
<1>1. /\ ControlTypes /\ AttemptInv(a)
      /\ at[a] = "RecordDecision" /\ ~state[a].replayed /\ stmt[a] = "idle"
      /\ UNCHANGED <<request, at, state, fault, response, recorded, ledgerVars, storeVars>>
      /\ stmt' = [stmt EXCEPT ![a] = "begin"]
      /\ row' = [row EXCEPT ![a] = RowOf(a)]
  BY DEF ControlInv, AskStore
<1>2. log' = [log EXCEPT ![a] = log[a] \o <<EnteredEntry>>]
  BY SaysEntries DEF AskStore, TraceStep, EnteredEntry
<1>3. EnteredEntry \in Canonical!TraceEntry
  BY DEF EnteredEntry, Canonical!TraceEntry, Canonical!Transitions
<1>4. log[a] \in Seq(Canonical!TraceEntry) /\ log'[a] = log[a] \o <<EnteredEntry>>
  BY <1>1, <1>2 DEF ControlTypes
<1> HIDE DEF EnteredEntry
<1>5. /\ log'[a] # <<>>
      /\ SubSeq(log'[a], 1, Len(log'[a]) - 1) = log[a]
      /\ log'[a][Len(log'[a])] = EnteredEntry
      /\ <<EnteredEntry>> \in Seq(Canonical!TraceEntry)
  BY <1>3, <1>4, CutLast
<1>6. Becomes(a, "RecordDecision", state[a], fault[a], response[a], <<EnteredEntry>>,
              "begin")
  BY <1>1, <1>2, Unchanged DEF Becomes
<1>7. RowOf(a) \in Decision
  BY <1>1 DEF RowOf, Terminal, Decision, Outcomes, ControlTypes, WorkflowStates
<1>8. row' \in [Attempts -> Decision]
  BY <1>1, <1>7 DEF ControlTypes
<1>9. HoldInv'
  <2>1. \A b \in Attempts \ {a} : stmt'[b] = stmt[b] /\ row'[b] = row[b]
    BY <1>1 DEF ControlTypes
  <2>2. ~Holds(a)'
    BY <1>1 DEF Holds, ControlTypes
  <2> QED
    BY <1>1, <2>1, <2>2, HoldKept DEF ControlInv, storeVars
<1>10. AttemptInv(a)'
  <2>1. /\ stmt'[a] = "begin" /\ row'[a] = RowOf(a) /\ RowOf(a)' = RowOf(a)
        /\ at'[a] = "RecordDecision" /\ ~state'[a].replayed
    BY <1>1 DEF ControlTypes, RowOf, Terminal
  <2>2. CallInv(a)'
    BY <1>5, <2>1 DEF CallInv
  <2> QED
    BY <1>1, <2>1, <2>2 DEF AttemptInv, HandledInv, LogInv
<1>11. ControlInv'
  <2>1. \A b \in Attempts \ {a} : row'[b] = row[b]
    BY <1>1 DEF ControlTypes
  <2>2. "RecordDecision" \in Stations /\ "begin" \in Statements
    BY LaterStations DEF Statements, Calling
  <2> QED
    BY <1>1, <1>5, <1>6, <1>8, <1>9, <1>10, <2>1, <2>2, SameWorkflow, StepKeeps
       DEF ControlTypes, storeVars
<1>12. CanonicalLog(a)' = CanonicalLog(a)
  <2>1. PendingEntry(a)'
    BY <1>1 DEF PendingEntry, ControlTypes
  <2>2. ~PendingEntry(a) /\ ~TracedConflict(a)
    BY <1>1 DEF PendingEntry, TracedConflict
  <2> QED
    BY <1>5, <2>1, <2>2 DEF CanonicalLog
<1>13. \A b \in Attempts : CanonicalLog(b)' = CanonicalLog(b)
  <2>1. \A b \in Attempts \ {a} : log'[b] = log[b] /\ stmt'[b] = stmt[b]
    BY <1>1, <1>2 DEF ControlTypes
  <2> QED
    BY <1>1, <1>12, <2>1 DEF CanonicalLog, TracedConflict, PendingEntry
<1> QED
  BY <1>1, <1>11, <1>13, MappedSame

\* from a statement to the next
LEMMA CallGoesOn ==
    ASSUME ControlInv, NEW a \in Attempts, stmt[a] \in Calling,
           NEW t \in Calling \ {"begin"}, stmt' = [stmt EXCEPT ![a] = t],
           UNCHANGED <<methodVars, row, recorded, ledgerVars, storeVars>>,
           request[a].fixture # "decision_write_failure",
           t \in {"lookup", "rollback"} => Existing(a) # {},
           HoldInv'
    PROVE  ControlInv' /\ UNCHANGED Canonical!vars
<1>1. /\ ControlTypes /\ AttemptInv(a)
      /\ UNCHANGED <<request, at, state, fault, response, log>>
      /\ UNCHANGED storeVars
      /\ stmt'[a] = t
  BY DEF ControlInv, ControlTypes, methodVars
<1>2. /\ Existing(a)' = Existing(a)
      /\ RowOf(a)' = RowOf(a)
  BY <1>1 DEF Existing, Find, RowOf, Terminal, storeVars
<1>3. AttemptInv(a)'
  <2>1. CallInv(a)'
    BY <1>1, <1>2 DEF AttemptInv, CallInv, Calling
  <2> QED
    BY <1>1, <2>1 DEF AttemptInv, HandledInv, LogInv
<1>4. Becomes(a, at[a], state[a], fault[a], response[a], <<>>, t)
  BY <1>1, Unchanged DEF Becomes
<1>5. at[a] \in Stations /\ t \in Statements
  BY <1>1 DEF ControlTypes, Stations, Statements
<1>6. ControlInv'
  BY <1>1, <1>3, <1>4, <1>5, EndEntries, SameWorkflow, StepKeeps
     DEF ControlTypes, storeVars
<1>7. \A b \in Attempts : CanonicalLog(b)' = CanonicalLog(b)
  <2>1. \A b \in Attempts : PendingEntry(b)' <=> PendingEntry(b)
    BY <1>1 DEF PendingEntry, Calling, ControlTypes
  <2> QED
    BY <1>1, <2>1 DEF CanonicalLog, TracedConflict
<1> QED
  BY <1>1, <1>6, <1>7, MappedSame

\* the statement that ends a call, whose transaction stores at most its row
CallEnds(a) ==
    /\ stmt[a] \in Calling
    /\ stmt' = [stmt EXCEPT ![a] = "done"]
    /\ DOMAIN recorded' = Attempts
    /\ UNCHANGED <<request, row, ledgerVars>>
    /\ decisions \subseteq decisions'
    /\ \/ decisions' \cup unsettled' \subseteq decisions \cup unsettled
       \/ /\ Holds(a)
          /\ decisions' \cup unsettled' \subseteq decisions \cup unsettled \cup {row[a]}

LEMMA EndKeeps ==
    ASSUME ControlInv, NEW a \in Attempts, CallEnds(a),
           NEW m \in Stations, NEW s \in WorkflowStates, NEW e,
           NEW w \in Seq(Canonical!TraceEntry), m # "answered",
           Becomes(a, m, s, e, response[a], w, "done"), HandledInv(a)'
    PROVE  /\ ControlInv'
           /\ CanonicalLog(a)' = CanonicalLog(a) \o (<<EnteredEntry>> \o w)
<1>1. /\ ControlTypes /\ AttemptInv(a) /\ at[a] = "RecordDecision"
      /\ row' = row /\ stmt'[a] = "done" /\ at'[a] = m
  BY BecomesAt DEF ControlInv, AttemptInv, CallInv, CallEnds
<1>2. LogInv(a)' /\ ~TracedConflict(a)'
  BY <1>1 DEF LogInv, TracedConflict
<1>3. CallInv(a)'
  BY <1>1 DEF CallInv, Calling
<1>4. HoldInv'
  <2>1. \A b \in Attempts \ {a} : stmt'[b] = stmt[b] /\ row'[b] = row[b]
    BY <1>1 DEF CallEnds, ControlTypes
  <2>2. ~Holds(a)'
    BY <1>1 DEF Holds
  <2> QED
    BY <1>1, <2>1, <2>2, HoldKept DEF ControlInv, CallEnds
<1>5. /\ row' \in [Attempts -> Decision]
      /\ decisions' \subseteq Decision /\ unsettled' \subseteq Decision
  BY <1>1 DEF ControlTypes, CallEnds
<1>6. ControlInv'
  <2>1. "done" \in Statements
    BY DEF Statements
  <2> QED
    BY <1>1, <1>2, <1>3, <1>4, <1>5, <2>1, StepKeeps DEF AttemptInv, CallEnds
<1>7. CanonicalLog(a)' = CanonicalLog(a) \o (<<EnteredEntry>> \o w)
  BY <1>1, <1>2, LogGrows DEF CallEnds
<1> QED
  BY <1>6, <1>7

\* the workflow goes on: the call told it a decision
LEMMA EndSettled ==
    ASSUME ControlInv, NEW a \in Attempts, CallEnds(a),
           NEW outcome \in Outcomes, Settled(a, outcome, <<"next">>)
    PROVE  ControlInv' /\ Canonical!Recorded(a, outcome, Canonical!EnteredNext)
<1> DEFINE s == [state[a] EXCEPT !.result = outcome]
           w == << <<"RecordDecision", "next">> >>
           entries == <<EnteredEntry>> \o w
<1>1. ControlTypes
  BY DEF ControlInv
<1>2. s \in WorkflowStates
  BY <1>1, SameWorkflow DEF WorkflowStates
<1>3. Becomes(a, "CompleteAuthorization", s, fault[a], response[a], w, "done")
  BY <1>1, MethodEnds DEF CallEnds
<1>4. w \in Seq(Canonical!TraceEntry)
  BY EndEntries
<1>5. HandledInv(a)'
  <2>1. fault[a].compensations = {}
    BY DEF ControlInv, AttemptInv, CallInv, HandledInv, CallEnds
  <2> QED
    BY <1>1, <1>3, <2>1, LaterStations, GoesOn
<1>6. entries = Canonical!EnteredNext
  BY Pair DEF Canonical!EnteredNext, EnteredEntry
<1> HIDE DEF w
<1>7. ControlInv' /\ CanonicalLog(a)' = CanonicalLog(a) \o entries
  BY <1>2, <1>3, <1>4, <1>5, LaterStations, EndKeeps
<1> HIDE DEF entries
<1>8. Canonical!Recorded(a, outcome, entries)
  BY <1>1, <1>3, <1>7, EndsMap
<1> QED
  BY <1>6, <1>7, <1>8

\* the workflow has a fault to reconcile or to compensate
LEMMA EndHandles ==
    ASSUME ControlInv, NEW a \in Attempts, CallEnds(a),
           NEW m \in {"Reconcile", "Compensate"}, NEW code, NEW retryable,
           Handles(a, m, Err(code, "RecordDecision", retryable)),
           \/ m = "Reconcile" /\ code \in UnknownCodes /\ retryable = TRUE
           \/ /\ m = "Compensate" /\ code \in Canonical!RecordCodes
              /\ retryable = (code \notin ConflictCodes)
    PROVE  ControlInv' /\ Canonical!Suspend(a, m, code, Canonical!Entered)
<1> DEFINE err == Err(code, "RecordDecision", retryable)
           none == <<>>
           entries == <<EnteredEntry>> \o none
<1>1. ControlTypes
  BY DEF ControlInv
<1>2. Becomes(a, m, state[a], err, response[a], none, "done")
  BY <1>1, MethodEnds DEF CallEnds
<1>3. HandledInv(a)'
  <2>1. at'[a] = m /\ fault'[a] = err
    BY <1>1, <1>2, BecomesAt
  <2>2. fault'[a].compensations = {}
    BY <2>1 DEF Err
  <2> QED
    BY <2>1, <2>2 DEF HandledInv
<1>4. none \in Seq(Canonical!TraceEntry)
  BY EndEntries
<1>5. entries = Canonical!Entered
  BY DEF Canonical!Entered, EnteredEntry
<1>6. err.code = code /\ err.compensations = fault[a].compensations
  BY DEF Err, ControlInv, AttemptInv, CallInv, HandledInv, CallEnds
<1>7. m \in Stations /\ m # "answered"
  BY LaterStations
<1> HIDE DEF none, err
<1>8. ControlInv' /\ CanonicalLog(a)' = CanonicalLog(a) \o entries
  BY <1>1, <1>2, <1>3, <1>4, <1>7, SameWorkflow, EndKeeps
<1> HIDE DEF entries
<1>9. Canonical!Suspend(a, m, err.code, entries)
  BY <1>1, <1>2, <1>6, <1>8, EndsMap
<1> QED
  BY <1>5, <1>6, <1>8, <1>9

-----------------------------------------------------------------------------
(***************************************************************************)
(* The statements of record.                                               *)
(***************************************************************************)
LEMMA StoreMoves ==
    ASSUME ControlTypes, NEW a \in Attempts
    PROVE  /\ \A next : Store!Goto(a, next) =>
                /\ stmt' = [stmt EXCEPT ![a] = next]
                /\ stmt'[a] = next
                /\ UNCHANGED <<row, recorded>>
           /\ \A status, found : Store!Return(a, status, found) =>
                /\ stmt' = [stmt EXCEPT ![a] = "done"]
                /\ stmt'[a] = "done"
                /\ row' = row
                /\ DOMAIN recorded' = Attempts
                /\ recorded'[a].status = status
                /\ recorded'[a].found = found
           /\ \A code : Store!Fails(a, code) =>
                code \in StoreFaults /\ Store!Return(a, code, {})
BY DEF Store!Goto, Store!Return, Store!Returned, Store!Fails, ControlTypes

LEMMA InCall ==
    ASSUME ControlInv, NEW a \in Attempts, stmt[a] \in Calling
    PROVE  /\ ControlTypes
           /\ Canonical!CallsStore(a)
           /\ row[a] = Canonical!DecisionOf(a)
           /\ row[a].outcome = Terminal(a) /\ Terminal(a) \in Outcomes
           /\ row[a].request = request[a]
           /\ Store!KeyOf(a) = request[a].key
           /\ Store!Find(request[a].key) = Existing(a)
           /\ Canonical!Find(request[a].key) = Existing(a)
           /\ Existing(a) = { d \in decisions : d.request.key = request[a].key }
           /\ stmt[a] # "begin" => Canonical!Writes(a)
<1>1. /\ ControlTypes /\ at[a] = "RecordDecision" /\ ~state[a].replayed
      /\ row[a] = RowOf(a)
      /\ stmt[a] # "begin" => request[a].fixture # "decision_write_failure"
  BY DEF ControlInv, AttemptInv, CallInv
<1>2. Canonical!CallsStore(a)
  BY <1>1 DEF Canonical!CallsStore
<1>3. row[a] = Canonical!DecisionOf(a)
  BY <1>1 DEF Canonical!DecisionOf, RowOf, Terminal
<1>4. Terminal(a) \in Outcomes
  BY <1>1, SameWorkflow DEF Terminal, WorkflowStates, Outcomes
<1>5. row[a].outcome = Terminal(a) /\ row[a].request = request[a]
  BY <1>1 DEF RowOf
<1>6. Store!KeyOf(a) = request[a].key
  BY <1>5 DEF Store!KeyOf
<1>7. /\ Store!Find(request[a].key) = Existing(a)
      /\ Canonical!Find(request[a].key) = Existing(a)
      /\ Existing(a) = { d \in decisions : d.request.key = request[a].key }
  BY SameStore DEF Store!Find, Existing, Find
<1> QED
  BY <1>1, <1>2, <1>3, <1>4, <1>5, <1>6, <1>7 DEF Canonical!Writes

\* a statement before COMMIT fails
LEMMA FailureEnds ==
    ASSUME ControlInv, NEW a \in Attempts, stmt[a] \in Calling,
           UNCHANGED request, UNCHANGED storeVars, Awaits(a),
           NEW code \in DefiniteCodes, Store!Return(a, code, {}), code \in StoreFaults,
           request[a].fixture # "decision_write_failure",
           code = "audit_insert_failed" => Canonical!KeyFree(a)
    PROVE  ControlInv' /\ Canonical!RecordDefiniteFailure(a)
<1>1. ControlTypes /\ Canonical!CallsStore(a)
  BY InCall
<1>2. CallEnds(a)
  BY <1>1, StoreMoves DEF CallEnds, Awaits, storeVars
<1>3. recorded'[a].status = code /\ Matches(a, recorded'[a])
  BY <1>1, StoreMoves DEF Awaits
<1>4. FailsToRecord(a, code, TRUE)
  BY <1>3, Zenon DEF Matches, DefiniteCodes, ConflictPathCodes, CommitLost
<1>5. /\ code \in Canonical!RecordCodes
      /\ TRUE = (code \notin ConflictCodes)
  BY DEF Canonical!RecordCodes, Canonical!DefiniteCodes, DefiniteCodes, ConflictCodes
<1>6. ControlInv' /\ Canonical!RecordFails(a, code)
  BY <1>2, <1>4, <1>5, EndHandles DEF FailsToRecord, Canonical!RecordFails
<1>7. code \in StoreFaults \cap Canonical!DefiniteCodes
  BY SameStore
<1>8. UNCHANGED <<Canonical!ledgerVars, Canonical!storeVars>>
  BY DEF Awaits, Canonical!ledgerVars, Canonical!storeVars, ledgerVars, storeVars
<1> QED
  BY <1>1, <1>6, <1>7, <1>8 DEF Canonical!RecordDefiniteFailure, Canonical!Writes

\* the answer of a statement on the path of a conflict is lost
LEMMA ConflictEnds ==
    ASSUME ControlInv, NEW a \in Attempts, stmt[a] \in {"lookup", "rollback"},
           UNCHANGED request, UNCHANGED storeVars, Awaits(a),
           NEW code \in ConflictPathCodes, Store!Fails(a, code)
    PROVE  ControlInv' /\ Canonical!RecordExisting(a)
<1>1. stmt[a] \in Calling /\ stmt[a] # "begin"
  BY DEF Calling
<1>2. /\ ControlTypes /\ Canonical!Writes(a)
      /\ Canonical!Find(request[a].key) = Existing(a)
  BY <1>1, InCall
<1>3. Store!Return(a, code, {}) /\ code \in StoreFaults
  BY <1>2, StoreMoves
<1>4. CallEnds(a)
  BY <1>1, <1>2, <1>3, StoreMoves DEF CallEnds, Awaits, storeVars
<1>5. recorded'[a].status = code /\ Matches(a, recorded'[a])
  BY <1>2, <1>3, StoreMoves DEF Awaits
<1>6. UnknownRecord(a, code)
  BY <1>5, Zenon DEF Matches, DefiniteCodes, ConflictPathCodes
<1>7. code \in UnknownCodes
  BY DEF UnknownCodes
<1>8. ControlInv' /\ Canonical!RecordUnknown(a, code)
  BY <1>4, <1>6, <1>7, EndHandles DEF UnknownRecord, Canonical!RecordUnknown
<1>9. Existing(a) # {}
  BY DEF ControlInv, AttemptInv, CallInv
<1>10. code \in StoreFaults \cap Canonical!ConflictPathCodes
  BY <1>3, SameStore
<1>11. UNCHANGED <<Canonical!ledgerVars, Canonical!storeVars>>
  BY DEF Awaits, Canonical!ledgerVars, Canonical!storeVars, ledgerVars, storeVars
<1> QED
  BY <1>2, <1>8, <1>9, <1>10, <1>11 DEF Canonical!RecordExisting

\* a statement succeeds and another follows
LEMMA StatementPasses ==
    ASSUME ControlInv, NEW a \in Attempts, stmt[a] \in Calling,
           UNCHANGED request, UNCHANGED storeVars, Awaits(a),
           NEW t \in Calling \ {"begin"}, Store!Goto(a, t),
           request[a].fixture # "decision_write_failure",
           t \in {"lookup", "rollback"} => Existing(a) # {},
           t = "commit" => stmt[a] = "audit",
           t = "audit" =>
             /\ \A d \in decisions \cup unsettled : d.request.key # row[a].request.key
             /\ \A b \in Attempts \ {a} : Holds(b) => row[b].request.key # row[a].request.key
    PROVE  ControlInv' /\ UNCHANGED Canonical!vars
<1>1. /\ ControlTypes
      /\ stmt' = [stmt EXCEPT ![a] = t]
      /\ stmt'[a] = t
      /\ UNCHANGED <<row, recorded>>
  BY StoreMoves DEF ControlInv
<1>2. UNCHANGED methodVars /\ UNCHANGED ledgerVars
  BY <1>1 DEF Awaits, Calling
<1>3. \A b \in Attempts \ {a} : stmt'[b] = stmt[b] /\ row'[b] = row[b]
  BY <1>1 DEF ControlTypes
<1>4. HoldInv'
  <2>1. CASE t = "audit"
    <3>1. Holds(a)' /\ UNCHANGED <<row, storeVars>>
      BY <1>1, <2>1 DEF Holds
    <3> QED
      BY <1>3, <2>1, <3>1, HoldGained DEF ControlInv
  <2>2. CASE t # "audit"
    <3>1. Holds(a)' => Holds(a) /\ row'[a] = row[a]
      BY <1>1, <2>2 DEF Holds
    <3> QED
      BY <1>3, <3>1, HoldKept DEF ControlInv, storeVars
  <2> QED
    BY <2>1, <2>2
<1> QED
  BY <1>1, <1>2, <1>4, CallGoesOn

\* what a step of record is to the workflow
Mapped(a) == Canonical!RecordDecision(a) \/ UNCHANGED Canonical!vars

LEMMA BeginStep ==
    ASSUME ControlInv, NEW a \in Attempts, BeginRecord(a)
    PROVE  ControlInv' /\ Mapped(a)
<1>1. /\ stmt[a] = "begin" /\ stmt[a] \in Calling
      /\ UNCHANGED request /\ Awaits(a) /\ UNCHANGED storeVars
  BY DEF BeginRecord, Store!Begin, Store!storeVars, storeVars, Calling
<1>2. ControlTypes /\ Canonical!CallsStore(a)
  BY <1>1, InCall
<1>3. RecordModeOf(a) = "DefiniteFailure" <=> request[a].fixture = "decision_write_failure"
  BY DEF RecordModeOf
<1>4. CASE /\ RecordModeOf(a) = "DefiniteFailure"
           /\ Store!Return(a, "decision_write_failed", {})
  <2>1. CallEnds(a)
    BY <1>1, <1>2, <1>4, StoreMoves DEF CallEnds, Awaits, storeVars
  <2>2. recorded'[a].status = "decision_write_failed" /\ Matches(a, recorded'[a])
    BY <1>1, <1>2, <1>4, StoreMoves DEF Awaits
  <2>3. FailsToRecord(a, "decision_write_failed", TRUE)
    BY <2>2, Zenon DEF Matches, DefiniteCodes, ConflictPathCodes, CommitLost
  <2>4. /\ "decision_write_failed" \in Canonical!RecordCodes
        /\ TRUE = ("decision_write_failed" \notin ConflictCodes)
    BY DEF Canonical!RecordCodes, ConflictCodes
  <2>5. ControlInv' /\ Canonical!RecordFails(a, "decision_write_failed")
    BY <2>1, <2>3, <2>4, EndHandles DEF FailsToRecord, Canonical!RecordFails
  <2>6. UNCHANGED <<Canonical!ledgerVars, Canonical!storeVars>>
    BY <1>1 DEF Awaits, Canonical!ledgerVars, Canonical!storeVars, ledgerVars, storeVars
  <2> QED
    BY <1>2, <1>3, <1>4, <2>5, <2>6
       DEF Mapped, Canonical!RecordDecision, Canonical!RecordWriteFailure
<1>5. CASE RecordModeOf(a) # "DefiniteFailure" /\ Store!Goto(a, "check")
  BY <1>1, <1>3, <1>5, StatementPasses DEF Mapped, Calling
<1>6. CASE /\ RecordModeOf(a) # "DefiniteFailure"
           /\ Store!Fails(a, "decision_transaction_begin_failed")
  <2>1. ControlInv' /\ Canonical!RecordDefiniteFailure(a)
    BY <1>1, <1>2, <1>3, <1>6, StoreMoves, FailureEnds DEF DefiniteCodes
  <2> QED
    BY <2>1 DEF Mapped, Canonical!RecordDecision
<1> QED
  BY <1>4, <1>5, <1>6 DEF BeginRecord, Store!Begin

LEMMA InsertStep ==
    ASSUME ControlInv, NEW a \in Attempts, InsertDecision(a)
    PROVE  ControlInv' /\ Mapped(a)
<1>1. /\ stmt[a] \in {"check", "insert"} /\ stmt[a] \in Calling /\ stmt[a] # "begin"
      /\ UNCHANGED request /\ Awaits(a) /\ UNCHANGED storeVars
  BY DEF InsertDecision, Store!CheckKey, Store!InsertRow, Store!storeVars, storeVars, Calling
<1>2. /\ ControlTypes /\ Canonical!Writes(a)
      /\ request[a].fixture # "decision_write_failure"
      /\ row[a].request = request[a]
      /\ Store!KeyOf(a) = request[a].key
      /\ Store!Find(request[a].key) = Existing(a)
  BY <1>1, InCall DEF Canonical!Writes
<1>3. ASSUME Store!Return(a, "decision_insert_failed", {})
      PROVE  ControlInv' /\ Mapped(a)
  <2>1. ControlInv' /\ Canonical!RecordDefiniteFailure(a)
    BY <1>1, <1>2, <1>3, CollisionAssumption, FailureEnds DEF DefiniteCodes
  <2> QED
    BY <2>1 DEF Mapped, Canonical!RecordDecision
<1>4. ASSUME Store!Goto(a, "lookup"), Existing(a) # {}
      PROVE  ControlInv' /\ Mapped(a)
  BY <1>1, <1>2, <1>4, StatementPasses DEF Mapped, Calling
<1>5. ASSUME NEW t \in {"insert", "check"}, Store!Goto(a, t)
      PROVE  ControlInv' /\ Mapped(a)
  BY <1>1, <1>2, <1>5, StatementPasses DEF Mapped, Calling
<1>6. ASSUME Store!SameKey(a, decisions \cup Store!InProgress(a)) = {},
             Store!Goto(a, "audit")
      PROVE  ControlInv' /\ Mapped(a)
  <2>1. \A d \in decisions \cup Store!InProgress(a) :
          d.request.key # row[a].request.key
    BY <1>6 DEF Store!SameKey, Store!KeyOf
  <2>2. /\ unsettled \subseteq Store!InProgress(a)
        /\ \A b \in Attempts \ {a} : Holds(b) => row[b] \in Store!InProgress(a)
    BY DEF Store!InProgress, Holds
  <2> QED
    BY <1>1, <1>2, <1>6, <2>1, <2>2, StatementPasses DEF Mapped, Calling
<1>7. CASE Store!CheckKey(a)
  BY <1>2, <1>3, <1>4, <1>5, <1>7, StoreMoves DEF Store!CheckKey
<1>8. CASE Store!InsertRow(a)
  BY <1>2, <1>3, <1>5, <1>6, <1>8, StoreMoves DEF Store!InsertRow
<1> QED
  BY <1>7, <1>8 DEF InsertDecision

LEMMA FindStep ==
    ASSUME ControlInv, NEW a \in Attempts, FindConflict(a)
    PROVE  ControlInv' /\ Mapped(a)
<1>1. /\ stmt[a] = "lookup" /\ stmt[a] \in Calling /\ stmt[a] # "begin"
      /\ UNCHANGED request /\ Awaits(a) /\ UNCHANGED storeVars
      /\ Store!Goto(a, "rollback") \/ Store!Fails(a, "decision_lookup_failed")
  BY DEF FindConflict, Store!LookUp, Store!storeVars, storeVars, Calling
<1>2. CASE Store!Goto(a, "rollback")
  <2>1. request[a].fixture # "decision_write_failure" /\ Existing(a) # {}
    BY <1>1 DEF ControlInv, AttemptInv, CallInv
  <2> QED
    BY <1>1, <1>2, <2>1, StatementPasses DEF Mapped, Calling
<1>3. CASE Store!Fails(a, "decision_lookup_failed")
  <2>1. ControlInv' /\ Canonical!RecordExisting(a)
    BY <1>1, <1>3, ConflictEnds DEF ConflictPathCodes
  <2> QED
    BY <2>1 DEF Mapped, Canonical!RecordDecision
<1> QED
  BY <1>1, <1>2, <1>3

LEMMA RollBackStep ==
    ASSUME ControlInv, NEW a \in Attempts, RollBackConflict(a)
    PROVE  ControlInv' /\ Mapped(a)
<1>1. /\ stmt[a] = "rollback" /\ stmt[a] \in Calling /\ stmt[a] # "begin"
      /\ UNCHANGED request /\ Awaits(a) /\ UNCHANGED storeVars
  BY DEF RollBackConflict, Store!RollBack, Store!storeVars, storeVars, Calling
<1>2. /\ ControlTypes /\ Canonical!Writes(a)
      /\ Store!KeyOf(a) = request[a].key
      /\ Store!Find(request[a].key) = Existing(a)
      /\ Canonical!Find(request[a].key) = Existing(a)
  BY <1>1, InCall
<1>3. UNCHANGED <<Canonical!ledgerVars, Canonical!storeVars>>
  BY <1>1 DEF Awaits, Canonical!ledgerVars, Canonical!storeVars, ledgerVars, storeVars
<1>4. ASSUME NEW d \in Existing(a), Store!Return(a, "existing", {d})
      PROVE  ControlInv' /\ Mapped(a)
  <2>1. CallEnds(a)
    BY <1>1, <1>2, <1>4, StoreMoves DEF CallEnds, Awaits, storeVars
  <2>2. /\ recorded'[a].status = "existing" /\ recorded'[a].found = {d}
        /\ Matches(a, recorded'[a])
    BY <1>1, <1>2, <1>4, StoreMoves DEF Awaits
  <2>3. IF d.request = request[a]
          THEN Settled(a, d.outcome, <<"next">>)
          ELSE FailsToRecord(a, "idempotency_key_conflict", FALSE)
    <3>1. \E e \in {d} :
            IF e.request = request[a]
              THEN Settled(a, e.outcome, <<"next">>)
              ELSE FailsToRecord(a, "idempotency_key_conflict", FALSE)
      BY <2>2, Zenon DEF Matches, DefiniteCodes, ConflictPathCodes, CommitLost
    <3> QED
      BY <3>1
  <2>4. CASE d.request = request[a]
    <3>1. d.outcome \in Outcomes
      BY <1>2 DEF ControlTypes, Existing, Find, Decision
    <3>2. ControlInv' /\ Canonical!Recorded(a, d.outcome, Canonical!EnteredNext)
      BY <2>1, <2>3, <2>4, <3>1, EndSettled
    <3> QED
      BY <1>2, <1>3, <1>4, <2>4, <3>2
         DEF Mapped, Canonical!RecordDecision, Canonical!RecordExisting
  <2>5. CASE d.request # request[a]
    <3>1. /\ "idempotency_key_conflict" \in Canonical!RecordCodes
          /\ FALSE = ("idempotency_key_conflict" \notin ConflictCodes)
      BY DEF Canonical!RecordCodes, Canonical!ConflictCodes, ConflictCodes
    <3>2. ControlInv' /\ Canonical!RecordFails(a, "idempotency_key_conflict")
      BY <2>1, <2>3, <2>5, <3>1, EndHandles DEF FailsToRecord, Canonical!RecordFails
    <3> QED
      BY <1>2, <1>3, <1>4, <2>5, <3>2
         DEF Mapped, Canonical!RecordDecision, Canonical!RecordExisting
  <2> QED
    BY <2>4, <2>5
<1>5. ASSUME Store!Fails(a, "decision_rollback_failed")
      PROVE  ControlInv' /\ Mapped(a)
  <2>1. ControlInv' /\ Canonical!RecordExisting(a)
    BY <1>1, <1>5, ConflictEnds DEF ConflictPathCodes
  <2> QED
    BY <2>1 DEF Mapped, Canonical!RecordDecision
<1> QED
  BY <1>2, <1>4, <1>5 DEF RollBackConflict, Store!RollBack

\* the key of a call that holds it is free in the world
LEMMA HeldKey ==
    ASSUME ControlInv, NEW a \in Attempts, Holds(a)
    PROVE  Canonical!KeyFree(a)
<1>1. stmt[a] \in Calling
  BY DEF Holds, Calling
<1>2. /\ row[a].request = request[a]
      /\ Canonical!Find(request[a].key) = Existing(a)
      /\ Existing(a) = { d \in decisions : d.request.key = request[a].key }
  BY <1>1, InCall
<1>3. \A d \in decisions \cup unsettled : d.request.key # request[a].key
  BY <1>2 DEF ControlInv, HoldInv
<1> QED
  BY <1>2, <1>3 DEF Canonical!KeyFree, Canonical!Locked

LEMMA AuditStep ==
    ASSUME ControlInv, NEW a \in Attempts, AuditDecision(a)
    PROVE  ControlInv' /\ Mapped(a)
<1>1. /\ stmt[a] = "audit" /\ stmt[a] \in Calling /\ stmt[a] # "begin"
      /\ UNCHANGED request /\ Awaits(a) /\ UNCHANGED storeVars
      /\ Store!Goto(a, "commit") \/ Store!Fails(a, "audit_insert_failed")
  BY DEF AuditDecision, Store!InsertAudit, Store!storeVars, storeVars, Calling
<1>2. /\ ControlTypes
      /\ request[a].fixture # "decision_write_failure"
      /\ Canonical!KeyFree(a)
  BY <1>1, InCall, HeldKey DEF Canonical!Writes, Holds
<1>3. CASE Store!Goto(a, "commit")
  BY <1>1, <1>2, <1>3, StatementPasses DEF Mapped, Calling
<1>4. CASE Store!Fails(a, "audit_insert_failed")
  <2>1. ControlInv' /\ Canonical!RecordDefiniteFailure(a)
    BY <1>1, <1>2, <1>4, StoreMoves, FailureEnds DEF DefiniteCodes
  <2> QED
    BY <2>1 DEF Mapped, Canonical!RecordDecision
<1> QED
  BY <1>1, <1>3, <1>4

LEMMA CommitStep ==
    ASSUME ControlInv, NEW a \in Attempts, CommitDecision(a)
    PROVE  ControlInv' /\ Mapped(a)
<1> DEFINE lost == RecordModeOf(a) = "LoseCommitAcknowledgement"
           status == IF lost THEN "decision_commit_ack_lost" ELSE "inserted"
<1>1. /\ stmt[a] = "commit" /\ stmt[a] \in Calling /\ stmt[a] # "begin" /\ Holds(a)
      /\ UNCHANGED request /\ Awaits(a)
      /\ Insert(row[a]) /\ Store!Return(a, status, {})
  BY DEF CommitDecision, Calling, Holds
<1>2. /\ ControlTypes /\ Canonical!Writes(a) /\ Canonical!KeyFree(a)
      /\ row[a] = Canonical!DecisionOf(a)
      /\ row[a].outcome = Terminal(a) /\ Terminal(a) \in Outcomes
  BY <1>1, InCall, HeldKey
<1>3. lost <=> request[a].fixture = "ack_lost_after_commit"
  BY DEF RecordModeOf
<1>4. CallEnds(a)
  BY <1>1, <1>2, StoreMoves DEF CallEnds, Awaits, Insert
<1>5. recorded'[a].status = status /\ Matches(a, recorded'[a])
  BY <1>1, <1>2, StoreMoves DEF Awaits
<1>6. Canonical!Insert(Canonical!DecisionOf(a))
  BY <1>1, <1>2 DEF Insert, Canonical!Insert
<1>7. UNCHANGED Canonical!ledgerVars
  BY <1>1 DEF Awaits, Canonical!ledgerVars, ledgerVars
<1>8. CASE lost
  <2>1. UnknownRecord(a, "decision_commit_ack_lost")
    BY <1>5, <1>8, Zenon DEF Matches, DefiniteCodes, ConflictPathCodes, CommitLost
  <2>2. ControlInv' /\ Canonical!RecordUnknown(a, "decision_commit_ack_lost")
    BY <1>4, <2>1, EndHandles DEF UnknownRecord, Canonical!RecordUnknown, UnknownCodes
  <2> QED
    BY <1>2, <1>3, <1>6, <1>7, <1>8, <2>2
       DEF Mapped, Canonical!RecordDecision, Canonical!RecordInserted
<1>9. CASE ~lost
  <2>1. Settled(a, Terminal(a), <<"next">>)
    BY <1>5, <1>9, Zenon DEF Matches, DefiniteCodes, ConflictPathCodes, CommitLost
  <2>2. ControlInv' /\ Canonical!Recorded(a, Terminal(a), Canonical!EnteredNext)
    BY <1>2, <1>4, <2>1, EndSettled
  <2> QED
    BY <1>2, <1>3, <1>6, <1>7, <1>9, <2>2
       DEF Mapped, Canonical!RecordDecision, Canonical!RecordInserted
<1> QED
  BY <1>8, <1>9

LEMMA UnansweredStep ==
    ASSUME ControlInv, NEW a \in Attempts, CommitUnanswered(a)
    PROVE  ControlInv' /\ Mapped(a)
<1>1. /\ stmt[a] = "commit" /\ stmt[a] \in Calling /\ stmt[a] # "begin" /\ Holds(a)
      /\ UNCHANGED request /\ Awaits(a)
      /\ LeaveUnsettled(row[a]) /\ Store!Fails(a, CommitLost)
  BY DEF CommitUnanswered, Calling, Holds
<1>2. /\ ControlTypes /\ Canonical!Writes(a) /\ Canonical!KeyFree(a)
      /\ row[a] = Canonical!DecisionOf(a)
  BY <1>1, InCall, HeldKey
<1>3. Store!Return(a, CommitLost, {}) /\ CommitLost \in StoreFaults
  BY <1>1, <1>2, StoreMoves
<1>4. CallEnds(a)
  BY <1>1, <1>2, <1>3, StoreMoves DEF CallEnds, Awaits, LeaveUnsettled
<1>5. recorded'[a].status = CommitLost /\ Matches(a, recorded'[a])
  BY <1>1, <1>2, <1>3, StoreMoves DEF Awaits
<1>6. UnknownRecord(a, CommitLost)
  BY <1>5, Zenon DEF Matches, DefiniteCodes, ConflictPathCodes, CommitLost
<1>7. ControlInv' /\ Canonical!RecordUnknown(a, CommitLost)
  BY <1>4, <1>6, EndHandles DEF UnknownRecord, Canonical!RecordUnknown, UnknownCodes
<1>8. Canonical!LeaveUnsettled(Canonical!DecisionOf(a))
  BY <1>1, <1>2 DEF LeaveUnsettled, Canonical!LeaveUnsettled
<1>9. UNCHANGED Canonical!ledgerVars
  BY <1>1 DEF Awaits, Canonical!ledgerVars, ledgerVars
<1>10. Canonical!CommitLost = CommitLost
  BY SameStore
<1> QED
  BY <1>2, <1>3, <1>7, <1>8, <1>9, <1>10
     DEF Mapped, Canonical!RecordDecision, Canonical!RecordCommitLost

-----------------------------------------------------------------------------
(***************************************************************************)
(* The environment: dropped futures, the crash, commits that settle.       *)
(***************************************************************************)
LEMMA DropStep ==
    ASSUME ControlInv, NEW a \in Attempts, FutureDropped(a)
    PROVE  ControlInv' /\ (Canonical!Drop(a) \/ Canonical!AbandonCommit(a))
<1>1. /\ ControlTypes /\ AttemptInv(a) /\ MayDrop /\ Running(a)
      /\ at' = [at EXCEPT ![a] = "dropped"]
      /\ UNCHANGED <<request, state, fault, response, log, row, recorded, ledgerVars>>
  BY DEF ControlInv, FutureDropped, GoTo
<1>2. at[a] \in Canonical!InFlight /\ stmt[a] # "gone"
  BY <1>1 DEF Running, AttemptInv, CallInv, ControlTypes
<1>3. \A t : stmt' = [stmt EXCEPT ![a] = t] =>
        Becomes(a, "dropped", state[a], fault[a], response[a], <<>>, t)
  BY <1>1, Unchanged DEF Becomes
<1>4. UNCHANGED Canonical!ledgerVars /\ workflowBar' = workflowBar /\ pendingBar' = pendingBar
  BY <1>1 DEF Canonical!ledgerVars, ledgerVars, workflowBar, pendingBar
<1>5. at'[a] = "dropped"
  BY <1>1 DEF ControlTypes
<1>6. HandledInv(a)' /\ LogInv(a)' /\ ~TracedConflict(a)'
  BY <1>5 DEF HandledInv, LogInv, TracedConflict
<1>7. CASE stmt' = [stmt EXCEPT ![a] = Ended(@)] /\ UNCHANGED storeVars
  <2> DEFINE t == Ended(stmt[a])
  <2>1. stmt' = [stmt EXCEPT ![a] = t] /\ stmt'[a] = t
    BY <1>1, <1>7 DEF ControlTypes
  <2>2. /\ t \in Statements \ Calling
        /\ stmt[a] \in Calling => t = "gone"
        /\ stmt[a] \notin Calling => t = stmt[a]
    BY <1>1, <1>2 DEF Ended, Statements, Calling, ControlTypes
  <2> HIDE DEF t
  <2>3. Becomes(a, "dropped", state[a], fault[a], response[a], <<>>, t)
    BY <1>3, <2>1
  <2>4. CallInv(a)'
    BY <1>5, <2>1, <2>2 DEF CallInv, Calling
  <2>5. \A b \in Attempts \ {a} : stmt'[b] = stmt[b] /\ row'[b] = row[b]
    BY <1>1, <2>1 DEF ControlTypes
  <2>6. HoldInv'
    <3>1. ~Holds(a)'
      BY <2>1, <2>2 DEF Holds, Calling
    <3> QED
      BY <1>7, <2>5, <3>1, HoldKept DEF ControlInv, storeVars
  <2>7. ControlInv'
    BY <1>1, <1>6, <1>7, <2>2, <2>3, <2>4, <2>5, <2>6, LaterStations, EndEntries,
       SameWorkflow, StepKeeps DEF AttemptInv, ControlTypes, storeVars
  <2>8. tracesBar' = tracesBar
    <3>1. ~TracedConflict(a)
      BY <1>2 DEF TracedConflict, Canonical!InFlight, Canonical!Transitions
    <3>2. PendingEntry(a)' <=> PendingEntry(a)
      BY <1>1, <1>2, <2>1, <2>2 DEF PendingEntry, Calling, ControlTypes
    <3>3. CanonicalLog(a)' = CanonicalLog(a)
      BY <1>1, <1>6, <3>1, <3>2 DEF CanonicalLog
    <3>4. \A b \in Attempts \ {a} : CanonicalLog(b)' = CanonicalLog(b)
      BY <1>1, <2>5 DEF CanonicalLog, TracedConflict, PendingEntry, ControlTypes
    <3> QED
      BY <3>3, <3>4 DEF tracesBar
  <2>9. UNCHANGED Canonical!storeVars
    BY <1>7 DEF Canonical!storeVars, storeVars
  <2>10. Canonical!Drop(a)
    BY <1>1, <1>2, <1>4, <2>8, <2>9
       DEF Canonical!Drop, Canonical!Goto, workflowBar, WorkflowOf, pendingBar, tracesBar
  <2> QED
    BY <2>7, <2>10
<1>8. CASE /\ stmt[a] = "commit"
           /\ CommitLost \in StoreFaults
           /\ stmt' = [stmt EXCEPT ![a] = "sent"]
           /\ LeaveUnsettled(row[a])
  <2>1. stmt[a] \in Calling /\ stmt[a] # "begin" /\ Holds(a)
    BY <1>8 DEF Calling, Holds
  <2>2. /\ Canonical!Writes(a) /\ Canonical!KeyFree(a)
        /\ row[a] = Canonical!DecisionOf(a)
    BY <2>1, InCall, HeldKey
  <2>3. Becomes(a, "dropped", state[a], fault[a], response[a], <<>>, "sent")
    BY <1>3, <1>8
  <2>4. /\ stmt'[a] = "sent"
        /\ \A b \in Attempts \ {a} : stmt'[b] = stmt[b] /\ row'[b] = row[b]
    BY <1>1, <1>8 DEF ControlTypes
  <2>5. CallInv(a)'
    BY <2>4 DEF CallInv, Calling
  <2>6. HoldInv'
    <3>1. ~Holds(a)'
      BY <2>4 DEF Holds
    <3> QED
      BY <1>8, <2>1, <2>4, <3>1, HoldKept DEF ControlInv, LeaveUnsettled
  <2>7. /\ "sent" \in Statements
        /\ decisions' \subseteq Decision /\ unsettled' \subseteq Decision
        /\ decisions \subseteq decisions'
    BY <1>1, <1>8 DEF Statements, ControlTypes, LeaveUnsettled
  <2>8. ControlInv'
    BY <1>1, <1>6, <2>3, <2>4, <2>5, <2>6, <2>7, LaterStations, EndEntries,
       SameWorkflow, StepKeeps DEF AttemptInv, ControlTypes
  <2> DEFINE none == <<>>
             entries == <<EnteredEntry>> \o none
  <2>9. none \in Seq(Canonical!TraceEntry) /\ entries = Canonical!Entered
    BY EndEntries DEF Canonical!Entered, EnteredEntry
  <2>10. Becomes(a, "dropped", state[a], fault[a], response[a], none, "sent")
    BY <2>3
  <2> HIDE DEF none
  <2>11. at[a] \notin {"answered", "dropped"}
    BY <1>1 DEF Running
  <2>12. CanonicalLog(a)' = CanonicalLog(a) \o entries
    BY <1>1, <1>6, <2>1, <2>9, <2>10, <2>11, LogGrows
  <2> HIDE DEF entries
  <2>13. Maps(a, "dropped", state[a], fault[a], response[a], entries)
    <3>1. ControlTypes
      BY <1>1
    <3> QED
      BY <2>10, <2>12, <3>1, BecomesMaps
  <2>14. Canonical!Trace(a, Canonical!Entered)
    BY <2>9, <2>13 DEF Maps, Canonical!Trace, tracesBar
  <2>15. Canonical!LeaveUnsettled(Canonical!DecisionOf(a)) /\ Canonical!CommitLost = CommitLost
    BY <1>8, <2>2, SameStore DEF LeaveUnsettled, Canonical!LeaveUnsettled
  <2>16. Canonical!AbandonCommit(a)
    BY <1>1, <1>4, <1>8, <2>2, <2>14, <2>15
       DEF Canonical!AbandonCommit, Canonical!Goto, workflowBar, WorkflowOf, pendingBar
  <2> QED
    BY <2>8, <2>16
<1> QED
  BY <1>7, <1>8 DEF FutureDropped

LEMMA RestartStep ==
    ASSUME ControlInv, CrashAndRestart
    PROVE  ControlInv' /\ Canonical!Restart
<1>1. /\ ControlTypes
      /\ at' = [a \in Attempts |-> IF Running(a) THEN "dropped" ELSE at[a]]
      /\ state' = [a \in Attempts |-> NewState]
      /\ fault' = [a \in Attempts |-> Nothing]
      /\ log' = [a \in Attempts |-> <<>>]
      /\ stmt' = [a \in Attempts |-> Ended(stmt[a])]
      /\ UNCHANGED <<request, response, row, recorded>> /\ UNCHANGED storeVars
  BY DEF ControlInv, CrashAndRestart, storeVars
<1>2. \A a \in Attempts :
        /\ at[a] \in Stations
        /\ Running(a) <=> at[a] \in Canonical!InFlight
        /\ at'[a] = (IF Running(a) THEN "dropped" ELSE at[a])
        /\ at'[a] \in {"idle", "answered", "dropped"}
  BY <1>1 DEF ControlTypes, Running, Stations, Canonical!InFlight, Canonical!Transitions
<1>3. \A a \in Attempts :
        /\ stmt'[a] = Ended(stmt[a])
        /\ stmt'[a] \in Statements \ Calling
        /\ stmt'[a] = "gone" => stmt[a] \in Calling \cup {"gone"}
  BY <1>1 DEF ControlTypes, Ended, Statements, Calling
<1>4. NewState \in WorkflowStates
  BY DEF NewState, WorkflowStates
<1>5. ControlTypes'
  <2>1. /\ at' \in [Attempts -> Stations] /\ state' \in [Attempts -> WorkflowStates]
        /\ stmt' \in [Attempts -> Statements]
    BY <1>1, <1>2, <1>3, <1>4 DEF Stations
  <2>2. log' \in [Attempts -> Seq(Canonical!TraceEntry)]
    BY <1>1, EndEntries
  <2>3. fault' = [a \in Attempts |-> fault'[a]]
    BY <1>1
  <2> QED
    BY <1>1, <2>1, <2>2, <2>3 DEF ControlTypes, Stations, Statements, storeVars
<1>6. HoldInv'
  BY <1>3 DEF HoldInv, Holds, Calling
<1>7. ASSUME NEW a \in Attempts
      PROVE  AttemptInv(a)'
  <2>1. stmt[a] \in Calling => at[a] = "RecordDecision"
    BY DEF ControlInv, AttemptInv, CallInv
  <2>2. stmt[a] = "gone" => at[a] = "dropped"
    BY DEF ControlInv, AttemptInv, CallInv
  <2>3. stmt'[a] = "gone" => at'[a] = "dropped"
    BY <1>2, <1>3, <2>1, <2>2 DEF Running
  <2>4. CallInv(a)'
    BY <1>3, <2>3 DEF CallInv, Calling
  <2>5. HandledInv(a)'
    BY <1>1, <1>2 DEF HandledInv, Nothing, Err
  <2>6. LogInv(a)'
    BY <1>1 DEF LogInv
  <2> QED
    BY <2>4, <2>5, <2>6 DEF AttemptInv
<1>8. workflowBar' = [a \in Attempts |-> Canonical!FreshWorkflow]
  BY <1>1 DEF workflowBar, WorkflowOf, NewState, Canonical!FreshWorkflow, Nothing, Err
<1>9. pendingBar' = [a \in Attempts |-> "none"]
  BY <1>1 DEF pendingBar, Nothing, Err
<1>10. tracesBar' = [a \in Attempts |-> <<>>]
  BY <1>1 DEF tracesBar, CanonicalLog
<1>11. at' = [a \in Attempts |-> IF at[a] \in Canonical!InFlight THEN "dropped" ELSE at[a]]
  BY <1>1, <1>2
<1>12. Canonical!Restart
  BY <1>1, <1>8, <1>9, <1>10, <1>11
     DEF Canonical!Restart, CrashAndRestart, workflowBar, WorkflowOf, pendingBar,
         tracesBar, Canonical!storeVars, storeVars
<1> QED
  BY <1>5, <1>6, <1>7, <1>12 DEF ControlInv

LEMMA SettlesStep ==
    ASSUME ControlInv, CommitSettles
    PROVE  ControlInv' /\ Canonical!Settle
<1>1. /\ ControlTypes
      /\ UNCHANGED <<request, at, state, fault, response, log, row, stmt, recorded>>
      /\ UNCHANGED ledgerVars
  BY DEF ControlInv, CommitSettles, serviceVars, methodVars, callVars
<1>2. PICK d \in unsettled : SettleCommit(d) \/ SettleAbort(d)
  BY DEF CommitSettles
<1>3. /\ decisions \subseteq decisions'
      /\ decisions' \cup unsettled' \subseteq decisions \cup unsettled
      /\ decisions' \subseteq Decision /\ unsettled' \subseteq Decision
  BY <1>1, <1>2 DEF SettleCommit, SettleAbort, ControlTypes
<1>4. ControlTypes'
  BY <1>1, <1>3 DEF ControlTypes
<1>5. HoldInv'
  BY <1>1, <1>3 DEF ControlInv, HoldInv, Holds
<1>6. \A b \in Attempts : SameFor(b) /\ row'[b] = row[b]
  BY <1>1 DEF SameFor
<1>7. \A b \in Attempts : AttemptInv(b)'
  BY <1>3, <1>6, OthersKeep DEF ControlInv
<1>8. Canonical!SettleCommit(d) \/ Canonical!SettleAbort(d)
  BY <1>2 DEF SettleCommit, SettleAbort, Canonical!SettleCommit, Canonical!SettleAbort
<1>9. /\ workflowBar' = workflowBar /\ pendingBar' = pendingBar
      /\ tracesBar' = tracesBar
  BY <1>1 DEF workflowBar, pendingBar, tracesBar, CanonicalLog, TracedConflict, PendingEntry
<1>10. Canonical!Settle
  BY <1>1, <1>2, <1>8, <1>9
     DEF Canonical!Settle, Canonical!attemptVars, Canonical!ledgerVars, ledgerVars,
         workflowBar, WorkflowOf, pendingBar, tracesBar
<1> QED
  BY <1>4, <1>5, <1>7, <1>10 DEF ControlInv

LEMMA SameStep ==
    ASSUME ControlInv, UNCHANGED controlVars
    PROVE  ControlInv' /\ UNCHANGED Canonical!vars
<1>1. /\ UNCHANGED <<request, at, state, fault, response, log, row, stmt, recorded>>
      /\ UNCHANGED ledgerVars /\ UNCHANGED storeVars
  BY DEF controlVars, serviceVars, methodVars, callVars
<1>2. \A b \in Attempts : SameFor(b) /\ row'[b] = row[b]
  BY <1>1 DEF SameFor
<1>3. \A b \in Attempts : AttemptInv(b)'
  BY <1>1, <1>2, OthersKeep DEF ControlInv, storeVars
<1>4. ControlTypes' /\ HoldInv'
  BY <1>1 DEF ControlInv, ControlTypes, HoldInv, Holds, storeVars
<1>5. \A b \in Attempts : CanonicalLog(b)' = CanonicalLog(b)
  BY <1>1 DEF CanonicalLog, TracedConflict, PendingEntry
<1> QED
  BY <1>1, <1>3, <1>4, <1>5, MappedSame DEF ControlInv

-----------------------------------------------------------------------------
LEMMA InitMaps == ControlInit => ControlInv /\ Canonical!Init
<1> SUFFICES ASSUME ControlInit PROVE ControlInv /\ Canonical!Init
  OBVIOUS
<1>1. NewState \in WorkflowStates
  BY DEF NewState, WorkflowStates
<1>2. \A a \in Attempts : RowOf(a) \in Decision
  BY DEF ControlInit, RowOf, Terminal, NewState, Decision, Outcomes
<1>3. /\ request \in [Attempts -> Requests]
      /\ at \in [Attempts -> Stations]
      /\ state \in [Attempts -> WorkflowStates]
      /\ fault = [a \in Attempts |-> fault[a]]
      /\ response = [a \in Attempts |-> response[a]]
      /\ row \in [Attempts -> Decision]
      /\ stmt \in [Attempts -> Statements]
      /\ DOMAIN recorded = Attempts
  BY <1>1, <1>2 DEF ControlInit, Stations, Statements
<1>4. log \in [Attempts -> Seq(Canonical!TraceEntry)]
  BY EndEntries DEF ControlInit
<1>5. decisions \subseteq Decision /\ unsettled \subseteq Decision
  BY DEF ControlInit, StoreInit
<1>6. ControlTypes
  BY <1>3, <1>4, <1>5 DEF ControlTypes, Stations, Statements
<1>7. HoldInv
  BY DEF ControlInit, HoldInv, Holds
<1>8. \A a \in Attempts : AttemptInv(a)
  BY DEF ControlInit, AttemptInv, CallInv, HandledInv, LogInv, Calling, Nothing, Err
<1>9. workflowBar = [a \in Attempts |-> Canonical!FreshWorkflow]
  BY DEF ControlInit, workflowBar, WorkflowOf, NewState, Canonical!FreshWorkflow,
         Nothing, Err
<1>10. pendingBar = [a \in Attempts |-> "none"]
  BY DEF ControlInit, pendingBar, Nothing, Err
<1>11. tracesBar = [a \in Attempts |-> <<>>]
  BY DEF ControlInit, tracesBar, CanonicalLog
<1>12. response = [a \in Attempts |-> Canonical!NoAnswer]
  BY DEF ControlInit, Nothing, Err, Canonical!NoAnswer, Canonical!Fault
<1>13. Canonical!Init
  BY <1>9, <1>10, <1>11, <1>12
     DEF Canonical!Init, ControlInit, workflowBar, WorkflowOf, pendingBar, tracesBar,
         Canonical!LedgerInit, LedgerInit, Canonical!StoreInit, StoreInit
<1> QED
  BY <1>6, <1>7, <1>8, <1>13 DEF ControlInv

LEMMA StepMaps ==
    ControlInv /\ [ControlNext]_controlVars =>
        ControlInv' /\ [Canonical!Next]_(Canonical!vars)
<1> SUFFICES ASSUME ControlInv, [ControlNext]_controlVars
             PROVE  ControlInv' /\ (Canonical!Next \/ UNCHANGED Canonical!vars)
  OBVIOUS
<1>1. CASE UNCHANGED controlVars
  BY <1>1, SameStep
<1>2. ASSUME NEW a \in Attempts, Called(a) \/ FutureDropped(a)
      PROVE  ControlInv' /\ Canonical!Next
  BY <1>2, CalledStep, DropStep DEF Canonical!Next, Canonical!Proceed
<1>3. ASSUME NEW a \in Attempts, Methods(a)
      PROVE  ControlInv' /\ (Canonical!Run(a) \/ UNCHANGED Canonical!vars)
  <2>1. CASE Validate(a)
    BY <2>1, ValidateStep DEF Canonical!Run
  <2>2. CASE Resolve(a)
    BY <2>2, ResolveStep DEF Canonical!Run
  <2>3. CASE Screen(a)
    BY <2>3, ScreenStep DEF Canonical!Run
  <2>4. CASE ReserveStock(a)
    BY <2>4, ReserveStep DEF Canonical!Run
  <2>5. CASE ChargePayment(a)
    BY <2>5, ChargeStep DEF Canonical!Run
  <2>6. CASE RecordReplay(a)
    BY <2>6, ReplayStep DEF Canonical!Run
  <2>7. CASE AskStore(a)
    BY <2>7, AskStep
  <2>8. CASE BeginRecord(a)
    BY <2>8, BeginStep DEF Canonical!Run, Mapped
  <2>9. CASE InsertDecision(a)
    BY <2>9, InsertStep DEF Canonical!Run, Mapped
  <2>10. CASE FindConflict(a)
    BY <2>10, FindStep DEF Canonical!Run, Mapped
  <2>11. CASE RollBackConflict(a)
    BY <2>11, RollBackStep DEF Canonical!Run, Mapped
  <2>12. CASE AuditDecision(a)
    BY <2>12, AuditStep DEF Canonical!Run, Mapped
  <2>13. CASE CommitDecision(a)
    BY <2>13, CommitStep DEF Canonical!Run, Mapped
  <2>14. CASE CommitUnanswered(a)
    BY <2>14, UnansweredStep DEF Canonical!Run, Mapped
  <2>15. CASE ReconcileUnknown(a)
    BY <2>15, ReconcileStep DEF Canonical!Run
  <2>16. CASE CompensateState(a)
    BY <2>16, CompensateStep DEF Canonical!Run
  <2>17. CASE ReturnUndone(a)
    BY <2>17, ReturnStep DEF Canonical!Run
  <2>18. CASE Complete(a)
    BY <2>18, CompleteStep DEF Canonical!Run
  <2> QED
    BY <1>3, <2>1, <2>2, <2>3, <2>4, <2>5, <2>6, <2>7, <2>8, <2>9, <2>10, <2>11, <2>12,
       <2>13, <2>14, <2>15, <2>16, <2>17, <2>18 DEF Methods
<1>4. CASE CrashAndRestart
  BY <1>4, RestartStep DEF Canonical!Next
<1>5. CASE CommitSettles
  BY <1>5, SettlesStep DEF Canonical!Next, Canonical!Proceed
<1>6. CASE AllOver
  BY <1>6, SameStep DEF AllOver
<1> QED
  BY <1>1, <1>2, <1>3, <1>4, <1>5, <1>6
     DEF ControlNext, Canonical!Next, Canonical!Proceed

\* What a call of record knows at each statement stays true while the other
\* executions go on, calls fail, futures are dropped and the process restarts.
THEOREM ControlInvariance == ControlSpec => []ControlInv
<1>1. ControlInit => ControlInv
  BY InitMaps
<1>2. ControlInv /\ [ControlNext]_controlVars => ControlInv'
  BY StepMaps
<1> QED
  BY <1>1, <1>2, PTL DEF ControlSpec

\* The log of the control ends as the response says (the trace! calls of
\* OrderService::authorize and its methods).
THEOREM LogsTell == ControlSpec => []LogTellsResponse
<1>1. ControlInv => LogTellsResponse
  BY DEF ControlInv, AttemptInv, LogInv, LogTellsResponse
<1> QED
  BY <1>1, ControlInvariance, PTL

\* Every behaviour of the control is one of the canonical service, for any
\* number of executions, any requests and any failures of the store.
THEOREM ControlBehavesAsCanonical == ControlSpec => BehavesAsCanonical
<1>1. ControlInit => Canonical!Init
  BY InitMaps
<1>2. ControlInv /\ [ControlNext]_controlVars => [Canonical!Next]_(Canonical!vars)
  BY StepMaps
<1> QED
  BY <1>1, <1>2, ControlInvariance, PTL DEF ControlSpec, BehavesAsCanonical

-----------------------------------------------------------------------------
(***************************************************************************)
(* What is proved of the canonical service holds of the control, as it     *)
(* behaves as one.  Definition by definition the service it is mapped to   *)
(* is the service of those proofs.                                         *)
(***************************************************************************)
Service == INSTANCE OrderAuthorizationPromises WITH
    pc       <- at,
    workflow <- [a \in Attempts |->
                   [replayed    |-> state[a].replayed,
                    result      |-> state[a].result,
                    reservation |-> state[a].reservation_id,
                    payment     |-> state[a].payment_id,
                    undone      |-> fault[a].compensations]],
    pending  <- [a \in Attempts |-> fault[a].code],
    answer   <- response,
    traces   <- [a \in Attempts |-> CanonicalLog(a)]

LEMMA PromisesAssumptions ==
    Service!RequestsAssumption /\ Service!FailuresAssumption /\ Service!StoreFaultsAssumption
<1>1. Service!RequestsAssumption /\ Service!FailuresAssumption
  BY ControlAssumption
     DEF Service!RequestsAssumption, Service!FailuresAssumption, Canonical!RequestType,
         Service!RequestType, Canonical!Fixtures, Service!Fixtures, Canonical!ValidationCodes,
         Service!ValidationCodes, Canonical!ValidationOrder, Service!ValidationOrder
<1>2. Service!StoreFaultsAssumption
  BY StoreFaultsAssumption
     DEF Service!StoreFaultsAssumption, DefiniteCodes, Service!DefiniteCodes, ConflictPathCodes,
         Service!ConflictPathCodes, CommitLost, Service!CommitLost
<1> QED
  BY <1>1, <1>2

LEMMA CanonicalActions ==
    ASSUME NEW a \in Attempts
    PROVE  /\ Canonical!ValidateRequest(a) => Service!ValidateRequest(a)
           /\ Canonical!ResolveIdempotency(a) => Service!ResolveIdempotency(a)
           /\ Canonical!ScreenPolicy(a) => Service!ScreenPolicy(a)
           /\ Canonical!ReserveInventory(a) => Service!ReserveInventory(a)
           /\ Canonical!AuthorizePayment(a) => Service!AuthorizePayment(a)
           /\ Canonical!RecordReplayed(a) => Service!RecordReplayed(a)
           /\ Canonical!RecordWriteFailure(a) => Service!RecordWriteFailure(a)
           /\ Canonical!RecordDefiniteFailure(a) => Service!RecordDefiniteFailure(a)
           /\ Canonical!RecordInserted(a) => Service!RecordInserted(a)
           /\ Canonical!RecordCommitLost(a) => Service!RecordCommitLost(a)
           /\ Canonical!RecordExisting(a) => Service!RecordExisting(a)
           /\ Canonical!Reconcile(a) => Service!Reconcile(a)
           /\ Canonical!CompensateDecision(a) => Service!CompensateDecision(a)
           /\ Canonical!ReturnFault(a) => Service!ReturnFault(a)
           /\ Canonical!CompleteAuthorization(a) => Service!CompleteAuthorization(a)
           /\ Canonical!Arrive(a) => Service!Arrive(a)
           /\ Canonical!Drop(a) => Service!Drop(a)
           /\ Canonical!AbandonCommit(a) => Service!AbandonCommit(a)
<1> USE DEF
         Canonical!ledgerVars, Service!ledgerVars, Canonical!Reserve,
         Service!Reserve, Canonical!Authorize, Service!Authorize,
         Canonical!VoidEvents, Service!VoidEvents, Canonical!ReleaseEvents,
         Service!ReleaseEvents, Canonical!Compensate, Service!Compensate,
         Canonical!CompensationOutcome, Service!CompensationOutcome,
         Canonical!Applied, Service!Applied, Canonical!CompensationOutcomes,
         Service!CompensationOutcomes, Canonical!DefiniteCodes,
         Service!DefiniteCodes, Canonical!ConflictPathCodes,
         Service!ConflictPathCodes, Canonical!CommitLost, Service!CommitLost,
         Canonical!LookupFailed, Service!LookupFailed, Canonical!storeVars,
         Service!storeVars, Canonical!Find, Service!Find, Canonical!Locked,
         Service!Locked, Canonical!Insert, Service!Insert,
         Canonical!LeaveUnsettled, Service!LeaveUnsettled,
         Canonical!ValidationOrder, Service!ValidationOrder,
         Canonical!ConflictCodes, Service!ConflictCodes, Canonical!BusinessCodes,
         Service!BusinessCodes, Canonical!Transitions, Service!Transitions,
         Canonical!InFlight, Service!InFlight, Canonical!Absent, Service!Absent,
         Canonical!Success, Service!Success, Canonical!Fault, Service!Fault,
         Canonical!FirstFlaw, Service!FirstFlaw, Canonical!Trace, Service!Trace,
         Canonical!Goto, Service!Goto, Canonical!Advance, Service!Advance,
         Canonical!FailAt, Service!FailAt, Canonical!Arrive, Service!Arrive,
         Canonical!ValidateRequest, Service!ValidateRequest,
         Canonical!ResolveIdempotency, Service!ResolveIdempotency,
         Canonical!PolicyResult, Service!PolicyResult, Canonical!ScreenPolicy,
         Service!ScreenPolicy, Canonical!NeedsEffects, Service!NeedsEffects,
         Canonical!ReserveInventory, Service!ReserveInventory, Canonical!Undo,
         Service!Undo, Canonical!AuthorizePayment, Service!AuthorizePayment,
         Canonical!DecisionOf, Service!DecisionOf, Canonical!Recorded,
         Service!Recorded, Canonical!Suspend, Service!Suspend, Canonical!Entered,
         Service!Entered, Canonical!EnteredNext, Service!EnteredNext,
         Canonical!RecordFails, Service!RecordFails, Canonical!RecordUnknown,
         Service!RecordUnknown, Canonical!CallsStore, Service!CallsStore,
         Canonical!Writes, Service!Writes, Canonical!KeyFree, Service!KeyFree,
         Canonical!RecordReplayed, Service!RecordReplayed,
         Canonical!RecordWriteFailure, Service!RecordWriteFailure,
         Canonical!RecordDefiniteFailure, Service!RecordDefiniteFailure,
         Canonical!RecordInserted, Service!RecordInserted,
         Canonical!RecordCommitLost, Service!RecordCommitLost,
         Canonical!RecordExisting, Service!RecordExisting,
         Canonical!RecordDecision, Service!RecordDecision, Canonical!Reconcile,
         Service!Reconcile, Canonical!CompensateDecision,
         Service!CompensateDecision, Canonical!ReturnFault, Service!ReturnFault,
         Canonical!CompleteAuthorization, Service!CompleteAuthorization,
         Canonical!Drop, Service!Drop, Canonical!AbandonCommit,
         Service!AbandonCommit
<1>1. Canonical!ValidateRequest(a) => Service!ValidateRequest(a)
  OBVIOUS
<1>2. Canonical!ResolveIdempotency(a) => Service!ResolveIdempotency(a)
  OBVIOUS
<1>3. Canonical!ScreenPolicy(a) => Service!ScreenPolicy(a)
  OBVIOUS
<1>4. Canonical!ReserveInventory(a) => Service!ReserveInventory(a)
  OBVIOUS
<1>5. Canonical!AuthorizePayment(a) => Service!AuthorizePayment(a)
  OBVIOUS
<1>6. Canonical!RecordReplayed(a) => Service!RecordReplayed(a)
  OBVIOUS
<1>7. Canonical!RecordWriteFailure(a) => Service!RecordWriteFailure(a)
  OBVIOUS
<1>8. Canonical!RecordDefiniteFailure(a) => Service!RecordDefiniteFailure(a)
  OBVIOUS
<1>9. Canonical!RecordInserted(a) => Service!RecordInserted(a)
  OBVIOUS
<1>10. Canonical!RecordCommitLost(a) => Service!RecordCommitLost(a)
  OBVIOUS
<1>11. Canonical!RecordExisting(a) => Service!RecordExisting(a)
  OBVIOUS
<1>12. Canonical!Reconcile(a) => Service!Reconcile(a)
  OBVIOUS
<1>13. Canonical!CompensateDecision(a) => Service!CompensateDecision(a)
  OBVIOUS
<1>14. Canonical!ReturnFault(a) => Service!ReturnFault(a)
  OBVIOUS
<1>15. Canonical!CompleteAuthorization(a) => Service!CompleteAuthorization(a)
  OBVIOUS
<1>16. Canonical!Arrive(a) => Service!Arrive(a)
  OBVIOUS
<1>17. Canonical!Drop(a) => Service!Drop(a)
  OBVIOUS
<1>18. Canonical!AbandonCommit(a) => Service!AbandonCommit(a)
  OBVIOUS
<1> QED
  BY <1>1, <1>2, <1>3, <1>4, <1>5, <1>6, <1>7, <1>8, <1>9, <1>10, <1>11, <1>12,
     <1>13, <1>14, <1>15, <1>16, <1>17, <1>18

LEMMA CanonicalMoves ==
    /\ Canonical!Init => Service!Init
    /\ Canonical!Restart => Service!Restart
    /\ Canonical!Settle => Service!Settle
    /\ UNCHANGED Canonical!vars => UNCHANGED Service!vars
<1> USE DEF
         Canonical!ledgerVars, Service!ledgerVars, Canonical!LedgerInit,
         Service!LedgerInit, Canonical!Reserve, Service!Reserve,
         Canonical!Authorize, Service!Authorize, Canonical!VoidEvents,
         Service!VoidEvents, Canonical!ReleaseEvents, Service!ReleaseEvents,
         Canonical!Compensate, Service!Compensate, Canonical!CompensationOutcome,
         Service!CompensationOutcome, Canonical!Applied, Service!Applied,
         Canonical!CompensationOutcomes, Service!CompensationOutcomes,
         Canonical!DefiniteCodes, Service!DefiniteCodes,
         Canonical!ConflictPathCodes, Service!ConflictPathCodes,
         Canonical!CommitLost, Service!CommitLost, Canonical!LookupFailed,
         Service!LookupFailed, Canonical!storeVars, Service!storeVars,
         Canonical!StoreInit, Service!StoreInit, Canonical!Find, Service!Find,
         Canonical!Locked, Service!Locked, Canonical!Insert, Service!Insert,
         Canonical!LeaveUnsettled, Service!LeaveUnsettled, Canonical!SettleCommit,
         Service!SettleCommit, Canonical!SettleAbort, Service!SettleAbort,
         Canonical!ValidationOrder, Service!ValidationOrder,
         Canonical!ConflictCodes, Service!ConflictCodes, Canonical!BusinessCodes,
         Service!BusinessCodes, Canonical!attemptVars, Service!attemptVars,
         Canonical!vars, Service!vars, Canonical!Transitions, Service!Transitions,
         Canonical!InFlight, Service!InFlight, Canonical!Absent, Service!Absent,
         Canonical!FreshWorkflow, Service!FreshWorkflow, Canonical!Success,
         Service!Success, Canonical!Fault, Service!Fault, Canonical!NoAnswer,
         Service!NoAnswer, Canonical!FirstFlaw, Service!FirstFlaw, Canonical!Init,
         Service!Init, Canonical!Trace, Service!Trace, Canonical!Goto,
         Service!Goto, Canonical!Advance, Service!Advance, Canonical!FailAt,
         Service!FailAt, Canonical!ValidateRequest, Service!ValidateRequest,
         Canonical!ResolveIdempotency, Service!ResolveIdempotency,
         Canonical!PolicyResult, Service!PolicyResult, Canonical!ScreenPolicy,
         Service!ScreenPolicy, Canonical!NeedsEffects, Service!NeedsEffects,
         Canonical!ReserveInventory, Service!ReserveInventory, Canonical!Undo,
         Service!Undo, Canonical!AuthorizePayment, Service!AuthorizePayment,
         Canonical!DecisionOf, Service!DecisionOf, Canonical!Recorded,
         Service!Recorded, Canonical!Suspend, Service!Suspend, Canonical!Entered,
         Service!Entered, Canonical!EnteredNext, Service!EnteredNext,
         Canonical!RecordFails, Service!RecordFails, Canonical!RecordUnknown,
         Service!RecordUnknown, Canonical!CallsStore, Service!CallsStore,
         Canonical!Writes, Service!Writes, Canonical!KeyFree, Service!KeyFree,
         Canonical!RecordReplayed, Service!RecordReplayed,
         Canonical!RecordWriteFailure, Service!RecordWriteFailure,
         Canonical!RecordDefiniteFailure, Service!RecordDefiniteFailure,
         Canonical!RecordInserted, Service!RecordInserted,
         Canonical!RecordCommitLost, Service!RecordCommitLost,
         Canonical!RecordExisting, Service!RecordExisting,
         Canonical!RecordDecision, Service!RecordDecision, Canonical!Reconcile,
         Service!Reconcile, Canonical!ReturnFault, Service!ReturnFault,
         Canonical!CompleteAuthorization, Service!CompleteAuthorization,
         Canonical!Restart, Service!Restart, Canonical!Settle, Service!Settle
<1>1. Canonical!Init => Service!Init
  OBVIOUS
<1>2. Canonical!Restart => Service!Restart
  OBVIOUS
<1>3. Canonical!Settle => Service!Settle
  OBVIOUS
<1>4. UNCHANGED Canonical!vars => UNCHANGED Service!vars
  OBVIOUS
<1> QED
  BY <1>1, <1>2, <1>3, <1>4

LEMMA CanonicalStep == [Canonical!Next]_(Canonical!vars) => [Service!Next]_(Service!vars)
<1> SUFFICES ASSUME [Canonical!Next]_(Canonical!vars) PROVE [Service!Next]_(Service!vars)
  OBVIOUS
<1>1. CASE UNCHANGED Canonical!vars \/ Canonical!Quiescent
  BY <1>1, CanonicalMoves DEF Canonical!Quiescent
<1>2. ASSUME NEW a \in Attempts,
             Canonical!Arrive(a) \/ Canonical!Drop(a) \/ Canonical!AbandonCommit(a)
      PROVE  Service!Next
  BY <1>2, CanonicalActions DEF Service!Next, Service!Proceed
<1>3. ASSUME NEW a \in Attempts, Canonical!Run(a) PROVE Service!Next
  <2>1. Service!Run(a)
    BY <1>3, CanonicalActions
       DEF Canonical!Run, Service!Run, Canonical!RecordDecision, Service!RecordDecision
  <2> QED
    BY <2>1 DEF Service!Next, Service!Proceed
<1>4. CASE Canonical!Settle \/ Canonical!Restart
  BY <1>4, CanonicalMoves DEF Service!Next, Service!Proceed
<1> QED
  BY <1>1, <1>2, <1>3, <1>4 DEF Canonical!Next, Canonical!Proceed

(***************************************************************************)
(* The control keeps what the canonical service promises: durable and      *)
(* final answers, consistent faults, audits, a ledger with nothing left    *)
(* behind and nothing undone unsaid.  No run checks these of the control;  *)
(* they follow from what it implements.                                    *)
(***************************************************************************)
THEOREM ControlKeepsPromises == ControlSpec => []Service!PromisesKept
<1>1. BehavesAsCanonical => Service!Init /\ [][Service!Next]_(Service!vars)
  <2>1. Canonical!Init => Service!Init
    BY CanonicalMoves
  <2> QED
    BY <2>1, CanonicalStep, PTL DEF BehavesAsCanonical
<1>2. Service!Init => Service!PromisesInv
  BY Service!PromisesInit, PromisesAssumptions
<1>3. Service!PromisesInv /\ [Service!Next]_(Service!vars) => Service!PromisesInv'
  BY Service!PromisesStep, PromisesAssumptions
<1>4. Service!PromisesInv => Service!PromisesKept
  BY Service!PromisesOfInv, PromisesAssumptions
<1> QED
  BY <1>1, <1>2, <1>3, <1>4, ControlBehavesAsCanonical, PTL
=============================================================================
