# The order-authorization service in TLA+

These modules model the service of this repository as it is written, check the
models with TLC on small instances, and prove the properties that matter most
with TLAPS for every instance. Paths are relative to the repository.

## 1. The system

One HTTP request runs one seven-step workflow:

    ValidateRequest -> ResolveIdempotency -> ScreenPolicy -> ReserveInventory
      -> AuthorizePayment -> RecordDecision -> CompleteAuthorization

Many executions run at once. They share two things: the *effect ledger*, in
memory behind one mutex, and the *decision store*, in PostgreSQL (or in memory
in the tests). Nothing else connects them; there is no lock around a workflow.

| component | code | state | operations |
|---|---|---|---|
| workflow | `backend/src/domain.rs` | per execution: `WorkflowState` (replayed, result, reservation id, payment id) | the seven transitions |
| effect ledger | `domain.rs`, `EffectState` | reservations and payments **per order**, event log, traces | reserve, authorize, compensate, trace |
| decision store | `backend/src/store.rs` | rows unique **per idempotency key**, one audit row per decision | find, record, decisions, audits |
| HTTP contract | `backend/src/http_contract.rs` | none | outcome and fault code to status |
| evidence endpoint | `domain.rs` `evidence`, `native.rs` | none of its own | three reads, one answer |
| request validation | `domain.rs` `validate_request` | none | the checks, in order |
| native server | `backend/src/native.rs`, packaged `ranvier-http` | connections, executions | managed run, cancellation, drain |
| hybrid server | `backend/src/hybrid.rs` | connections in flight | concurrency limit, drain with a deadline |
| startup | `backend/src/startup.rs`, `store.rs` `initialize` | attempts; the tables in the database | configure, connect with bounded retries, create the tables, bind |
| plain Axum control | `plain-axum-control/src` | as the workflow, the store and the server | a second implementation without the framework |
| registry tools | `scripts/candidate-cargo.mjs`, `serve-candidate-registry.mjs` | the registry processes and their port | find or start, use, stop |
| page and proxy | `frontend/` | a button, a result, four counters | authorize, refresh |
| gates, smoke, deployment, recorded evidence | `scripts/`, `consumer-smoke/`, `docker/`, `evidence/` | | linear scripts and data |

### What is hard, and what correctness means

* **Two identities.** Idempotency is per key and request digest; effects are
  per order (`reservation_id` and `payment_id` are hashes of the order id). Two
  keys on one order, or two bodies with one key, share effects that each
  execution compensates on its own. Correct: no effect is left without a
  decision, an execution or an operator that accounts for it.
* **The unknown commit.** The answer of `COMMIT` can be lost, and the commit
  can land later, after the reconciling lookup. Correct: what a client was told
  is decided stays decided; each key has one decision with exactly one audit.
* **Stale checks.** `ResolveIdempotency` looks the key up several awaits before
  `RecordDecision` writes. Correct: a 4xx is final, a 409 is backed by a row of
  another request, a twin gets the outcome of the row that won.
* **Dropped futures and restarts.** A client that goes away, or the end of the
  drain, drops a handler at an await; a crash loses the ledger but not the rows.
  One such await is between a compensation and the fault that reports it.
  Correct: what is undone is told, unless nobody is left to tell it.
* **A snapshot read in three parts.** Evidence must not show a decision without
  its audit although the tables are read at different times.
  The page shows it after an answer, while refreshes overlap. Correct: who is
  shown "ok" is then shown the decision.
* **Waiting.** An `INSERT` waits for the open transaction that holds its key.
* **Two processes, one database.** The native and the hybrid service may run at
  the same time; each has a ledger and a lifetime of its own. Correct: to their
  clients they are one register.
* **Starting and stopping.** A start may fail or be killed between the two tables;
  a drain races its deadline. Correct: nothing is served without the schema,
  nobody is cut off before the deadline, and both ends come.
* **One port for several wrappers.** Two runs of cargo may start a registry each.
  The port is checked before cargo runs and never after; another checkout may
  take it meanwhile. Correct: no registry is left behind, none is taken from its
  owner, and a foreign one serves a cargo only in the gap the code leaves.

`PROJECT.json` lists these at their lines, with the properties that cover them.

## 2. The modules

| module | models | extends |
|---|---|---|
| `HttpContract` | fault codes, their order in `validate_request`, `FaultStatus` | |
| `EffectLedger` | `EffectState`: `Reserve`, `Authorize`, `Compensate` | |
| `DecisionStore` | rows, audits, commits whose answer was lost | |
| `OrderAuthorization` | the workflow over the three | all of the above |
| `OrderContract` | the abstract promise: a register and replies | |
| `OrderRefinement` | the mapping of the workflow to the promise | `OrderAuthorization` |
| `EvidenceReader` | evidence reads beside the workflow, and the status of their faults | `OrderAuthorization` |
| `AtomicStore` | what the workflow takes `record` to be | `DecisionStore` |
| `PgDecisionStore` | the SQL transaction, statement by statement | `DecisionStore` |
| `RequestValidation` | what makes a field invalid | `HttpContract` |
| `TwoServices` | the native and the hybrid process over one database | `DecisionStore`, two instances of `OrderRefinement` |
| `ReferencePage` | the page, its button and its counters | `EvidenceReader` |
| `PlainControl` | the control's own workflow, validation and statuses | contract, validation, ledger, store; instances of `PgDecisionStore` and `OrderAuthorization` |
| `ServiceProcess` | each of the three services, from start to end and again | |
| `CandidateRegistry` | cargo wrappers and the registries they start | |
| `MCRequests` | the requests of the instances | `RequestValidation` |
| `MCOrderAuthorization`, `MCTwoServices`, `MCReferencePage`, `MCPgDecisionStore`, `MCPlainControl`, `MCServiceProcess`, `MCCandidateRegistry` | instances for TLC | |
| `OrderAuthorizationProof` | proofs: type correctness, locality of steps, durability of answers, decisions and audits, the same beside another service | `OrderAuthorization` |
| `OrderAuthorizationPromises` | proofs: the refinement of `OrderContract`, faults and traces; no effect is left behind, the event log, what is told of it; all of it beside another service | `OrderRefinement`, `OrderAuthorizationProof` |
| `TwoServicesProof` | proofs: two services over one database | `TwoServices`, two instances of `OrderAuthorizationPromises` |
| `PlainControlProof` | proofs: the control behaves as the canonical service, its statuses and its log | `PlainControl`, an instance of `OrderAuthorizationPromises` |
| `PgDecisionStoreProof` | proofs: the refinement of `AtomicStore`, audits | `PgDecisionStore` |
| `ReferencePageProof` | proofs: the evidence snapshot and the page | `ReferencePage`, `OrderAuthorizationProof` |
| `ServiceProcessProof` | proofs: schema, drain | `ServiceProcess` |
| `CandidateRegistryProof` | proofs: which registry serves, and how long | `CandidateRegistry` |

### State and actions against the code

An *attempt* is one HTTP request; a retry is another attempt with the same
request. `pc[a]` is the transition about to run, `workflow[a]` the
`WorkflowState` and the outcomes a compensation has returned (`undone`),
`pending[a]` the code of the fault the transition is working on, `answer[a]` the
envelope sent to the client, `traces[a]` the entries of this execution in the
trace log.

* One action is one transition, from its "entered" trace to the next one's, with
  the effect operation it calls, unless it changes what others see and answers
  later: then it is cut at its awaits. In the others the state that other
  executions can see changes once, so cutting them finer adds interleavings of
  trace entries only. Two entries of different executions are never compared, so
  the log is kept per execution.
* `RecordDecision` is cut at its awaits, where the world can change: the store's
  `record` (`RecordReplayed`, `RecordWriteFailure`, `RecordDefiniteFailure`,
  `RecordInserted`, `RecordCommitLost`, `RecordExisting`), the lookup after an
  unknown commit (`Reconcile`), the compensation (`CompensateDecision`), which
  runs in one lock, and what follows it (`ReturnFault`): `trace()` waits for the
  lock of the ledger again (`domain.rs:860`, `889`, `911`), and only then is the
  fault returned. A decline does the same in `AuthorizePayment`
  (`domain.rs:729-735`). The branch of a concurrent conflict
  (`domain.rs:831-848`) writes no entry; its fault still passes the Axon and the
  adapter, packaged code whose awaits are not modelled, so a drop is allowed
  there as well.
* `record` is one atomic step in both stores: a write lock in memory, a
  transaction in PostgreSQL. What PostgreSQL adds is explicit: `unsettled` holds
  the rows whose `COMMIT` was sent and whose answer nobody gets any more.
  They are invisible to `Find`, they hold the unique index entry of their key
  (`Locked`: an insert with the key waits), and they end either way (`Settle`).
* `StoreFaults` is the set of codes with which the store may fail, by the
  certainty the code gives them: `DefiniteCodes` before `COMMIT`,
  `ConflictPathCodes` on the path that found an existing row (classified as
  unknown although nothing was written), `CommitLost`. A failure is a choice at
  every call.
* `PgDecisionStore` justifies that step: a call is `begin`, the check of the key,
  the insertion, the audit, `COMMIT` sent, executed and acknowledged, or the
  lookup and `ROLLBACK`; the callers and the server interleave at every
  statement. `INSERT .. ON CONFLICT` is two steps because PostgreSQL makes it
  two (it looks the key up, then enters the row into all indexes and backs out
  when it lost a race). It is external behaviour, as are execution and abortion
  of a commit; what `record` makes of every outcome is the code's.
  `ImplementsAtomicStore` maps the row to its `COMMIT`. The workflow module
  merges `Store` with `ReportStored`; between the two only a crash of the caller
  or a lost answer can come, and both are steps of the workflow module as well.
* `TwoServices` runs two copies of the workflow, each with its own attempts and
  ledger, over one set of rows. A crash takes one of them down, a client that
  goes away drops one future of one of them (`MayDrop`).
* `EvidenceReader` reads decisions, audits and ledger at three moments
  (`OrderResources::evidence`). An evidence fault gets its status from the
  adapter: `hybrid.rs` passes it through `AuthorizationHttpResponse::fault`,
  `native.rs` leaves it to the framework's `get_json_out` (external).
* `ReferencePage` cuts the script at its awaits: a click up to its `fetch`
  (`Click`), its end (`ShowAnswer`, `ShowFailure`, with the `finally`), the
  refreshes (`BeginRead`, `ShowEvidence`). The proxy gives a fetch up after 30
  seconds, so one may fail at any time, the execution behind it going on.
* `PlainControl` is translated from the control's own `domain.rs`, `store.rs` and
  `http.rs`, not derived from `OrderAuthorization`: the `Err` in hand is a
  record, the body is validated by its own predicate (`Offends`), and `record`
  is taken statement by statement. It is then mapped to `OrderAuthorization` and
  shown to be one of its behaviours, which also shows that cutting `record` into
  statements adds no behaviour to the workflow. After every compensation it awaits
  its trace, on the concurrent conflict too, so `ReturnUndone` is one action for
  all branches, and its entry is what the mapping takes out on the conflict.
* `ServiceProcess` is separate from the workflow: a handler takes a while, or
  forever, and `Drop` in the workflow is what the end of a handler is to it. What
  axum, tower, hyper and `ranvier-http` do is external: a task per connection
  that outlives the server's future, the signal that all of them watch, a
  first-come semaphore per route (`Router::layer` applies the
  `ConcurrencyLimitLayer` to each route; the native server has none), and for
  the native server the cancellation of its executions and the abortion of what
  is left at the deadline. The repository's part is the start, the order of
  signal and drain, the `select`, the timeout, and what follows from their
  outcome. The branch for a closed signal channel is left out: the shutdown
  future of the process cannot panic. After a timeout the connection tasks go on
  until the runtime is dropped, hence `Exit` as a step. The database survives
  `StartAgain`, with the tables that exist.
* `CandidateRegistry`: a wrapper is where `candidate-cargo.mjs` is (`looking` and
  `awaiting` are the two calls of `registryReady`), a registry is a process that
  listens if the port is free and crashes otherwise. `spawnSync` blocks the
  wrapper, the `finally` sends one signal, and node leaves when its child has.
  The registry of another candidate may listen from before or be started at any
  time, also while a cargo runs; it and the one started by hand are started once
  in a behaviour, and each wrapper starts one. `found` is the registry whose
  health a wrapper's last probe took for its own candidate's. The program keeps
  no such thing; it is there to say whom a cargo was served by.
* The two lookups are one `Find`; the first one maps a failure to
  `idempotency_lookup_failed`, the second to the fault of the commit.
* `Drop` ends an attempt at any await between its actions, that between undoing
  and answering included; `AbandonCommit` is the drop while COMMIT
  runs, `Restart` drops every future and clears the ledger and the traces.

Data is abstracted where no property looks: a request is a record of order, key,
body, fixture and the set of validation checks it fails, which `Flaws` computes
from the body's lengths, character classes and amounts. SHA-256 is
taken as injective, so a request stands for its digest. An entry of a map that
is `false` and one that is absent are the same to every reader.

Not modelled because they cannot happen here: `digest`/`serialize` failures (the
types serialize), `decision_conflict_unresolved` (rows are never deleted, and
the lookup sees the row that made the insert do nothing under READ COMMITTED),
decoding failures of a row the service wrote, and the saturation of the 64-bit
sequence numbers. The two `workflow_state_invalid` returns and
`workflow_result_missing` are not actions either; that they are unreachable is a
property that is checked and proved.

## 3. What is checked

Properties, by the hazard they are for:

| property | says |
|---|---|
| `ImplementsContract` | the service implements `OrderContract`: one decision per key, for the first eligible request, and replies that follow the register |
| `AnsweredIsDurable` | a client told "ok" was told what is durable, and it stays |
| `ClientFaultIsFinal` | a 4xx request is never decided; a 409 has a row behind it |
| `NoOrphanedEffects` | an active effect belongs to an approved order, a dropped execution, one that still runs and has not been through its compensation, or one that called an operator |
| `OneAuditedDecisionPerKey` | rows are unique per key, audits and rows match one to one |
| `EventsTellLedger` | the log of effect events determines the active sets; no effect is applied or undone twice in a row |
| `WorkflowStateIsValid` | the internal faults are unreachable |
| `FaultsAreConsistent` | retryable goes with 503 only; an operator is asked for only when nothing was compensated |
| `TracesTellAnswers` | the last trace entry tells the answer, with the one exception the code makes |
| `UndoneEffectsAreTold` | every void and release in the log is reported as applied by an answer of its own, is still to be, or was made by an execution whose future was dropped before it answered |
| `OneRegister`, `AnswersAreDurable` | the same promise for two services over one database |
| `ArrivalsEnd`, `EffectsAreResolved` | executions end; effects are approved or undone |
| `NoUnauditedDecision`, `ReadsEnd` | the evidence snapshot |
| `EvidenceShowsAnswer` | who is shown "ok" is then shown the decision |
| `ButtonRecovers` | the page can be used again, whatever becomes of a click |
| `ImplementsAtomicStore` | the SQL transaction is one atomic step; a definite failure has written nothing and an unknown one may have |
| `RecordsReturn` | no call of `record` waits or backs out forever, although no statement is made to fail |
| `BehavesAsCanonical` | the control does nothing the canonical service does not, but for one trace entry |
| `StatusesAgree` | the control's own status mapping agrees with the canonical one on every answer |
| `LogTellsResponse` | the control's last trace entry tells its answer, without exception |
| `ServesWithSchema` | no request is served before both tables exist |
| `StartupEnds` | a start serves or fails |
| `CutOnlyAfterDeadline` | a request is cut off only when the deadline of the drain has passed |
| `ShutdownEnds` | a process told to stop exits, whatever handlers and clients do |
| `HealthAnswers` | health is answered while another route is saturated |
| `ServedOwnCandidate` | a cargo is served the crates of another candidate only if its wrapper had found somebody else's registry and that one has been stopped since |
| `OutlivesOwnCargo` | a registry outlives the cargo of the wrapper that started it |
| `ProbingEnds`, `RegistriesEnd` | a wrapper gets to its cargo or gives up; it leaves no registry behind |

| run | instance | distinct states | shows |
|---|---|---|---|
| `faults` | 2 executions, one order, 17 requests (every fixture, a reused key, a second key, bodies at and beyond the limits), every store fault, drops, restarts | 224,198 | everything the workflow promises under everything that can fail |
| `two_services` | an execution of each service, 3 requests on one key and order (one loses its acknowledgement, one is declined), lost commits, drops, restarts | 11,852 | one register with its audits, and liveness across processes |
| `evidence` | a click, another client, 2 reads, lost commits, failing reads, drops, restarts | 521,872 | the snapshot, the page |
| `pg_record` | 3 calls, 2 bodies of one key, all modes, every statement may fail, callers may go | 354,712 | the record transaction is atomic, and calls return |
| `control` | the instance of `faults`, for the control | 306,193 | parity in every interleaving |
| `server` | 3 services, 3 connections, 2 routes, limit 1, 10 attempts, handlers that may never return | 30,984 | start, drain, deadline, health |
| `registry` | 2 wrappers, 2 probes, a registry by hand, one of another candidate from the start or later, interrupts | 178,524 | one port for all |
| `reconciled_conflict`, `absence_proven`, `pg_twins`, `server_bound`, `native_evidence` | | violation | the disagreements of section 5 |

### Why the bounds are enough

Executions meet only through the ledger of one order and the rows of one key.
Two executions give every pairwise race; a third matters when it meets what two
have left (an unsettled row of the one, the effects of the other). Each attempt
chooses its request freely, so the runs cover retries, reuse of a key, twins and
strangers in every combination of the request set. Requests are few because only
equality of order, key and digest counts. A restart can happen any number of
times. Bodies stand at the limits of each check (0, 1, 128 and 129 bytes,
quantities and amounts of 0 and 1, currencies of 2 and 3 letters) and beyond
several at once, so the order of the checks counts too. Two services have one
execution each: one leaves an unsettled row, or is dropped or crashes with
effects taken, and the other meets the row; what two executions of one process
do to each other is the business of `faults`. (A third execution with drops does
not finish in the time a run should take; the theorems about two services are
for any number.) The page needs two reads to overlap. The limit of 256 is 1, and
three connections saturate a route, queue behind it and use the other one; the
ten connection attempts are ten. Fifty probes are two: what counts is that a
loop can end on either side of another process's step. No run has a bound on the
length of a behaviour: an attempt is used once, so behaviours end. `Quiescent`
stutters when everything has ended, which makes a deadlock anywhere else an
error. Attempts are interchangeable, so they are a symmetry set in the safety
runs (not in the runs with liveness).

### Fairness

`Fairness` is weak fairness of each execution's next step and of `Settle`. The
runtime polls a future that can go on, and every wait inside one (the ledger's
mutex, the store) is granted; PostgreSQL ends a transaction whose connection is
gone, either way. An insert that waits for a locked key is disabled in the
model until the transaction ends, so weak fairness is enough. Nothing is assumed
about clients (`Arrive`), failures, drops or restarts. For the evidence, its own
steps are weakly fair, and a fetch of the page ends because the proxy ends it
(`proxy_read_timeout`). In `TwoServices` each service has the fairness of one.
`PgSpec` assumes of the
statements of a call that the server answers each that can go on (`Answers`), and
that it ends each transaction. No failure is fair there: a statement that
waits for a key is not failed to end its wait, so `RecordsReturn` shows that the
holder of the key ends. A call fails under fairness only where nothing else is
left: the insertion that meets the row of its twin (`Collides`), and the answer to a
`COMMIT` that was rolled back. `ServiceSpec` assumes that main
goes on, that tasks are polled, that timers fire, and that health handlers and
cancelled executions return; nothing of handlers that wait for the store, of
clients or of the operator. `RegistrySpec` assumes that the wrappers' timers
fire, that processes run and that responses are sent; nothing of cargo, which may
run a server, or of the people who start and stop things.

`EffectsAreResolved` excepts an execution whose future was dropped, for which
nobody compensates, and one whose answer calls an operator.

The code does not keep the effects of every approved order: a second key on the
order that meets a definite failure, a lost commit that lands late, or a restart
takes them. What holds is `NoOrphanedEffects` (nothing is left behind) and
`UndoneEffectsAreTold` (nothing is undone without an answer that says so, if there
is an answer). The exception is real: `trace()` is awaited after `compensate()`,
and a future dropped there has voided a payment of which no client is told.
Without it TLC finds the property violated in a few steps. Only the event log
then tells, until a restart clears it.

## 4. What is proved

Everything below holds for every value of the constants, not for the instances
of the runs. The assumptions are those the modules state: requests are
well-typed records (`RequestsAssumption`), the failure switches are Booleans
(`FailuresAssumption`), store faults are codes of the store
(`StoreFaultsAssumption`), rows and modes are rows and modes (`RowsAssumption`),
the services are the three there are and the limit is positive
(`AdaptersAssumption`, `LimitAssumption`), and registries have names of their own
(`RegistriesAssumption`). For two services, a request is sent to one of them
(`AttemptsAssumption`; the requests of both are well-typed, `ServicesAssumption`).
For the control, the flaws a request has in the canonical model are those that
`validate_request` finds in its body (`BodiesAssumption`), so that the theorem
compares two validations of one body; and an `INSERT` may fail
(`CollisionAssumption`), because it does in the primary key collision of section
5, which needs no fault of the database. TLC evaluates every one of them on the
runs.

| theorem | property | module |
|---|---|---|
| `TypesAreCorrect` | `TypeOK` | `OrderAuthorizationProof` |
| `OkAnswersAreDurable` | `AnsweredIsDurable` | `OrderAuthorizationProof` |
| `ClientFaultsAreFinal` | `ClientFaultIsFinal` | `OrderAuthorizationProof` |
| `InternalFaultsAreDead` | `WorkflowStateIsValid` | `OrderAuthorizationProof` |
| `DecisionsAreAudited` | `OneAuditedDecisionPerKey` | `OrderAuthorizationProof` |
| `EffectsAreAccountedFor` | `NoOrphanedEffects` | `OrderAuthorizationPromises` |
| `EventsTellActiveEffects` | `EventsTellLedger` | `OrderAuthorizationPromises` |
| `UndoneEffectsAreReported` | `UndoneEffectsAreTold` | `OrderAuthorizationPromises` |
| `ServiceKeepsContract` | `ImplementsContract` (refinement) | `OrderAuthorizationPromises` |
| `FaultsToldConsistently` | `FaultsAreConsistent` | `OrderAuthorizationPromises` |
| `TracesEndAsAnswered` | `TracesTellAnswers` | `OrderAuthorizationPromises` |
| `TransactionIsAtomic` | `ImplementsAtomicStore` (refinement) | `PgDecisionStoreProof` |
| `TransactionsAreAudited` | `OneAuditedDecisionPerKey` | `PgDecisionStoreProof` |
| `EvidenceIsAudited` | `NoUnauditedDecision` | `ReferencePageProof` |
| `ClicksAreShown` | `EvidenceShowsAnswer` | `ReferencePageProof` |
| `SchemaBeforeService` | `ServesWithSchema` | `ServiceProcessProof` |
| `GracefulEndCutsNobody` | `CutOnlyAfterDeadline` | `ServiceProcessProof` |
| `BothAnswerDurably` | `AnswersAreDurable` | `TwoServicesProof` |
| `BothAreAudited` | `OneAuditedDecisionPerKey` | `TwoServicesProof` |
| `BothAreOneRegister` | `OneRegister` (refinement) | `TwoServicesProof` |
| `BothKeepPromises` | seven promises of one service, for each of two | `TwoServicesProof` |
| `ControlBehavesAsCanonical` | `BehavesAsCanonical` (refinement) | `PlainControlProof` |
| `LogsTell` | `LogTellsResponse` | `PlainControlProof` |
| `SameStatuses` | `StatusesAgree` | `PlainControlProof` |
| `ControlKeepsPromises` | the same seven promises, for the control | `PlainControlProof` |
| `CargoServedOwn` | `ServedOwnCandidate` | `CandidateRegistryProof` |
| `RegistryOutlivesCargo` | `OutlivesOwnCargo` (action property) | `CandidateRegistryProof` |

Almost none of these invariants is inductive. What each needs beside itself:

**Durability.** `AnsweredIsDurable` needs to know what an execution carries
*before* it answers: `DurableInv` conjoins, with the types,

* `RowsAreVerdicts`: a row, committed or unsettled, holds the verdict of its
  request, and its request is one that can be decided (so a row of a request
  that was refused, or of another outcome, cannot appear later);
* `ExecutionInv(a)`: what execution `a` holds at each `pc`: a result that is
  durable once it has passed `RecordDecision`, a result and effects that fit its
  request before; a pending conflict has a row of another request behind it;
* `AnswerInv(a)`: an answered execution's answer fits the rows.

The argument is by action. Rows only grow, so facts about rows survive every
step of another execution (`StepIsLocal`: a step of one execution changes no
other one's record); a step of the execution itself is one case per action.
The late commit is harmless because an unsettled row is already a verdict.
`OneAuditedDecisionPerKey` adds `AuditInv`: no row is both committed and on its
way, so the commit that lands late cannot write a second audit.

**The refinement of `OrderContract`.** Under `DurableInv`, `AuditInv`, `UntoldInv`
(nobody has been told anything before `answered`) and `RowsAreRequested` (the
request of a row is one that an attempt carries), each step of an
execution is one of three things for a client: nothing, the decision for its
request (the insertion of a row whose key is free), or its answer
(`StepAnswers`), which is one of the contract's replies because `AnswerInv` puts
the row behind it that the contract asks for. A commit that lands late is
`Decide` of an attempt that carries the row's request.

**Two services.** `BothInv` is the invariant of each service (`PromisesInv`) and,
behind every row, a request that somebody sent to one of them. A step of both is a
step of one while the other stands still (`StepsOfOne`), so it remains to show
what the one that stands still needs of the store (`PromisesBeside`): that
decisions do not disappear and that every row is the verdict of its request,
audited once, under a key no other row has. This the moving one's own invariant
says, because the store is the same (`SharedStore`). Nothing has to be known of
the other's executions or its ledger. For `OneRegister`, what a single step shows
to clients (`Shows`: nothing, a decision under a free key, or a justified reply)
is stated without reference to whose attempts there are, so the lemma of one
service serves both.

**The ledger.** `NoOrphanedEffects` adds `HeldInv(a)`: which effects execution `a`
can hold at each `pc`, and that it holds none when the policy decides. Each step
of an execution is then an `EffectStep`: what it adds to the ledger it accounts
for, and what it held it still accounts for, or has undone, or has an approved
order for. The order's other executions only matter through the ledger, so
nothing has to be known about them. `EventsTellLedger` is inductive: an event is
appended exactly when the active set changes. `UndoneEffectsAreTold` compares two
counts: a step that logs an undoing is the compensation of one execution that is
then one of those who know of it (`Knowers`: it has told, or has its outcomes and
has not answered) and was not before, so both counts grow by one (`CountedStep`,
`ToldInv`). It stays one of them: its answer tells what the compensation returned,
and when it is dropped the knowledge goes with it.

**The record transaction.** `HoldInv` says what the unique index does for the
statements: a key has one holder from the insertion of its row to the end of the
transaction, and no other row of the key is committed or on its way meanwhile.
So when the server executes a `COMMIT` the key is free in `AtomicStore`, when
nobody waits for it any more its row becomes an orphan that was not one before,
and every other statement is a stutter or a failure that has written nothing.

**The control.** `ControlInv` is what makes the methods and statements of the
control actions of the workflow. Between the check of the key and the end of the
transaction other executions go on, so a call has to remember what still holds:
`HoldInv`, that its key is its own from the insertion of its row to the `COMMIT`;
`CallInv`, that the row it asks for is the one of its state, that the log still ends
with its entry, and that a row it has found is still there (rows are never
deleted); `HandledInv`, which `Err` is in hand and that its `retryable` is the flag
which the workflow computes anew from the code; `LogInv`, that the log of an
answered execution ends as its response says, which is `LogTellsResponse`. Every
method is then one action, every statement a stutter except the one that ends the
call (`BeginStep` to `CommitStep`). That the two validations agree is an argument
over seven checks in the same order (`OffendsAreFlaws`, `FirstOffence`,
`NoOffence`). From the refinement and `PromisesInv` follows `ControlKeepsPromises`:
the durability of answers, the audits, the ledger, for a service whose own runs do
not check them.

**The page.** `ReadInv` relates what a read has taken so far to what is there:
decisions before audits, both of which only grow. `ClickInv` says that the refresh
after a click has begun after its answer, and so that, once it has read the
decisions, it has the one that an "ok" was about, which was durable by then.

**The service process.** `PhaseInv` says who can be connected in which phase of
main. That nobody is cut off after a graceful end needs that no connection is
queued then, and so `QueueInv`: those who wait for the permit of a route are
exactly the connections that are queued there, each once. `QueueLeft` is the one
argument about a queue from which an element is taken, at its head (`Admit`) or
anywhere (`Disconnect`).

**The registries.** A wrapper checks the port long before its cargo uses it. The
registry it found listens still, or was somebody else's and has been stopped
(`FoundInv`): a wrapper's own is stopped by nobody else, and not while its cargo
runs (`StaysWithCargo`), and a registry that has let go never listens again
(`LetsGo`). While the one it found listens, the port has no other holder
(`OneHolder`), so a cargo that is served by a foreign one has lost a borrowed one.

The proofs found two places where the model was ambiguous rather than wrong:
guards of a `CASE` that overlapped (`WorkflowVerdict`, `ReplyClass`), where TLC
takes the first arm and TLA+ leaves it open. They are exclusive now, in the order
of the code.

Checked by TLC only:

* liveness (`ArrivalsEnd`, `EffectsAreResolved`, `ReadsEnd`, `ButtonRecovers`,
  `RecordsReturn`, `StartupEnds`, `ShutdownEnds`, `HealthAnswers`, `ProbingEnds`,
  `RegistriesEnd`): fairness and `ENABLED` are out of the proof system's reach.
  `OneRegister`, `ImplementsContract`, `ImplementsAtomicStore` and
  `BehavesAsCanonical` are refinements of initial states and steps; none of
  them states fairness.

Every invariant, action property and refinement that a run of section 3 checks is
proved.

## 5. Disagreements between the code and what it says

* `ReconciledConflictIsSafe` (run `reconciled_conflict`). A comment says of the
  compensation after a reconciled conflict that it is safe, because the request
  did not commit (`domain.rs:879-881`). The effects it compensates belong to the
  order: when the request that did commit is on the same order, its approved
  payment is voided.
* `AbsenceProvenIsFinal` (run `absence_proven`). A fault says "decision absence
  was proven after an unknown commit outcome" (`domain.rs:919`). The lookup sees
  committed rows only; a commit in flight lands after it, and the decision the
  client was told is absent is durable, its effects undone.
* `ConcurrentRequestsBounded` (run `server_bound`). README.md:45-46 says that the
  hybrid path bounds concurrent requests at 256. The layer is applied to each
  route, with a semaphore each, so every route admits 256. The same separation
  is what makes `HealthAnswers` hold.
* `EvidenceFaultsAreMapped` (run `native_evidence`). README.md:43-44 calls
  `http_contract.rs` the single status mapping of the native and the hybrid path.
  A failed evidence read passes it in `hybrid.rs` (503) and not in `native.rs`,
  where the framework answers 500.
* `DefiniteFailureProvesAbsence` (run `pg_twins`). A failed `INSERT` is a definite
  failure, "decision and audit were not committed" (`domain.rs:868`). `ON
  CONFLICT (idempotency_key)` does not cover the primary key `decision_id`, which
  identical requests share: of two of them that check the key together, the
  second fails on the primary key when the first has committed the same
  decision, without any fault of the database. This needs both to pass the
  check before either inserts, so a test that starts two requests seldom meets it.

In the three cases about decisions, the durable decisions stay correct
(`ImplementsContract` holds); it is the effects, or the answer, that no longer
match them.

## 6. Not modelled, and the plan

The plan is carried out. What a next step could add: the control as a third
process beside the other two over one database, which the shape of `PromisesBeside`
is ready for, and the pool of connections as a resource that is counted.

Left out inside the modelled parts: the health text of the page, static files
and the proxy's headers; the files a registry serves and how they are built; the
count of the connection pool, whose exhaustion is one way for `begin` to fail; a
wrapper that is killed alone (its registry stays, as one started by hand); which
counters stay when refreshes overlap, which nothing promises.

Left out for good: `consumer-smoke` (a compile-time probe), the gates and build
scripts (linear, they compare files), deployment files, the packaged crates
(binary archives, used through their interface), and recorded evidence.

## 7. Running

    tlasany OrderAuthorization.tla
    tlc -workers 2 -config MCFaults.cfg MCOrderAuthorization.tla
    tlc -workers 2 -config MCTwoServices.cfg MCTwoServices.tla
    tlc -workers 2 -config MCEvidence.cfg MCReferencePage.tla
    tlc -workers 2 -config MCPgFaults.cfg MCPgDecisionStore.tla
    tlc -workers 2 -config MCControl.cfg MCPlainControl.tla
    tlc -workers 2 -config MCServer.cfg MCServiceProcess.tla
    tlc -workers 2 -config MCRegistry.cfg MCCandidateRegistry.tla
    tlapm OrderAuthorizationPromises.tla
    tlapm TwoServicesProof.tla
    tlapm PlainControlProof.tla
    tlapm PgDecisionStoreProof.tla

`PROJECT.json` names every run, the mutant that each property catches, and the
lines of the source each definition stands for. A mutant is an operator named in
its comment, next to the definition it would replace.
