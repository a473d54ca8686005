---------------------------- MODULE ServiceProcess ----------------------------
(***************************************************************************)
(* One service from main to the end of its process, for the three that     *)
(* answer the same routes: the native one (backend/src/native.rs on the    *)
(* managed server of ranvier-http), the hybrid one (backend/src/hybrid.rs) *)
(* and the plain Axum control (plain-axum-control/src, whose http.rs has   *)
(* the code of hybrid.rs).  What a handler does is OrderAuthorization;     *)
(* here it takes a while, or forever.                                      *)
(*                                                                         *)
(* axum serves every connection in a task of its own, which outlives the   *)
(* server's future and ends with the runtime.  Router::layer applies the   *)
(* ConcurrencyLimitLayer to each route, so each gets its own semaphore,    *)
(* which admits in order of arrival; the native server has no limit.  Time *)
(* is abstract: the deadline of a drain may pass at any moment after its   *)
(* start, a connection attempt may fail.                                   *)
(***************************************************************************)
EXTENDS Naturals, FiniteSets, Sequences

CONSTANTS
    Adapters,       \* the services considered
    Connections,    \* the connections that clients may have
    Routes,         \* the routes of build_hybrid_router
    Prompt,         \* the routes whose handlers never wait for the store
    Limit,          \* 256
    ConnectAttempts \* 10

ASSUME AdaptersAssumption == Adapters \subseteq {"native", "hybrid", "control"}
ASSUME LimitAssumption == Limit \in Nat \ {0}
ASSUME PromptAssumption == Prompt \subseteq Routes
ASSUME ConnectAssumption == ConnectAttempts \in Nat \ {0}

VARIABLES
    adapter,        \* which service this is
    phase,          \* where main is, or how it has ended
    attempts,       \* the connection attempts that have failed
    tables,         \* the tables that exist in the database
    exited,         \* has the process ended?
    shutdown,       \* of the signal: none, sent (to the signal task), told (to
                    \* the server and its connections)
    listening,      \* are connections accepted?
    conn,           \* per connection: outside, idle, queued, handling or cut
    route,          \* per connection, the route of its last request
    closing,        \* the connections whose task has seen the signal
    waiting         \* per route, the requests that wait for a permit

startVars == <<attempts, tables>>
lifecycleVars == <<adapter, phase, startVars, exited, shutdown, listening>>
trafficVars == <<conn, route, closing, waiting>>
serviceVars == <<lifecycleVars, trafficVars>>

Schema == {"decisions", "audit"}
Starting == {"configuring", "connecting", "pausing", "creating_decisions",
             "creating_audit", "binding"}
Serving == phase \in {"serving", "draining"}

ServiceInit ==
    /\ adapter \in Adapters
    /\ phase = "configuring"
    /\ attempts = 0
    /\ tables = {}
    /\ exited = FALSE
    /\ shutdown = "none"
    /\ listening = FALSE
    /\ conn = [c \in Connections |-> "outside"]
    /\ route \in [Connections -> Routes]
    /\ closing = {}
    /\ waiting = [r \in Routes |-> <<>>]

-----------------------------------------------------------------------------
(***************************************************************************)
(* Startup.  An error on the way makes main return it.                     *)
(***************************************************************************)
StartsWith(now, next) ==
    /\ ~exited
    /\ phase = now
    /\ phase' = next
    /\ UNCHANGED <<adapter, exited, shutdown, trafficVars>>

\* the profile, its startup policy and DATABASE_URL, or what is wrong with them
Configure ==
    /\ adapter # "control"
    /\ StartsWith("configuring", "connecting") \/ StartsWith("configuring", "failed")
    /\ UNCHANGED <<startVars, listening>>

\* DATABASE_URL and a deadline between 1 and 300 seconds, or what is wrong
ConfigureControl ==
    /\ adapter = "control"
    /\ StartsWith("configuring", "connecting") \/ StartsWith("configuring", "failed")
    /\ UNCHANGED <<startVars, listening>>

Connected ==
    /\ StartsWith("connecting", "creating_decisions")
    /\ attempts' = 0
    /\ UNCHANGED <<tables, listening>>

\* Mutant of ConnectFails: attempts are not counted
ConnectFailsUncounted ==
    /\ StartsWith("connecting", "pausing")
    /\ UNCHANGED <<startVars, listening>>

\* the last attempt is not followed by a pause
ConnectFails ==
    /\ attempts' = attempts + 1
    /\ StartsWith("connecting", IF attempts' < ConnectAttempts THEN "pausing"
                                                             ELSE "failed")
    /\ UNCHANGED <<tables, listening>>

Pause ==
    /\ StartsWith("pausing", "connecting")
    /\ UNCHANGED <<startVars, listening>>

\* Mutant of CreateDecisions: a table that exists is taken for the schema
CreateDecisionsOnce ==
    /\ StartsWith("creating_decisions",
                  IF "decisions" \in tables THEN "binding" ELSE "creating_audit")
    /\ tables' = tables \cup {"decisions"}
    /\ UNCHANGED <<attempts, listening>>

\* CREATE TABLE IF NOT EXISTS, a transaction of its own for each table
CreateDecisions ==
    /\ StartsWith("creating_decisions", "creating_audit")
    /\ tables' = tables \cup {"decisions"}
    /\ UNCHANGED <<attempts, listening>>

CreateAudit ==
    /\ StartsWith("creating_audit", "binding")
    /\ tables' = tables \cup {"audit"}
    /\ UNCHANGED <<attempts, listening>>

\* also when another service creates the table at the same moment: PostgreSQL
\* looks for the table before it creates it
CreateFails ==
    /\ StartsWith("creating_decisions", "failed") \/ StartsWith("creating_audit", "failed")
    /\ UNCHANGED <<startVars, listening>>

Bind ==
    /\ \/ StartsWith("binding", "serving") /\ listening' = TRUE
       \/ StartsWith("binding", "failed") /\ UNCHANGED listening
    /\ UNCHANGED startVars

StartupStep ==
    \/ Configure
    \/ ConfigureControl
    \/ Connected
    \/ ConnectFails
    \/ Pause
    \/ CreateDecisions
    \/ CreateAudit
    \/ CreateFails
    \/ Bind

\* no handler is installed for signals before the service serves
KilledStarting ==
    /\ phase \in Starting
    /\ StartsWith(phase, "killed")
    /\ UNCHANGED <<startVars, listening>>

-----------------------------------------------------------------------------
(***************************************************************************)
(* Connections and their requests.                                         *)
(***************************************************************************)
\* Mutant of Admitted: one semaphore for all routes
AdmittedTogether(r) == { c \in Connections : conn[c] = "handling" }

\* the requests that hold a permit of the route
Admitted(r) == { c \in Connections : conn[c] = "handling" /\ route[c] = r }

Open(c) == conn[c] \in {"idle", "queued", "handling"}

Moves(c, to) ==
    /\ conn' = [conn EXCEPT ![c] = to]
    /\ UNCHANGED lifecycleVars

Connect(c) ==
    /\ listening
    /\ conn[c] = "outside"
    /\ Moves(c, "idle")
    /\ UNCHANGED <<route, closing, waiting>>

\* a request arrives at a route and asks its semaphore for a permit
Send(c) ==
    /\ ~exited
    /\ conn[c] = "idle"
    /\ Moves(c, "queued")
    /\ \E r \in Routes :
         /\ route' = [route EXCEPT ![c] = r]
         /\ waiting' = [waiting EXCEPT ![r] = Append(@, c)]
    /\ UNCHANGED closing

Admit(r) ==
    /\ ~exited
    /\ waiting[r] # <<>>
    /\ adapter = "native" \/ Cardinality(Admitted(r)) < Limit
    /\ Moves(Head(waiting[r]), "handling")
    /\ waiting' = [waiting EXCEPT ![r] = Tail(@)]
    /\ UNCHANGED <<route, closing>>

\* a handler that ends by itself: it does not wait for the store, or the native
\* server has cancelled it, whose framework then answers 503
EndsItself(c) ==
    \/ route[c] \in Prompt
    \/ adapter = "native" /\ shutdown = "told"

\* the handler returns; a connection that has seen the signal then closes
Respond(c) ==
    /\ conn[c] = "handling"
    /\ Moves(c, IF c \in closing THEN "outside" ELSE "idle")
    /\ closing' = closing \ {c}
    /\ UNCHANGED <<route, waiting>>

\* the client is gone: its request, queued or running, is dropped
Disconnect(c) ==
    /\ Open(c)
    /\ Moves(c, "outside")
    /\ closing' = closing \ {c}
    /\ \/ conn[c] # "queued" /\ UNCHANGED waiting
       \/ /\ conn[c] = "queued"
          /\ \E i \in DOMAIN waiting[route[c]] :
               /\ waiting[route[c]][i] = c
               /\ waiting' = [waiting EXCEPT ![route[c]] =
                                SubSeq(@, 1, i - 1) \o SubSeq(@, i + 1, Len(@))]
    /\ UNCHANGED route

\* the task of a connection sees the signal; an idle one closes
SeeSignal(c) ==
    /\ ~exited
    /\ shutdown = "told"
    /\ Open(c)
    /\ c \notin closing
    /\ \/ /\ conn[c] = "idle"
          /\ Moves(c, "outside")
          /\ UNCHANGED closing
       \/ /\ conn[c] # "idle"
          /\ closing' = closing \cup {c}
          /\ UNCHANGED <<conn, lifecycleVars>>
    /\ UNCHANGED <<route, waiting>>

-----------------------------------------------------------------------------
(***************************************************************************)
(* The drain.                                                              *)
(***************************************************************************)
Axum == adapter \in {"hybrid", "control"}

\* the operating system's signal reaches the service's signal future
Shutdown ==
    /\ Serving
    /\ shutdown = "none"
    /\ shutdown' = "sent"
    /\ UNCHANGED <<adapter, phase, startVars, exited, listening, trafficVars>>

\* axum's signal task ends, and axum drops the receiver that all watch
Tell ==
    /\ Axum
    /\ ~exited
    /\ shutdown = "sent"
    /\ shutdown' = "told"
    /\ UNCHANGED <<adapter, phase, startVars, exited, listening, trafficVars>>

StopListening ==
    /\ Axum
    /\ Serving
    /\ listening
    /\ shutdown = "told"
    /\ listening' = FALSE
    /\ UNCHANGED <<adapter, phase, startVars, exited, shutdown, trafficVars>>

\* drain_started_tx was sent: select takes the other branch
StartDrain ==
    /\ Axum
    /\ phase = "serving"
    /\ shutdown # "none"
    /\ phase' = "draining"
    /\ UNCHANGED <<adapter, startVars, exited, shutdown, listening, trafficVars>>

\* the accept loop sees the signal, cancels every execution and ends
CancelAndDrain ==
    /\ adapter = "native"
    /\ phase = "serving"
    /\ shutdown = "sent"
    /\ phase' = "draining"
    /\ shutdown' = "told"
    /\ listening' = FALSE
    /\ UNCHANGED <<adapter, startVars, exited, trafficVars>>

\* Mutant of Finish: the end of accepting is taken for the end of serving
FinishAtOnce ==
    /\ Serving
    /\ ~listening
    /\ phase' = "ok"
    /\ UNCHANGED <<adapter, startVars, exited, shutdown, listening, trafficVars>>

\* the server's future ends when its last connection has
Finish ==
    /\ Serving
    /\ ~listening
    /\ \A c \in Connections : ~Open(c)
    /\ phase' = "ok"
    /\ UNCHANGED <<adapter, startVars, exited, shutdown, listening, trafficVars>>

\* Mutant of Deadline: the drain waits for the connections
DeadlineUnbounded ==
    /\ phase = "draining"
    /\ \A c \in Connections : ~Open(c)
    /\ phase' = "timed_out"
    /\ listening' = FALSE
    /\ UNCHANGED <<adapter, startVars, exited, shutdown, trafficVars>>

\* the timeout elapses: axum's future is dropped with its listener and main
\* returns TimedOut; the native server aborts its connections and returns Ok
Deadline ==
    /\ phase = "draining"
    /\ phase' = IF Axum THEN "timed_out" ELSE "aborted"
    /\ listening' = FALSE
    /\ UNCHANGED <<adapter, startVars, exited, shutdown, trafficVars>>

\* main has returned and the runtime drops the tasks that are left
Exit ==
    /\ ~Serving
    /\ phase \notin Starting
    /\ ~exited
    /\ exited' = TRUE
    /\ conn' = [c \in Connections |-> IF Open(c) THEN "cut" ELSE conn[c]]
    /\ closing' = {}
    /\ waiting' = [r \in Routes |-> <<>>]
    /\ UNCHANGED <<adapter, phase, startVars, shutdown, listening, route>>

\* a process that has ended is started again; the database is still there
StartAgain ==
    /\ exited
    /\ exited' = FALSE
    /\ phase' = "configuring"
    /\ attempts' = 0
    /\ shutdown' = "none"
    /\ listening' = FALSE
    /\ conn' = [c \in Connections |-> "outside"]
    /\ UNCHANGED <<adapter, tables, route, closing, waiting>>

ServiceNext ==
    \/ StartupStep
    \/ KilledStarting
    \/ \E c \in Connections :
          Connect(c) \/ Send(c) \/ Respond(c) \/ Disconnect(c) \/ SeeSignal(c)
    \/ \E r \in Routes : Admit(r)
    \/ Shutdown
    \/ Tell
    \/ StopListening
    \/ StartDrain
    \/ CancelAndDrain
    \/ Finish
    \/ Deadline
    \/ Exit
    \/ StartAgain

\* tasks that can go on are polled, timers fire and the database answers;
\* nothing is assumed of clients, of the operator, or of handlers that wait
\* for the store
ServiceSpec ==
    /\ ServiceInit
    /\ [][ServiceNext]_serviceVars
    /\ WF_serviceVars(StartupStep)
    /\ \A r \in Routes : WF_serviceVars(Admit(r))
    /\ \A c \in Connections : WF_serviceVars(SeeSignal(c))
    /\ \A c \in Connections : WF_serviceVars(EndsItself(c) /\ Respond(c))
    /\ WF_serviceVars(Tell)
    /\ WF_serviceVars(StopListening \/ Finish \/ StartDrain \/ CancelAndDrain)
    /\ WF_serviceVars(Deadline)
    /\ WF_serviceVars(Exit)

-----------------------------------------------------------------------------
(***************************************************************************)
(* No request is served before both tables exist, although a start may     *)
(* have failed or been killed between the two.                             *)
(***************************************************************************)
ServesWithSchema == Serving => tables = Schema

(***************************************************************************)
(* A start ends: the database is waited for ten times, not forever.        *)
(***************************************************************************)
StartupEnds == phase = "configuring" ~> phase \notin Starting

(***************************************************************************)
(* A graceful end cuts nobody off: a process that drops a request has run  *)
(* into the deadline of its drain.  (The native one then ends with Ok.)    *)
(***************************************************************************)
CutOnlyAfterDeadline ==
    (\E c \in Connections : conn[c] = "cut") => phase \in {"timed_out", "aborted"}

(***************************************************************************)
(* The deadline bounds the drain: a process told to stop exits, whatever   *)
(* its handlers wait for and whatever its clients do.                      *)
(***************************************************************************)
ShutdownEnds == shutdown = "sent" ~> exited

(***************************************************************************)
(* The health check is answered although every permit of the other routes  *)
(* is held by a handler that waits for the store.                          *)
(***************************************************************************)
HealthAnswers ==
    \A c \in Connections :
        conn[c] = "queued" /\ route[c] \in Prompt ~> conn[c] \notin {"queued", "handling"}

(***************************************************************************)
(* "bounds concurrent requests at 256" (README.md:45-46): the requests in  *)
(* their handlers are at most that many.                                   *)
(***************************************************************************)
ConcurrentRequestsBounded ==
    Cardinality({ c \in Connections : conn[c] = "handling" }) <= Limit
=============================================================================
