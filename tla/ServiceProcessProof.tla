------------------------- MODULE ServiceProcessProof -------------------------
(***************************************************************************)
(* The service process: proofs of ServesWithSchema and                     *)
(* CutOnlyAfterDeadline, for any number of connections and routes.         *)
(*                                                                         *)
(* What main has done is told by its phase (PhaseInv); that nobody is cut  *)
(* off after a graceful end needs that no request is left waiting for a    *)
(* permit by then, and so that those who wait for one are exactly the      *)
(* connections that are queued (QueueInv).                                 *)
(***************************************************************************)
EXTENDS ServiceProcess, SequenceTheorems, TLAPS

Ended == {"ok", "timed_out", "aborted", "failed", "killed"}

ServiceTypeOK ==
    /\ adapter \in Adapters
    /\ phase \in Starting \cup {"serving", "draining"} \cup Ended
    /\ tables \subseteq Schema
    /\ exited \in BOOLEAN
    /\ listening \in BOOLEAN
    /\ conn \in [Connections -> {"outside", "idle", "queued", "handling", "cut"}]
    /\ route \in [Connections -> Routes]
    /\ waiting \in [Routes -> Seq(Connections)]

\* the tables that main knows to exist
SchemaInv ==
    /\ phase = "creating_audit" => "decisions" \in tables
    /\ phase \in {"binding", "serving", "draining"} => tables = Schema

\* who can be connected, and who can have been cut off
PhaseInv ==
    /\ listening => Serving
    /\ phase \in Starting \cup {"failed", "killed"} =>
         \A c \in Connections : conn[c] = "outside"
    /\ phase = "ok" => \A c \in Connections : ~Open(c)
    /\ exited => phase \in Ended /\ \A c \in Connections : ~Open(c)
    /\ \A c \in Connections : conn[c] = "cut" =>
         exited /\ phase \in {"timed_out", "aborted"}

(***************************************************************************)
(* The queues: a connection waits for the permit of a route if and only if *)
(* it is queued there, and waits once.                                     *)
(***************************************************************************)
QueueInv ==
    /\ \A r \in Routes : \A i \in DOMAIN waiting[r] :
         conn[waiting[r][i]] = "queued" /\ route[waiting[r][i]] = r
    /\ \A r \in Routes : \A i, j \in DOMAIN waiting[r] :
         waiting[r][i] = waiting[r][j] => i = j
    /\ \A c \in Connections : conn[c] = "queued" =>
         \E i \in DOMAIN waiting[route[c]] : waiting[route[c]][i] = c

ProcessInv == ServiceTypeOK /\ SchemaInv /\ PhaseInv /\ QueueInv

-----------------------------------------------------------------------------
(***************************************************************************)
(* Sequences without one of their elements, or with one more.              *)
(***************************************************************************)
LEMMA WithoutElement ==
    ASSUME NEW S, NEW s \in Seq(S), NEW i \in DOMAIN s, NEW t,
           t = SubSeq(s, 1, i - 1) \o SubSeq(s, i + 1, Len(s))
    PROVE  /\ t \in Seq(S)
           /\ DOMAIN t = 1..(Len(s) - 1)
           /\ \A k \in DOMAIN t : t[k] = IF k < i THEN s[k] ELSE s[k + 1]
<1> DEFINE before == SubSeq(s, 1, i - 1)
           after  == SubSeq(s, i + 1, Len(s))
<1> DEFINE n == Len(s)
<1>1. n \in Nat /\ i \in 1..n /\ DOMAIN s = 1..n
  OBVIOUS
<1>2. /\ before \in Seq(S)
      /\ Len(before) = i - 1
      /\ \A k \in 1..(i - 1) : before[k] = s[k]
  BY <1>1
<1>3. /\ after \in Seq(S)
      /\ Len(after) = n - i
      /\ \A k \in 1..(n - i) : after[k] = s[k + i]
  BY <1>1
<1> HIDE DEF before, after
<1>4. /\ t \in Seq(S)
      /\ Len(t) = Len(before) + Len(after)
      /\ \A k \in 1..(Len(before) + Len(after)) :
           t[k] = IF k <= Len(before) THEN before[k] ELSE after[k - Len(before)]
  <2>1. t = before \o after
    BY DEF before, after
  <2>2. /\ before \o after \in Seq(S)
        /\ Len(before \o after) = Len(before) + Len(after)
        /\ \A k \in 1..(Len(before) + Len(after)) :
             (before \o after)[k] = IF k <= Len(before) THEN before[k]
                                                       ELSE after[k - Len(before)]
    <3>1. before \in Seq(S) /\ after \in Seq(S)
      BY <1>2, <1>3
    <3> QED
      BY <3>1, ConcatProperties
  <2> QED
    BY <2>1, <2>2
<1> HIDE DEF n
<1>5. (i - 1) + (n - i) = n - 1
  BY <1>1
<1>6. /\ Len(t) = n - 1
      /\ \A k \in 1..(n - 1) :
           t[k] = IF k <= i - 1 THEN before[k] ELSE after[k - (i - 1)]
  BY <1>2, <1>3, <1>4, <1>5
<1>7. ASSUME NEW k \in 1..(n - 1), k < i PROVE t[k] = s[k]
  BY <1>1, <1>2, <1>6, <1>7
<1>8. ASSUME NEW k \in 1..(n - 1), ~(k < i) PROVE t[k] = s[k + 1]
  <2>1. /\ k - (i - 1) \in 1..(n - i)
        /\ (k - (i - 1)) + i = k + 1
        /\ ~(k <= i - 1)
    BY <1>1, <1>8
  <2> QED
    BY <1>3, <1>6, <2>1
<1>9. DOMAIN t = 1..(n - 1)
  BY <1>4, <1>6
<1> QED
  BY <1>4, <1>7, <1>8, <1>9 DEF n

LEMMA WithElement ==
    ASSUME NEW S, NEW s \in Seq(S), NEW e \in S
    PROVE  /\ Append(s, e) \in Seq(S)
           /\ Len(s) \in Nat
           /\ DOMAIN s = 1..Len(s)
           /\ DOMAIN Append(s, e) = 1..(Len(s) + 1)
           /\ \A i \in DOMAIN s : Append(s, e)[i] = s[i]
           /\ Append(s, e)[Len(s) + 1] = e
OBVIOUS

LEMMA WithoutHead ==
    ASSUME NEW S, NEW s \in Seq(S), s # <<>>
    PROVE  /\ Head(s) = s[1] /\ 1 \in DOMAIN s
           /\ Tail(s) \in Seq(S)
           /\ DOMAIN Tail(s) = 1..(Len(s) - 1)
           /\ \A k \in DOMAIN Tail(s) : Tail(s)[k] = s[k + 1] /\ k + 1 \in DOMAIN s
           /\ Len(s) \in Nat /\ DOMAIN s = 1..Len(s)
OBVIOUS

-----------------------------------------------------------------------------
(***************************************************************************)
(* The queues, and the requests in their handlers, across one step of a    *)
(* connection.                                                             *)
(***************************************************************************)
Traffic(c) == Connect(c) \/ Send(c) \/ Respond(c) \/ Disconnect(c) \/ SeeSignal(c)

\* a connection that is not queued goes somewhere else
LEMMA QueuesUndisturbed ==
    ASSUME ServiceTypeOK, QueueInv, NEW c \in Connections, NEW to,
           conn[c] # "queued", to # "queued",
           conn' = [conn EXCEPT ![c] = to], route' = route, waiting' = waiting
    PROVE  QueueInv'
<1>1. \A r \in Routes : \A i \in DOMAIN waiting[r] : waiting[r][i] \in Connections
  BY DEF ServiceTypeOK
<1>2. \A d \in Connections : conn'[d] = IF d = c THEN to ELSE conn[d]
  BY DEF ServiceTypeOK
<1> QED
  BY <1>1, <1>2 DEF QueueInv

LEMMA SendQueues ==
    ASSUME ServiceTypeOK, QueueInv, NEW c \in Connections, Send(c)
    PROVE  QueueInv' /\ waiting' \in [Routes -> Seq(Connections)]
                     /\ route' \in [Connections -> Routes]
<1>1. PICK r \in Routes : /\ route' = [route EXCEPT ![c] = r]
                          /\ waiting' = [waiting EXCEPT ![r] = Append(@, c)]
  BY DEF Send
<1>2. conn[c] = "idle" /\ conn' = [conn EXCEPT ![c] = "queued"]
  BY DEF Send, Moves
<1>3. /\ \A d \in Connections : /\ conn'[d] = IF d = c THEN "queued" ELSE conn[d]
                                /\ route'[d] = IF d = c THEN r ELSE route[d]
      /\ \A q \in Routes : waiting'[q] = IF q = r THEN Append(waiting[r], c)
                                                  ELSE waiting[q]
  BY <1>1, <1>2 DEF ServiceTypeOK
<1>4. \A q \in Routes : /\ waiting[q] \in Seq(Connections)
                        /\ \A i \in DOMAIN waiting[q] : waiting[q][i] \in Connections \ {c}
  BY <1>2 DEF ServiceTypeOK, QueueInv
<1>5. /\ Len(waiting[r]) \in Nat
      /\ DOMAIN waiting[r] = 1..Len(waiting[r])
      /\ DOMAIN waiting'[r] = 1..(Len(waiting[r]) + 1)
      /\ \A i \in DOMAIN waiting[r] : waiting'[r][i] = waiting[r][i]
      /\ waiting'[r][Len(waiting[r]) + 1] = c
  <2>1. waiting'[r] = Append(waiting[r], c) /\ waiting[r] \in Seq(Connections)
    BY <1>3, <1>4
  <2> QED
    BY <2>1, WithElement
<1>6. \A q \in Routes : \A i \in DOMAIN waiting'[q] :
        conn'[waiting'[q][i]] = "queued" /\ route'[waiting'[q][i]] = q
  <2>1. ASSUME NEW q \in Routes, q # r, NEW i \in DOMAIN waiting'[q]
        PROVE  conn'[waiting'[q][i]] = "queued" /\ route'[waiting'[q][i]] = q
    BY <1>3, <1>4, <2>1 DEF QueueInv
  <2>2. ASSUME NEW i \in DOMAIN waiting'[r]
        PROVE  conn'[waiting'[r][i]] = "queued" /\ route'[waiting'[r][i]] = r
    <3>1. CASE i = Len(waiting[r]) + 1
      BY <1>3, <1>5, <3>1
    <3>2. CASE i \in DOMAIN waiting[r]
      BY <1>3, <1>4, <1>5, <3>2 DEF QueueInv
    <3> QED
      BY <1>5, <3>1, <3>2
  <2> QED
    BY <2>1, <2>2
<1>7. \A q \in Routes : \A i, j \in DOMAIN waiting'[q] :
        waiting'[q][i] = waiting'[q][j] => i = j
  <2>1. ASSUME NEW i \in DOMAIN waiting'[r], NEW j \in DOMAIN waiting'[r],
               waiting'[r][i] = waiting'[r][j]
        PROVE  i = j
    <3>1. CASE i \in DOMAIN waiting[r] /\ j \in DOMAIN waiting[r]
      BY <1>5, <2>1, <3>1 DEF QueueInv
    <3>2. CASE i = Len(waiting[r]) + 1 \/ j = Len(waiting[r]) + 1
      BY <1>4, <1>5, <2>1, <3>2
    <3> QED
      BY <1>5, <3>1, <3>2
  <2>2. ASSUME NEW q \in Routes, q # r
        PROVE  waiting'[q] = waiting[q]
    BY <1>3, <2>2
  <2> QED
    BY <2>1, <2>2 DEF QueueInv
<1>8. \A d \in Connections : conn'[d] = "queued" =>
        \E i \in DOMAIN waiting'[route'[d]] : waiting'[route'[d]][i] = d
  <2>1. ASSUME NEW d \in Connections, d # c, conn'[d] = "queued"
        PROVE  \E i \in DOMAIN waiting'[route'[d]] : waiting'[route'[d]][i] = d
    <3>1. PICK i \in DOMAIN waiting[route[d]] : waiting[route[d]][i] = d
      BY <1>3, <2>1 DEF QueueInv
    <3>2. route'[d] = route[d] /\ route[d] \in Routes
      BY <1>3, <2>1 DEF ServiceTypeOK
    <3> QED
      BY <1>3, <1>5, <3>1, <3>2
  <2>2. \E i \in DOMAIN waiting'[route'[c]] : waiting'[route'[c]][i] = c
    BY <1>3, <1>5
  <2> QED
    BY <2>1, <2>2
<1>9. /\ waiting' \in [Routes -> Seq(Connections)]
      /\ route' \in [Connections -> Routes]
  BY <1>1 DEF ServiceTypeOK
<1> QED
  BY <1>6, <1>7, <1>8, <1>9 DEF QueueInv

(***************************************************************************)
(* One request c leaves the queue of its route, from position p.           *)
(***************************************************************************)
LEMMA QueueLeft ==
    ASSUME ServiceTypeOK, QueueInv, NEW c \in Connections, NEW r \in Routes,
           NEW p \in DOMAIN waiting[r], waiting[r][p] = c,
           conn'[c] # "queued", \A d \in Connections \ {c} : conn'[d] = conn[d],
           route' = route,
           \A q \in Routes \ {r} : waiting'[q] = waiting[q],
           DOMAIN waiting'[r] = 1..(Len(waiting[r]) - 1),
           \A k \in DOMAIN waiting'[r] :
             waiting'[r][k] = IF k < p THEN waiting[r][k] ELSE waiting[r][k + 1]
    PROVE  QueueInv'
<1> DEFINE queue == waiting[r]
           rest == waiting'[r]
<1>1. /\ queue \in Seq(Connections)
      /\ Len(queue) \in Nat
      /\ DOMAIN queue = 1..Len(queue)
      /\ p \in 1..Len(queue)
  BY DEF ServiceTypeOK
<1>4. \A q \in Routes : \A i \in DOMAIN waiting[q] : waiting[q][i] \in Connections
  BY DEF ServiceTypeOK
<1>5. \A i, j \in DOMAIN queue : queue[i] = queue[j] => i = j
  BY DEF QueueInv
<1>6. \A i \in DOMAIN queue : conn[queue[i]] = "queued" /\ route[queue[i]] = r
  BY DEF QueueInv
<1>7. \A k \in DOMAIN rest :
        \E i \in DOMAIN queue : /\ i # p
                                /\ rest[k] = queue[i]
                                /\ i = IF k < p THEN k ELSE k + 1
  BY <1>1
<1>8. \A i \in DOMAIN queue : i # p => \E k \in DOMAIN rest : rest[k] = queue[i]
  <2> SUFFICES ASSUME NEW i \in DOMAIN queue, i # p
               PROVE  \E k \in DOMAIN rest : rest[k] = queue[i]
    OBVIOUS
  <2>1. CASE i < p
    BY <1>1, <2>1
  <2>2. CASE i > p
    <3>1. i - 1 \in DOMAIN rest /\ ~(i - 1 < p) /\ (i - 1) + 1 = i
      BY <1>1, <2>2
    <3> QED
      BY <3>1
  <2> QED
    BY <1>1, <2>1, <2>2
<1> HIDE DEF queue, rest
<1>9. \A q \in Routes : \A i \in DOMAIN waiting'[q] :
        conn'[waiting'[q][i]] = "queued" /\ route'[waiting'[q][i]] = q
  <2>1. ASSUME NEW k \in DOMAIN rest
        PROVE  conn'[rest[k]] = "queued" /\ route'[rest[k]] = r
    <3>1. PICK i \in DOMAIN queue : i # p /\ rest[k] = queue[i]
      BY <1>7
    <3>2. queue[i] # c /\ queue[i] \in Connections
      BY <1>4, <1>5, <3>1 DEF queue
    <3> QED
      BY <1>6, <3>1, <3>2
  <2>2. ASSUME NEW q \in Routes \ {r}, NEW i \in DOMAIN waiting[q]
        PROVE  conn'[waiting[q][i]] = "queued" /\ route'[waiting[q][i]] = q
    <3>1. conn[waiting[q][i]] = "queued" /\ route[waiting[q][i]] = q
      BY DEF QueueInv
    <3>2. waiting[q][i] # c
      BY <1>6, <3>1 DEF queue
    <3> QED
      BY <1>4, <3>1, <3>2
  <2> QED
    BY <2>1, <2>2 DEF rest
<1>10. \A q \in Routes : \A i, j \in DOMAIN waiting'[q] :
         waiting'[q][i] = waiting'[q][j] => i = j
  <2>1. ASSUME NEW k \in DOMAIN rest, NEW l \in DOMAIN rest, rest[k] = rest[l]
        PROVE  k = l
    <3>1. PICK i \in DOMAIN queue : /\ rest[k] = queue[i]
                                    /\ i = IF k < p THEN k ELSE k + 1
      BY <1>7
    <3>2. PICK j \in DOMAIN queue : /\ rest[l] = queue[j]
                                    /\ j = IF l < p THEN l ELSE l + 1
      BY <1>7
    <3>3. i = j
      BY <1>5, <2>1, <3>1, <3>2
    <3>4. DOMAIN rest = 1..(Len(queue) - 1)
      BY DEF rest, queue
    <3> QED
      BY <1>1, <3>1, <3>2, <3>3, <3>4
  <2> QED
    BY <2>1 DEF QueueInv, rest
<1>11. \A d \in Connections : conn'[d] = "queued" =>
         \E i \in DOMAIN waiting'[route'[d]] : waiting'[route'[d]][i] = d
  <2> SUFFICES ASSUME NEW d \in Connections, conn'[d] = "queued"
               PROVE  \E i \in DOMAIN waiting'[route[d]] : waiting'[route[d]][i] = d
    OBVIOUS
  <2>1. d # c /\ conn[d] = "queued" /\ route[d] \in Routes
    BY DEF ServiceTypeOK
  <2>2. PICK i \in DOMAIN waiting[route[d]] : waiting[route[d]][i] = d
    BY <2>1 DEF QueueInv
  <2>3. CASE route[d] = r
    <3>1. i \in DOMAIN queue /\ queue[i] = d /\ i # p
      BY <2>1, <2>2, <2>3 DEF queue
    <3> QED
      BY <1>8, <2>3, <3>1 DEF rest
  <2>4. CASE route[d] # r
    BY <2>1, <2>2, <2>4
  <2> QED
    BY <2>3, <2>4
<1> QED
  BY <1>9, <1>10, <1>11 DEF QueueInv

LEMMA DisconnectQueues ==
    ASSUME ServiceTypeOK, QueueInv, NEW c \in Connections, Disconnect(c)
    PROVE  QueueInv' /\ waiting' \in [Routes -> Seq(Connections)]
<1>1. conn' = [conn EXCEPT ![c] = "outside"] /\ route' = route
  BY DEF Disconnect, Moves
<1>2. CASE conn[c] # "queued"
  BY <1>1, <1>2, QueuesUndisturbed DEF Disconnect, ServiceTypeOK
<1>3. CASE conn[c] = "queued"
  <2> DEFINE r == route[c]
             queue == waiting[r]
  <2>1. r \in Routes /\ queue \in Seq(Connections)
    BY DEF ServiceTypeOK
  <2>2. PICK i \in DOMAIN queue :
          /\ queue[i] = c
          /\ waiting' = [waiting EXCEPT ![r] =
               SubSeq(queue, 1, i - 1) \o SubSeq(queue, i + 1, Len(queue))]
    BY <1>3 DEF Disconnect
  <2>3. /\ waiting'[r] \in Seq(Connections)
        /\ DOMAIN waiting'[r] = 1..(Len(queue) - 1)
        /\ \A k \in DOMAIN waiting'[r] :
             waiting'[r][k] = IF k < i THEN queue[k] ELSE queue[k + 1]
    <3>1. waiting'[r] = SubSeq(queue, 1, i - 1) \o SubSeq(queue, i + 1, Len(queue))
      BY <2>1, <2>2 DEF ServiceTypeOK
    <3> HIDE DEF queue, r
    <3> QED
      BY <2>1, <2>2, <3>1, WithoutElement
  <2>4. \A q \in Routes \ {r} : waiting'[q] = waiting[q]
    BY <2>2 DEF ServiceTypeOK
  <2>5. waiting' \in [Routes -> Seq(Connections)]
    BY <2>2, <2>3 DEF ServiceTypeOK
  <2>6. conn'[c] # "queued" /\ \A d \in Connections \ {c} : conn'[d] = conn[d]
    BY <1>1 DEF ServiceTypeOK
  <2> HIDE DEF r
  <2> QED
    BY <1>1, <2>1, <2>2, <2>3, <2>4, <2>5, <2>6, QueueLeft
<1> QED
  BY <1>2, <1>3

LEMMA AdmitQueues ==
    ASSUME ServiceTypeOK, QueueInv, NEW r \in Routes, Admit(r)
    PROVE  QueueInv' /\ waiting' \in [Routes -> Seq(Connections)]
<1> DEFINE queue == waiting[r]
           c == Head(queue)
<1>1. queue \in Seq(Connections) /\ queue # <<>>
  BY DEF ServiceTypeOK, Admit
<1>2. waiting'[r] = Tail(queue)
  BY DEF Admit, ServiceTypeOK
<1>3. /\ c = queue[1] /\ 1 \in DOMAIN queue
      /\ waiting'[r] \in Seq(Connections)
      /\ DOMAIN waiting'[r] = 1..(Len(queue) - 1)
      /\ \A k \in DOMAIN waiting'[r] :
           waiting'[r][k] = IF k < 1 THEN queue[k] ELSE queue[k + 1]
  <2> HIDE DEF queue
  <2> QED
    BY <1>1, <1>2, WithoutHead
<1>4. c \in Connections
  BY <1>1, <1>3
<1>5. /\ conn'[c] # "queued"
      /\ \A d \in Connections \ {c} : conn'[d] = conn[d]
      /\ route' = route
      /\ \A q \in Routes \ {r} : waiting'[q] = waiting[q]
  BY <1>4 DEF Admit, Moves, ServiceTypeOK
<1>6. waiting' \in [Routes -> Seq(Connections)]
  BY <1>3 DEF Admit, ServiceTypeOK
<1> HIDE DEF c
<1> QED
  BY <1>3, <1>4, <1>5, <1>6, QueueLeft

-----------------------------------------------------------------------------
(***************************************************************************)
(* The steps of main change no connection, and those of a connection leave *)
(* main alone; Exit and StartAgain change both.                            *)
(***************************************************************************)
LEMMA ProcessInitially == ServiceInit => ProcessInv
<1> SUFFICES ASSUME ServiceInit PROVE ProcessInv
  OBVIOUS
<1>1. ServiceTypeOK
  <2>1. exited \in BOOLEAN /\ listening \in BOOLEAN
    BY DEF ServiceInit
  <2>2. waiting \in [Routes -> Seq(Connections)]
    BY DEF ServiceInit
  <2>3. phase \in Starting /\ tables \subseteq Schema
    BY DEF ServiceInit, Starting
  <2>4. conn \in [Connections -> {"outside", "idle", "queued", "handling", "cut"}]
    BY DEF ServiceInit
  <2> QED
    BY <2>1, <2>2, <2>3, <2>4 DEF ServiceInit, ServiceTypeOK
<1>2. SchemaInv /\ PhaseInv
  BY DEF ServiceInit, SchemaInv, PhaseInv, Starting, Serving, Open
<1>3. QueueInv
  BY DEF ServiceInit, QueueInv
<1> QED
  BY <1>1, <1>2, <1>3 DEF ProcessInv

\* what the connections are doing is as it was
LEMMA TrafficUnchanged ==
    ASSUME QueueInv, UNCHANGED trafficVars
    PROVE  QueueInv'
BY DEF QueueInv, trafficVars

LEMMA StartupKeeps ==
    ASSUME ProcessInv, StartupStep \/ KilledStarting
    PROVE  ProcessInv'
<1> USE DEF ProcessInv
<1>1. UNCHANGED trafficVars /\ adapter' = adapter /\ exited' = exited
  BY DEF StartupStep, KilledStarting, StartsWith, Configure, ConfigureControl,
         Connected, ConnectFails, Pause, CreateDecisions, CreateAudit, CreateFails,
         Bind
<1>2. QueueInv'
  BY <1>1, TrafficUnchanged
<1>3. ServiceTypeOK' /\ SchemaInv' /\ PhaseInv'
  <2> USE <1>1 DEF ServiceTypeOK, SchemaInv, PhaseInv, Starting, Ended, Serving,
                   Schema, Open, trafficVars, StartsWith, startVars
  <2>1. CASE Configure
    BY <2>1 DEF Configure
  <2>2. CASE ConfigureControl
    BY <2>2 DEF ConfigureControl
  <2>3. CASE Connected
    BY <2>3 DEF Connected
  <2>4. CASE ConnectFails
    BY <2>4 DEF ConnectFails
  <2>5. CASE Pause
    BY <2>5 DEF Pause
  <2>6. CASE CreateDecisions
    BY <2>6 DEF CreateDecisions
  <2>7. CASE CreateAudit
    <3>1. ServiceTypeOK'
      BY <2>7 DEF CreateAudit
    <3>2. SchemaInv'
      BY <2>7 DEF CreateAudit
    <3>3. PhaseInv'
      BY <2>7 DEF CreateAudit
    <3> QED
      BY <3>1, <3>2, <3>3
  <2>8. CASE CreateFails
    BY <2>8 DEF CreateFails
  <2>9. CASE Bind
    <3>1. ServiceTypeOK'
      BY <2>9 DEF Bind
    <3>2. SchemaInv'
      BY <2>9 DEF Bind
    <3>3. PhaseInv'
      BY <2>9 DEF Bind
    <3> QED
      BY <3>1, <3>2, <3>3
  <2>10. CASE KilledStarting
    BY <2>10 DEF KilledStarting
  <2> QED
    BY <2>1, <2>2, <2>3, <2>4, <2>5, <2>6, <2>7, <2>8, <2>9, <2>10 DEF StartupStep
<1> QED
  BY <1>2, <1>3

\* main goes on: it is serving, and no connection opens
LEMMA DrainKeeps ==
    ASSUME ProcessInv,
           Shutdown \/ Tell \/ StopListening \/ StartDrain \/ CancelAndDrain
             \/ Finish \/ Deadline
    PROVE  ProcessInv'
<1> USE DEF ProcessInv
<1>1. /\ UNCHANGED trafficVars /\ adapter' = adapter /\ exited' = exited
      /\ tables' = tables
  BY DEF Shutdown, Tell, StopListening, StartDrain, CancelAndDrain, Finish, Deadline,
         startVars
<1>2. QueueInv'
  BY <1>1, TrafficUnchanged
<1>3. ServiceTypeOK' /\ SchemaInv' /\ PhaseInv'
  <2> USE <1>1 DEF ServiceTypeOK, SchemaInv, PhaseInv, Starting, Ended, Serving,
                   Schema, Open, trafficVars
  <2>1. CASE Shutdown
    BY <2>1 DEF Shutdown
  <2>2. CASE Tell
    BY <2>2 DEF Tell
  <2>3. CASE StopListening
    <3>1. ServiceTypeOK'
      BY <2>3 DEF StopListening
    <3>2. SchemaInv'
      BY <2>3 DEF StopListening
    <3>3. PhaseInv'
      BY <2>3 DEF StopListening
    <3> QED
      BY <3>1, <3>2, <3>3
  <2>4. CASE StartDrain
    BY <2>4 DEF StartDrain
  <2>5. CASE CancelAndDrain
    <3>1. ServiceTypeOK'
      BY <2>5 DEF CancelAndDrain
    <3>2. SchemaInv'
      BY <2>5 DEF CancelAndDrain
    <3>3. PhaseInv'
      BY <2>5 DEF CancelAndDrain
    <3> QED
      BY <3>1, <3>2, <3>3
  <2>6. CASE Finish
    BY <2>6 DEF Finish
  <2>7. CASE Deadline
    <3>1. ServiceTypeOK'
      BY <2>7 DEF Deadline
    <3>2. SchemaInv'
      BY <2>7 DEF Deadline
    <3>3. PhaseInv'
      BY <2>7 DEF Deadline
    <3> QED
      BY <3>1, <3>2, <3>3
  <2> QED
    BY <2>1, <2>2, <2>3, <2>4, <2>5, <2>6, <2>7
<1> QED
  BY <1>2, <1>3

(***************************************************************************)
(* A connection that moves is open, or opens while the listener is: main   *)
(* has neither failed nor finished, and the process is there.              *)
(***************************************************************************)
LEMMA MainUnchanged ==
    ASSUME ServiceTypeOK, SchemaInv, PhaseInv, UNCHANGED lifecycleVars,
           NEW c \in Connections, Open(c) \/ listening,
           NEW to, to \in {"outside", "idle", "queued", "handling"},
           conn' = [conn EXCEPT ![c] = to],
           route' \in [Connections -> Routes], waiting' \in [Routes -> Seq(Connections)]
    PROVE  ServiceTypeOK' /\ SchemaInv' /\ PhaseInv'
<1>1. ServiceTypeOK'
  BY DEF ServiceTypeOK, lifecycleVars, startVars
<1>2. SchemaInv'
  BY DEF SchemaInv, lifecycleVars, startVars
<1>3. phase \notin Starting \cup {"failed", "killed"} /\ phase # "ok" /\ ~exited
  BY DEF PhaseInv, Open, Serving, Starting, Ended
<1>4. \A d \in Connections : conn'[d] = IF d = c THEN to ELSE conn[d]
  BY DEF ServiceTypeOK
<1>5. PhaseInv'
  BY <1>3, <1>4 DEF PhaseInv, lifecycleVars, startVars, Serving, Starting
<1> QED
  BY <1>1, <1>2, <1>5

LEMMA ConnectKeeps ==
    ASSUME ProcessInv, NEW c \in Connections, Connect(c)
    PROVE  ProcessInv'
<1> USE DEF ProcessInv
<1>1. /\ listening /\ conn[c] = "outside" /\ UNCHANGED lifecycleVars
      /\ conn' = [conn EXCEPT ![c] = "idle"] /\ route' = route /\ waiting' = waiting
  BY DEF Connect, Moves
<1>2. ServiceTypeOK' /\ SchemaInv' /\ PhaseInv'
  BY <1>1, MainUnchanged DEF ServiceTypeOK
<1>3. QueueInv'
  BY <1>1, QueuesUndisturbed
<1> QED
  BY <1>2, <1>3

LEMMA SendKeeps ==
    ASSUME ProcessInv, NEW c \in Connections, Send(c)
    PROVE  ProcessInv'
<1> USE DEF ProcessInv
<1>1. /\ conn[c] = "idle" /\ UNCHANGED lifecycleVars
      /\ conn' = [conn EXCEPT ![c] = "queued"]
  BY DEF Send, Moves
<1>2. /\ QueueInv' /\ waiting' \in [Routes -> Seq(Connections)]
      /\ route' \in [Connections -> Routes]
  BY SendQueues
<1>3. ServiceTypeOK' /\ SchemaInv' /\ PhaseInv'
  BY <1>1, <1>2, MainUnchanged DEF Open
<1> QED
  BY <1>2, <1>3

LEMMA RespondKeeps ==
    ASSUME ProcessInv, NEW c \in Connections, Respond(c)
    PROVE  ProcessInv'
<1> USE DEF ProcessInv
<1> DEFINE to == IF c \in closing THEN "outside" ELSE "idle"
<1>1. /\ conn[c] = "handling" /\ UNCHANGED lifecycleVars
      /\ conn' = [conn EXCEPT ![c] = to] /\ route' = route /\ waiting' = waiting
  BY DEF Respond, Moves
<1>2. to \in {"outside", "idle"}
  OBVIOUS
<1> HIDE DEF to
<1>3. ServiceTypeOK' /\ SchemaInv' /\ PhaseInv'
  BY <1>1, <1>2, MainUnchanged DEF ServiceTypeOK, Open
<1>4. QueueInv'
  BY <1>1, <1>2, QueuesUndisturbed
<1> QED
  BY <1>3, <1>4

LEMMA DisconnectKeeps ==
    ASSUME ProcessInv, NEW c \in Connections, Disconnect(c)
    PROVE  ProcessInv'
<1> USE DEF ProcessInv
<1>1. /\ Open(c) /\ UNCHANGED lifecycleVars
      /\ conn' = [conn EXCEPT ![c] = "outside"] /\ route' = route
  BY DEF Disconnect, Moves
<1>2. QueueInv' /\ waiting' \in [Routes -> Seq(Connections)]
  BY DisconnectQueues
<1>3. ServiceTypeOK' /\ SchemaInv' /\ PhaseInv'
  BY <1>1, <1>2, MainUnchanged DEF ServiceTypeOK
<1> QED
  BY <1>2, <1>3

LEMMA SeeSignalKeeps ==
    ASSUME ProcessInv, NEW c \in Connections, SeeSignal(c)
    PROVE  ProcessInv'
<1> USE DEF ProcessInv
<1>1. Open(c) /\ UNCHANGED lifecycleVars /\ route' = route /\ waiting' = waiting
  BY DEF SeeSignal, Moves
<1>2. CASE conn[c] = "idle" /\ conn' = [conn EXCEPT ![c] = "outside"]
  <2>1. ServiceTypeOK' /\ SchemaInv' /\ PhaseInv'
    BY <1>1, <1>2, MainUnchanged DEF ServiceTypeOK
  <2>2. QueueInv'
    BY <1>1, <1>2, QueuesUndisturbed
  <2> QED
    BY <2>1, <2>2
<1>3. CASE conn' = conn
  <2>1. ServiceTypeOK' /\ SchemaInv'
    BY <1>1, <1>3 DEF ServiceTypeOK, SchemaInv, lifecycleVars, startVars
  <2>2. PhaseInv'
    BY <1>1, <1>3 DEF PhaseInv, lifecycleVars, startVars, Serving, Open
  <2>3. QueueInv'
    BY <1>1, <1>3 DEF QueueInv
  <2> QED
    BY <2>1, <2>2, <2>3
<1> QED
  BY <1>2, <1>3 DEF SeeSignal, Moves

LEMMA AdmitKeeps ==
    ASSUME ProcessInv, NEW r \in Routes, Admit(r)
    PROVE  ProcessInv'
<1> USE DEF ProcessInv
<1> DEFINE c == Head(waiting[r])
<1>1. /\ UNCHANGED lifecycleVars /\ route' = route
      /\ conn' = [conn EXCEPT ![c] = "handling"]
  BY DEF Admit, Moves
<1>2. c \in Connections /\ conn[c] = "queued"
  <2>1. waiting[r] \in Seq(Connections) /\ waiting[r] # <<>>
    BY DEF ServiceTypeOK, Admit
  <2>2. c = waiting[r][1] /\ 1 \in DOMAIN waiting[r]
    BY <2>1, WithoutHead
  <2> QED
    BY <2>1, <2>2 DEF QueueInv
<1> HIDE DEF c
<1>3. QueueInv' /\ waiting' \in [Routes -> Seq(Connections)]
  BY AdmitQueues
<1>4. ServiceTypeOK' /\ SchemaInv' /\ PhaseInv'
  BY <1>1, <1>2, <1>3, MainUnchanged DEF ServiceTypeOK, Open
<1> QED
  BY <1>3, <1>4

(***************************************************************************)
(* The process ends.  Only after the deadline of a drain is somebody still *)
(* connected.                                                              *)
(***************************************************************************)
LEMMA ExitKeeps ==
    ASSUME ProcessInv, Exit
    PROVE  ProcessInv'
<1> USE DEF ProcessInv
<1>1. \A c \in Connections : conn'[c] = IF Open(c) THEN "cut" ELSE conn[c]
  BY DEF Exit
<1>2. phase \in Ended /\ phase' = phase /\ ~exited /\ exited' /\ adapter' = adapter
  BY DEF Exit, ServiceTypeOK, Serving
<1>3. ServiceTypeOK'
  <2>1. waiting' \in [Routes -> Seq(Connections)]
    BY DEF Exit
  <2>2. conn' \in [Connections -> {"outside", "idle", "queued", "handling", "cut"}]
    BY DEF Exit, ServiceTypeOK
  <2> QED
    BY <1>2, <2>1, <2>2 DEF Exit, ServiceTypeOK, startVars
<1>4. SchemaInv'
  BY DEF Exit, SchemaInv, startVars
<1>5. PhaseInv'
  <2>1. \A c \in Connections : conn'[c] \in {"outside", "cut"}
    BY <1>1 DEF ServiceTypeOK, Open
  <2>2. \A c \in Connections : conn'[c] = "cut" => phase \in {"timed_out", "aborted"}
    BY <1>1, <1>2 DEF PhaseInv, Ended, Open
  <2> QED
    BY <1>2, <2>1, <2>2 DEF PhaseInv, Exit, Serving, Starting, Ended, Open
<1>6. QueueInv'
  BY <1>1 DEF Exit, QueueInv, Open
<1> QED
  BY <1>3, <1>4, <1>5, <1>6

LEMMA StartAgainKeeps ==
    ASSUME ProcessInv, StartAgain
    PROVE  ProcessInv'
<1> USE DEF ProcessInv
<1>1. \A c \in Connections : conn'[c] = "outside"
  BY DEF StartAgain
<1>2. ServiceTypeOK' /\ SchemaInv' /\ PhaseInv'
  BY <1>1 DEF StartAgain, ServiceTypeOK, SchemaInv, PhaseInv, Starting, Ended,
              Serving, Open
<1>3. QueueInv'
  <2>1. \A r \in Routes : \A i \in DOMAIN waiting[r] : waiting[r][i] \in Connections
    BY DEF ServiceTypeOK
  <2>2. \A r \in Routes : \A i \in DOMAIN waiting[r] : FALSE
    BY <2>1 DEF StartAgain, PhaseInv, QueueInv, Open
  <2> QED
    BY <1>1, <2>2 DEF StartAgain, QueueInv
<1> QED
  BY <1>2, <1>3

-----------------------------------------------------------------------------
LEMMA ProcessStep == ProcessInv /\ [ServiceNext]_serviceVars => ProcessInv'
<1> SUFFICES ASSUME ProcessInv, [ServiceNext]_serviceVars PROVE ProcessInv'
  OBVIOUS
<1>1. CASE StartupStep \/ KilledStarting
  BY <1>1, StartupKeeps
<1>2. ASSUME NEW c \in Connections, Traffic(c) PROVE ProcessInv'
  BY <1>2, ConnectKeeps, SendKeeps, RespondKeeps, DisconnectKeeps, SeeSignalKeeps
     DEF Traffic
<1>3. ASSUME NEW r \in Routes, Admit(r) PROVE ProcessInv'
  BY <1>3, AdmitKeeps
<1>4. CASE Shutdown \/ Tell \/ StopListening \/ StartDrain \/ CancelAndDrain
             \/ Finish \/ Deadline
  BY <1>4, DrainKeeps
<1>5. CASE Exit
  BY <1>5, ExitKeeps
<1>6. CASE StartAgain
  BY <1>6, StartAgainKeeps
<1>7. CASE UNCHANGED serviceVars
  <2>1. QueueInv'
    BY <1>7, TrafficUnchanged DEF ProcessInv, serviceVars, lifecycleVars
  <2>2. ServiceTypeOK' /\ SchemaInv' /\ PhaseInv'
    BY <1>7 DEF ProcessInv, serviceVars, lifecycleVars, startVars, trafficVars,
                ServiceTypeOK, SchemaInv, PhaseInv, Serving, Open
  <2> QED
    BY <2>1, <2>2 DEF ProcessInv
<1> QED
  BY <1>1, <1>2, <1>3, <1>4, <1>5, <1>6, <1>7 DEF ServiceNext, Traffic

(***************************************************************************)
(* ProcessInv holds from the first start on, whatever clients, signals and *)
(* restarts do.                                                            *)
(***************************************************************************)
THEOREM ProcessInvariance == ServiceSpec => []ProcessInv
<1>1. ServiceSpec => ServiceInit /\ [][ServiceNext]_serviceVars
  BY PTL DEF ServiceSpec
<1> QED
  BY <1>1, ProcessInitially, ProcessStep, PTL

(***************************************************************************)
(* No request is served before both tables exist, although a start may     *)
(* have failed or been killed between the two (ensure_schema of            *)
(* backend/src/store.rs, before the listener is bound).                    *)
(***************************************************************************)
THEOREM SchemaBeforeService == ServiceSpec => []ServesWithSchema
<1>1. ProcessInv => ServesWithSchema
  BY DEF ProcessInv, SchemaInv, ServesWithSchema, Serving
<1> QED
  BY <1>1, ProcessInvariance, PTL

(***************************************************************************)
(* A process that cuts a connection off has run into the deadline of its   *)
(* drain, for any number of connections in any state.                      *)
(***************************************************************************)
THEOREM GracefulEndCutsNobody == ServiceSpec => []CutOnlyAfterDeadline
<1>1. ProcessInv => CutOnlyAfterDeadline
  BY DEF ProcessInv, PhaseInv, CutOnlyAfterDeadline
<1> QED
  BY <1>1, ProcessInvariance, PTL
=============================================================================
