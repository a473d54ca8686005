------------------------- MODULE ReferencePageProof -------------------------
(***************************************************************************)
(* What evidence shows: proofs of NoUnauditedDecision and of               *)
(* EvidenceShowsAnswer, for any number of clients, reads and clicks.       *)
(*                                                                         *)
(* A read takes the decisions and the audits at two moments.  Between      *)
(* them, and before and after, decisions and audits only grow and answers  *)
(* stay what they are: what was read early still holds late.               *)
(***************************************************************************)
EXTENDS ReferencePage, OrderAuthorizationProof

ReaderTypeOK ==
    /\ reading \in [Reads -> {"idle", "decisions", "audits", "effects", "done",
                              "lost", "shown"} \cup EvidenceFaultCodes]
    /\ snapshot \in [Reads -> [decisions : SUBSET Decision, audits : Seq(Decision)]]

\* what a read has taken is still there, and audits follow decisions
ReadInv(r) ==
    /\ reading[r] = "audits" => snapshot[r].decisions \subseteq decisions
    /\ reading[r] \in {"effects", "done"} =>
         \A d \in snapshot[r].decisions : \E i \in DOMAIN snapshot[r].audits :
             snapshot[r].audits[i] = d

\* the refresh after a click began with its answer, and has read its decision
ClickInv(a) ==
    result = {a} =>
        /\ pc[a] = "answered"
        /\ reading[AfterClick(a)] # "idle"
        /\ reading[AfterClick(a)] \in {"audits", "effects", "done"}
           /\ answer[a].code = "ok" =>
             [request |-> request[a], outcome |-> answer[a].outcome]
               \in snapshot[AfterClick(a)].decisions

ServiceInv == TypeInv /\ DurableInv /\ AuditInv

PageInv ==
    /\ ReaderTypeOK
    /\ \A r \in Reads : ReadInv(r)
    /\ \A a \in Clicks : ClickInv(a)

-----------------------------------------------------------------------------
(***************************************************************************)
(* The page and the reads leave the service to itself.                     *)
(***************************************************************************)
LEMMA PageStepsService ==
    ASSUME [PageNext]_allPageVars
    PROVE  [Next]_vars
BY PageAssumption
   DEF PageNext, Click, ShowAnswer, ShowFailure, LoadPage, Serve, ShowEvidence,
       Elsewhere, CrashBehindPage, CrashRead, Unused, Quiescent, Next, Proceed,
       allPageVars

LEMMA ServiceInit == Init => ServiceInv
BY TypeInvInit, DurableInit, AuditInit DEF ServiceInv

LEMMA ServiceStep ==
    ASSUME ServiceInv, [Next]_vars
    PROVE  ServiceInv'
BY TypeInvStep, DurableStep, AuditStep DEF ServiceInv, TypeInv

\* decisions are never taken back, and neither is an answer
LEMMA WhatStays ==
    ASSUME TypeOK, [Next]_vars
    PROVE  /\ decisions \subseteq decisions'
           /\ request' = request
           /\ \A a \in Attempts : pc[a] = "answered" =>
                pc'[a] = "answered" /\ answer'[a] = answer[a]
<1>1. request' = request
  BY RequestsStay
<1>2. ASSUME NEW b \in Attempts, Step(b)
      PROVE  /\ decisions \subseteq decisions'
             /\ \A a \in Attempts : pc[a] = "answered" =>
                  pc'[a] = "answered" /\ answer'[a] = answer[a]
  BY <1>2, StepRows, StepBegins, StepIsLocal DEF Same
<1>3. CASE Settle
  BY <1>1, <1>3 DEF Settle, SettleCommit, SettleAbort, attemptVars
<1>4. CASE Restart
  BY <1>1, <1>4 DEF Restart, storeVars, InFlight, Transitions
<1>5. CASE UNCHANGED vars
  BY <1>1, <1>5 DEF vars, attemptVars, storeVars
<1> QED
  BY <1>1, <1>2, <1>3, <1>4, <1>5 DEF Next, Proceed, Step, Quiescent

-----------------------------------------------------------------------------
(***************************************************************************)
(* A step of the service, with no read and no click under way, keeps what  *)
(* reads have taken and clicks have been shown.                            *)
(***************************************************************************)
LEMMA ReadStays ==
    ASSUME decisions \subseteq decisions', NEW r \in Reads, ReadInv(r),
           reading'[r] = reading[r], snapshot'[r] = snapshot[r]
    PROVE  ReadInv(r)'
BY DEF ReadInv

LEMMA ClickStays ==
    ASSUME TypeOK, [Next]_vars, NEW a \in Clicks, ClickInv(a), result' = result,
           reading'[AfterClick(a)] = reading[AfterClick(a)],
           snapshot'[AfterClick(a)] = snapshot[AfterClick(a)]
    PROVE  ClickInv(a)'
<1>1. a \in Attempts
  BY PageAssumption
<1> QED
  BY <1>1, WhatStays DEF ClickInv

LEMMA ServedRead ==
    ASSUME ServiceInv, ReaderTypeOK, NEW r \in Reads, ReadInv(r), Serve(r)
    PROVE  ReaderTypeOK' /\ ReadInv(r)'
<1>1. /\ decisions \subseteq Decision
      /\ audits \in Seq(Decision)
      /\ UNCHANGED storeVars
  BY DEF ServiceInv, TypeInv, TypeOK, StoreTypeOK, Serve, vars
<1>2. /\ reading \in [Reads -> {"idle", "decisions", "audits", "effects", "done",
                                "lost", "shown"} \cup EvidenceFaultCodes]
      /\ snapshot \in [Reads -> [decisions : SUBSET Decision, audits : Seq(Decision)]]
  BY DEF ReaderTypeOK
<1>3. CASE ReadDecisions(r)
  <2>1. /\ snapshot'[r].decisions = decisions
        /\ reading'[r] = "audits"
    BY <1>2, <1>3 DEF ReadDecisions
  <2>2. ReaderTypeOK'
    BY <1>1, <1>2, <1>3 DEF ReadDecisions, ReaderTypeOK
  <2> QED
    BY <1>1, <2>1, <2>2 DEF ReadInv, storeVars
<1>4. CASE ReadAudits(r)
  <2>1. /\ snapshot'[r].decisions = snapshot[r].decisions
        /\ snapshot'[r].audits = audits
        /\ reading'[r] = "effects"
        /\ reading[r] = "audits"
    BY <1>2, <1>4 DEF ReadAudits
  <2>2. \A d \in snapshot[r].decisions : \E i \in DOMAIN audits : audits[i] = d
    BY <2>1 DEF ReadInv, ServiceInv, AuditInv
  <2>3. ReadInv(r)'
    BY <2>1, <2>2 DEF ReadInv
  <2>4. ReaderTypeOK'
    BY <1>1, <1>2, <1>4 DEF ReadAudits, ReaderTypeOK
  <2> QED
    BY <2>3, <2>4
<1>5. CASE ReadEffects(r)
  BY <1>2, <1>5 DEF ReadEffects, ReaderTypeOK, ReadInv
<1>6. CASE ReadFails(r)
  BY <1>2, <1>6 DEF ReadFails, EmptySnapshot, EvidenceFaultCodes, ReaderTypeOK, ReadInv
<1> QED
  BY <1>3, <1>4, <1>5, <1>6 DEF Serve, Read

\* the read that follows a click takes the decision its answer was about
LEMMA ServedClick ==
    ASSUME ServiceInv, ReaderTypeOK, NEW a \in Clicks, ClickInv(a),
           Serve(AfterClick(a))
    PROVE  ClickInv(a)'
<1> DEFINE r   == AfterClick(a)
           row == [request |-> request[a], outcome |-> answer[a].outcome]
<1>1. a \in Attempts /\ r \in Reads
  BY PageAssumption
<1>2. /\ reading \in [Reads -> {"idle", "decisions", "audits", "effects", "done",
                                "lost", "shown"} \cup EvidenceFaultCodes]
      /\ snapshot \in [Reads -> [decisions : SUBSET Decision, audits : Seq(Decision)]]
  BY DEF ReaderTypeOK
<1>3. UNCHANGED <<result, pc, answer, request>>
  BY DEF Serve, vars, attemptVars, pageVars
<1>4. pc[a] = "answered" /\ answer[a].code = "ok" => row \in decisions
  BY <1>1 DEF ServiceInv, DurableInv, AnswerInv
<1> SUFFICES ASSUME result = {a}
             PROVE  /\ reading'[r] # "idle"
                    /\ reading'[r] \in {"audits", "effects", "done"}
                       /\ answer[a].code = "ok" => row \in snapshot'[r].decisions
  BY <1>3 DEF ClickInv
<1> HIDE DEF r, row
<1>5. /\ reading[r] \in {"audits", "effects", "done"} /\ answer[a].code = "ok" =>
           row \in snapshot[r].decisions
      /\ pc[a] = "answered"
  BY DEF ClickInv, r, row
<1>6. CASE ReadDecisions(r)
  BY <1>1, <1>2, <1>4, <1>5, <1>6 DEF ReadDecisions
<1>7. CASE ReadAudits(r)
  BY <1>1, <1>2, <1>5, <1>7 DEF ReadAudits
<1>8. CASE ReadEffects(r)
  BY <1>1, <1>2, <1>5, <1>8 DEF ReadEffects
<1>9. CASE ReadFails(r)
  BY <1>1, <1>2, <1>9 DEF ReadFails
<1> QED
  BY <1>6, <1>7, <1>8, <1>9 DEF Serve, Read, r

LEMMA ServeStep ==
    ASSUME ServiceInv, PageInv, NEW r \in Reads, Serve(r)
    PROVE  PageInv'
<1>1. ReaderTypeOK' /\ ReadInv(r)'
  BY ServedRead DEF PageInv
<1>2. /\ \A s \in Reads \ {r} : reading'[s] = reading[s] /\ snapshot'[s] = snapshot[s]
      /\ UNCHANGED <<vars, result>>
  BY DEF Serve, Read, ReadDecisions, ReadAudits, ReadEffects, ReadFails, PageInv,
         ReaderTypeOK, pageVars
<1>3. /\ TypeOK
      /\ decisions' = decisions
      /\ [Next]_vars
  BY <1>2 DEF ServiceInv, TypeInv, vars, storeVars
<1>4. \A s \in Reads : ReadInv(s)'
  BY <1>1, <1>2, <1>3, ReadStays DEF PageInv
<1>5. ASSUME NEW a \in Clicks PROVE ClickInv(a)'
  <2>1. AfterClick(a) \in Reads
    BY PageAssumption
  <2>2. CASE AfterClick(a) = r
    BY <2>2, ServedClick DEF PageInv
  <2>3. CASE AfterClick(a) # r
    BY <1>2, <1>3, <2>1, <2>3, ClickStays DEF PageInv
  <2> QED
    BY <2>2, <2>3
<1> QED
  BY <1>1, <1>4, <1>5 DEF PageInv

(***************************************************************************)
(* A read begins, whoever begins it: no decision of a click is read yet.   *)
(***************************************************************************)
LEMMA BegunRead ==
    ASSUME PageInv, NEW r \in Reads, BeginRead(r), UNCHANGED vars
    PROVE  /\ ReaderTypeOK'
           /\ \A s \in Reads : ReadInv(s)'
           /\ \A a \in Clicks : result' = result => ClickInv(a)'
           /\ reading'[r] = "decisions"
<1>1. /\ reading[r] = "idle"
      /\ reading' = [reading EXCEPT ![r] = "decisions"]
      /\ snapshot' = snapshot
      /\ UNCHANGED <<decisions, request, pc, answer>>
  BY DEF BeginRead, vars, storeVars, attemptVars
<1>2. \A a \in Clicks : AfterClick(a) \in Reads
  BY PageAssumption
<1>3. ReaderTypeOK' /\ reading'[r] = "decisions"
  BY <1>1 DEF PageInv, ReaderTypeOK
<1>4. \A s \in Reads : ReadInv(s)'
  BY <1>1 DEF PageInv, ReaderTypeOK, ReadInv
<1>5. \A a \in Clicks : result' = result => ClickInv(a)'
  BY <1>1, <1>2 DEF PageInv, ReaderTypeOK, ClickInv
<1> QED
  BY <1>3, <1>4, <1>5

LEMMA ClickStep ==
    ASSUME ServiceInv, PageInv, [Next]_vars, NEW a \in Clicks,
           Click(a) \/ ShowAnswer(a) \/ ShowFailure(a)
    PROVE  PageInv'
<1>1. AfterClick(a) \in Reads /\ TypeOK
  BY PageAssumption DEF ServiceInv, TypeInv
<1>2. CASE Click(a)
  <2>1. /\ UNCHANGED <<reading, snapshot>>
        /\ result' = {}
    BY <1>2 DEF Click, readerVars
  <2>2. \A r \in Reads : ReadInv(r)'
    BY <1>1, <2>1, WhatStays, ReadStays DEF PageInv
  <2> QED
    BY <2>1, <2>2 DEF PageInv, ReaderTypeOK, ClickInv
<1>3. CASE ShowAnswer(a)
  <2>1. /\ BeginRead(AfterClick(a))
        /\ UNCHANGED vars
        /\ result' = {a}
        /\ pc'[a] = "answered"
    BY <1>3 DEF ShowAnswer, vars, attemptVars
  <2>2. /\ ReaderTypeOK'
        /\ \A s \in Reads : ReadInv(s)'
        /\ reading'[AfterClick(a)] = "decisions"
    BY <1>1, <2>1, BegunRead
  <2>3. \A b \in Clicks : ClickInv(b)'
    BY <2>1, <2>2 DEF ClickInv
  <2> QED
    BY <2>2, <2>3 DEF PageInv
<1>4. CASE ShowFailure(a)
  BY <1>1, <1>4, BegunRead DEF ShowFailure, PageInv
<1> QED
  BY <1>2, <1>3, <1>4

\* the page takes the counters, and the snapshot is forgotten
LEMMA ShowEvidenceStep ==
    ASSUME PageInv, NEW r \in Reads, ShowEvidence(r)
    PROVE  PageInv'
<1>1. /\ reading' = [reading EXCEPT ![r] = "shown"]
      /\ snapshot' = [snapshot EXCEPT ![r] = EmptySnapshot]
      /\ UNCHANGED <<decisions, request, pc, answer, result>>
  BY DEF ShowEvidence, vars, storeVars, attemptVars, pageVars
<1>2. EmptySnapshot \in [decisions : SUBSET Decision, audits : Seq(Decision)]
  BY DEF EmptySnapshot
<1>3. ReaderTypeOK'
  BY <1>1, <1>2 DEF PageInv, ReaderTypeOK
<1>4. \A s \in Reads : ReadInv(s)'
  BY <1>1 DEF PageInv, ReaderTypeOK, ReadInv
<1>5. \A a \in Clicks : ClickInv(a)'
  BY <1>1, PageAssumption DEF PageInv, ReaderTypeOK, ClickInv
<1> QED
  BY <1>3, <1>4, <1>5 DEF PageInv

\* a crash: reads under way are lost, what was answered stays
LEMMA CrashStep ==
    ASSUME ServiceInv, PageInv, [Next]_vars, CrashBehindPage
    PROVE  PageInv'
<1>1. /\ reading' = [r \in Reads |-> IF Underway(r) THEN "lost" ELSE reading[r]]
      /\ snapshot' = [r \in Reads |-> IF Underway(r) THEN EmptySnapshot
                                                     ELSE snapshot[r]]
      /\ result' = result
      /\ TypeOK
  BY DEF CrashBehindPage, CrashRead, pageVars, ServiceInv, TypeInv
<1>2. EmptySnapshot \in [decisions : SUBSET Decision, audits : Seq(Decision)]
  BY DEF EmptySnapshot
<1>3. ReaderTypeOK'
  BY <1>1, <1>2 DEF PageInv, ReaderTypeOK
<1>4. ASSUME NEW r \in Reads PROVE ReadInv(r)'
  <2>1. CASE Underway(r)
    BY <1>1, <2>1 DEF ReadInv
  <2>2. CASE ~Underway(r)
    BY <1>1, <2>2, WhatStays, ReadStays DEF PageInv
  <2> QED
    BY <2>1, <2>2
<1>5. ASSUME NEW a \in Clicks PROVE ClickInv(a)'
  <2>1. a \in Attempts /\ AfterClick(a) \in Reads
    BY PageAssumption
  <2>2. CASE Underway(AfterClick(a))
    <3>1. reading'[AfterClick(a)] = "lost"
      BY <1>1, <2>1, <2>2
    <3> QED
      BY <1>1, <2>1, <3>1, WhatStays DEF PageInv, ClickInv
  <2>3. CASE ~Underway(AfterClick(a))
    BY <1>1, <2>1, <2>3, ClickStays DEF PageInv
  <2> QED
    BY <2>2, <2>3
<1> QED
  BY <1>3, <1>4, <1>5 DEF PageInv

-----------------------------------------------------------------------------
LEMMA PageInvInit == PageInit => PageInv
<1> SUFFICES ASSUME PageInit PROVE PageInv
  OBVIOUS
<1>1. EmptySnapshot \in [decisions : SUBSET Decision, audits : Seq(Decision)]
  BY DEF EmptySnapshot
<1>2. \A r \in Reads : reading[r] = "idle"
  BY DEF PageInit, ReaderInit
<1>3. ReaderTypeOK
  BY <1>1 DEF PageInit, ReaderInit, ReaderTypeOK
<1>4. \A a \in Clicks : result # {a}
  BY DEF PageInit
<1> QED
  BY <1>2, <1>3, <1>4 DEF PageInv, ReadInv, ClickInv

LEMMA PageInvStep ==
    ServiceInv /\ PageInv /\ [PageNext]_allPageVars => PageInv'
<1> SUFFICES ASSUME ServiceInv, PageInv, [PageNext]_allPageVars PROVE PageInv'
  OBVIOUS
<1>1. [Next]_vars /\ TypeOK
  BY PageStepsService DEF ServiceInv, TypeInv
<1>2. ASSUME UNCHANGED <<readerVars, pageVars>> PROVE PageInv'
  <2>1. UNCHANGED <<reading, snapshot, result>>
    BY <1>2 DEF readerVars, pageVars
  <2>2. \A r \in Reads : ReadInv(r)'
    BY <1>1, <2>1, WhatStays, ReadStays DEF PageInv
  <2>3. \A a \in Clicks : ClickInv(a)'
    BY <1>1, <2>1, ClickStays DEF PageInv
  <2> QED
    BY <2>1, <2>2, <2>3 DEF PageInv, ReaderTypeOK
<1>3. CASE LoadPage
  <2>1. Load \in Reads
    BY PageAssumption DEF Load
  <2> QED
    BY <1>3, <2>1, BegunRead DEF LoadPage, PageInv, pageVars
<1>4. CASE Elsewhere \/ Unused \/ UNCHANGED allPageVars
  BY <1>2, <1>4 DEF Elsewhere, Unused, allPageVars
<1> QED
  BY <1>1, <1>3, <1>4, ClickStep, ServeStep, ShowEvidenceStep, CrashStep DEF PageNext

(***************************************************************************)
(* The invariant, of the page and of the service behind it.                *)
(***************************************************************************)
THEOREM PageInvariance == PageSpec => [](ServiceInv /\ PageInv)
<1>1. PageInit => ServiceInv /\ PageInv
  BY ServiceInit, PageInvInit DEF PageInit, ReaderInit
<1>2. ServiceInv /\ PageInv /\ [PageNext]_allPageVars => (ServiceInv /\ PageInv)'
  BY PageStepsService, ServiceStep, PageInvStep
<1>3. PageSpec => PageInit /\ [][PageNext]_allPageVars
  BY PTL DEF PageSpec
<1> QED
  BY <1>1, <1>2, <1>3, PTL

(***************************************************************************)
(* No published snapshot shows a decision without its audit record, at     *)
(* whatever moments its two tables are read.                               *)
(***************************************************************************)
THEOREM EvidenceIsAudited == PageSpec => []NoUnauditedDecision
<1>1. ServiceInv /\ PageInv => NoUnauditedDecision
  BY DEF PageInv, ReadInv, NoUnauditedDecision
<1> QED
  BY <1>1, PageInvariance, PTL

(***************************************************************************)
(* Who is shown "ok" is then shown the decision.                           *)
(***************************************************************************)
THEOREM ClicksAreShown == PageSpec => []EvidenceShowsAnswer
<1>1. ServiceInv /\ PageInv => EvidenceShowsAnswer
  BY DEF PageInv, ClickInv, EvidenceShowsAnswer
<1> QED
  BY <1>1, PageInvariance, PTL
=============================================================================
