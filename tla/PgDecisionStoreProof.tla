------------------------- MODULE PgDecisionStoreProof -------------------------
(***************************************************************************)
(* The transaction of record: proofs that it implements AtomicStore, the   *)
(* atomic step the workflow takes it for, and of OneAuditedDecisionPerKey, *)
(* for any number of calls, bodies and keys and any failing statements.    *)
(*                                                                         *)
(* What the unique index does is HoldInv: a key has one holder, from the   *)
(* insertion of its row to the end of the transaction, and no row of the   *)
(* key is committed or on its way meanwhile.                               *)
(***************************************************************************)
EXTENDS PgDecisionStore, TLAPS

Steps == {"begin", "check", "insert", "lookup", "rollback", "audit", "commit", "wait",
          "committed", "aborted", "done", "gone"}

Statuses == {"none", "inserted", "existing", "gone", "decision_write_failed",
             "decision_commit_ack_lost"}
              \cup DefiniteCodes \cup ConflictPathCodes \cup {CommitLost}

PgTypeOK ==
    /\ decisions \subseteq Decision
    /\ unsettled \subseteq Decision
    /\ audits \in Seq(Decision)
    /\ row \in [Calls -> Rows]
    /\ mode \in [Calls -> Modes]
    /\ step \in [Calls -> Steps]
    /\ reply \in [Calls -> [status : Statuses, found : SUBSET Decision]]

\* the transaction of c has entered its row into the index of the key
Holds(c) == step[c] \in {"audit", "commit", "wait"}

HoldInv ==
    /\ \A b, c \in Calls : b # c /\ Holds(b) /\ Holds(c) => KeyOf(b) # KeyOf(c)
    /\ \A c \in Calls : Holds(c) => \A d \in decisions : d.request.key # KeyOf(c)
    /\ \A c \in Calls : step[c] \in {"audit", "commit"} =>
         \A d \in unsettled : d.request.key # KeyOf(c)
    /\ \A c \in Calls : step[c] = "wait" => row[c] \in unsettled

\* a row is committed or on its way, and no other one has its key
KeyInv ==
    /\ \A d, e \in decisions \cup unsettled : d.request.key = e.request.key => d = e
    /\ decisions \cap unsettled = {}

AuditInv ==
    /\ \A d \in decisions : \E i \in DOMAIN audits : audits[i] = d
    /\ \A i \in DOMAIN audits : audits[i] \in decisions
    /\ \A i, j \in DOMAIN audits : audits[i] = audits[j] => i = j

UntoldInv ==
    \A c \in Calls : step[c] \notin {"done", "gone"} => reply[c] = Returned("none", {})

PgInv == PgTypeOK /\ HoldInv /\ KeyInv /\ AuditInv /\ UntoldInv

-----------------------------------------------------------------------------
(***************************************************************************)
(* What the steps have in common.                                          *)
(***************************************************************************)
\* the step of c: it goes on, or returns
Goes(c) ==
    /\ UNCHANGED <<row, mode>>
    /\ step' \in [Calls -> Steps]
    /\ reply' \in [Calls -> [status : Statuses, found : SUBSET Decision]]
    /\ \A b \in Calls \ {c} : step'[b] = step[b] /\ reply'[b] = reply[b]
    /\ step'[c] \notin {"done", "gone"} => reply'[c] = Returned("none", {})

LEMMA GotoGoes ==
    ASSUME PgInv, NEW c \in Calls, NEW next \in Steps \ {"done", "gone"},
           step[c] \notin {"done", "gone"}, Goto(c, next)
    PROVE  Goes(c) /\ step'[c] = next /\ reply' = reply
BY DEF PgInv, PgTypeOK, UntoldInv, Goto, Goes

LEMMA ReturnGoes ==
    ASSUME PgInv, NEW c \in Calls, NEW status \in Statuses,
           NEW found \in SUBSET Decision, Return(c, status, found)
    PROVE  Goes(c) /\ step'[c] = "done" /\ reply'[c] = Returned(status, found)
BY DEF PgInv, PgTypeOK, Return, Goes, Steps, Returned

LEMMA FailsGoes ==
    ASSUME PgInv, NEW c \in Calls, NEW code, Fails(c, code)
    PROVE  /\ Goes(c) /\ step'[c] = "done" /\ reply'[c] = Returned(code, {})
           /\ code \in StoreFaults
<1>1. code \in StoreFaults /\ Return(c, code, {})
  BY DEF Fails
<1>2. code \in Statuses
  BY <1>1, StoreFaultsAssumption DEF Statuses
<1>3. {} \in SUBSET Decision
  OBVIOUS
<1> QED
  BY <1>1, <1>2, <1>3, ReturnGoes

\* a statement that leaves the tables alone, of a call that holds no key after it
LEMMA QuietStep ==
    ASSUME PgInv, NEW c \in Calls, Goes(c), UNCHANGED storeVars,
           step'[c] \notin {"audit", "commit", "wait"}
    PROVE  PgInv'
<1> USE DEF PgInv
<1>1. PgTypeOK'
  BY DEF PgTypeOK, Goes, storeVars
<1>2. HoldInv'
  BY DEF HoldInv, Holds, KeyOf, Goes, storeVars
<1>3. KeyInv' /\ AuditInv'
  BY DEF KeyInv, AuditInv, storeVars
<1>4. UntoldInv'
  BY DEF UntoldInv, Goes
<1> QED
  BY <1>1, <1>2, <1>3, <1>4

\* committing a row that no audit is about keeps rows and audits matched
LEMMA CommitKeepsAudits ==
    ASSUME PgTypeOK, AuditInv, NEW d \in Decision, d \notin decisions,
           decisions' = decisions \cup {d}, audits' = Append(audits, d)
    PROVE  AuditInv' /\ audits' \in Seq(Decision)
<1>1. /\ audits \in Seq(Decision)
      /\ DOMAIN audits = 1..Len(audits)
      /\ Len(audits) \in Nat
  BY DEF PgTypeOK
<1>2. /\ DOMAIN audits' = 1..(Len(audits) + 1)
      /\ \A i \in DOMAIN audits : audits'[i] = audits[i]
      /\ audits'[Len(audits) + 1] = d
      /\ audits' \in Seq(Decision)
  BY <1>1
<1>3. \A i \in DOMAIN audits' : i \in DOMAIN audits \/ i = Len(audits) + 1
  BY <1>1, <1>2
<1>4. \A e \in decisions' : \E i \in DOMAIN audits' : audits'[i] = e
  <2>1. ASSUME NEW e \in decisions
        PROVE  \E i \in DOMAIN audits' : audits'[i] = e
    <3>1. PICK i \in DOMAIN audits : audits[i] = e
      BY DEF AuditInv
    <3> QED
      BY <1>1, <1>2, <3>1
  <2>2. Len(audits) + 1 \in DOMAIN audits'
    BY <1>1, <1>2
  <2> QED
    BY <1>2, <2>1, <2>2
<1>5. \A i \in DOMAIN audits' : audits'[i] \in decisions'
  BY <1>2, <1>3 DEF AuditInv
<1>6. \A i, j \in DOMAIN audits' : audits'[i] = audits'[j] => i = j
  BY <1>2, <1>3 DEF AuditInv
<1> QED
  BY <1>2, <1>4, <1>5, <1>6 DEF AuditInv

(***************************************************************************)
(* A row on its way is committed, or rolled back.                          *)
(***************************************************************************)
LEMMA SettledTables ==
    ASSUME PgInv, NEW d, SettleCommit(d) \/ SettleAbort(d)
    PROVE  /\ decisions' \subseteq Decision /\ unsettled' \subseteq Decision
           /\ audits' \in Seq(Decision)
           /\ KeyInv' /\ AuditInv'
           /\ d \in unsettled /\ unsettled' = unsettled \ {d}
           /\ decisions' \in {decisions, decisions \cup {d}}
<1> USE DEF PgInv
<1>1. d \in unsettled /\ d \in Decision /\ unsettled' = unsettled \ {d}
  BY DEF SettleCommit, SettleAbort, PgTypeOK
<1>2. CASE SettleCommit(d)
  <2>1. decisions' = decisions \cup {d} /\ audits' = Append(audits, d)
    BY <1>2 DEF SettleCommit
  <2>2. d \notin decisions
    BY <1>1 DEF KeyInv
  <2>3. AuditInv' /\ audits' \in Seq(Decision)
    BY <1>1, <2>1, <2>2, CommitKeepsAudits
  <2>4. KeyInv'
    BY <1>1, <2>1 DEF KeyInv
  <2> QED
    BY <1>1, <2>1, <2>3, <2>4 DEF PgTypeOK
<1>3. CASE SettleAbort(d)
  <2>1. decisions' = decisions /\ audits' = audits
    BY <1>3 DEF SettleAbort
  <2> QED
    BY <1>1, <2>1 DEF PgTypeOK, KeyInv, AuditInv
<1> QED
  BY <1>2, <1>3

-----------------------------------------------------------------------------
(***************************************************************************)
(* The statements that take, keep or release a key.                        *)
(***************************************************************************)
LEMMA InsertRowKeeps ==
    ASSUME PgInv, NEW c \in Calls, step[c] = "insert",
           SameKey(c, decisions \cup InProgress(c)) = {}, Goto(c, "audit"),
           UNCHANGED storeVars
    PROVE  PgInv'
<1> USE DEF PgInv
<1>1. Goes(c) /\ step'[c] = "audit" /\ reply' = reply
  BY GotoGoes DEF Steps
<1>2. \A d \in decisions \cup unsettled : d.request.key # KeyOf(c)
  BY DEF SameKey, InProgress
<1>3. \A b \in Calls \ {c} : Holds(b) => KeyOf(b) # KeyOf(c)
  <2>1. ASSUME NEW b \in Calls \ {c}, step[b] \in {"audit", "commit"}
        PROVE  KeyOf(b) # KeyOf(c)
    <3>1. row[b] \in InProgress(c)
      BY <2>1 DEF InProgress
    <3> QED
      BY <3>1 DEF SameKey, KeyOf
  <2>2. ASSUME NEW b \in Calls \ {c}, step[b] = "wait"
        PROVE  KeyOf(b) # KeyOf(c)
    BY <1>2, <2>2 DEF HoldInv, KeyOf
  <2> QED
    BY <2>1, <2>2 DEF Holds
<1>4. HoldInv'
  BY <1>1, <1>2, <1>3 DEF HoldInv, Holds, KeyOf, Goes, storeVars
<1>5. PgTypeOK' /\ KeyInv' /\ AuditInv' /\ UntoldInv'
  BY <1>1 DEF PgTypeOK, KeyInv, AuditInv, UntoldInv, Goes, storeVars
<1> QED
  BY <1>4, <1>5

LEMMA InsertAuditKeeps ==
    ASSUME PgInv, NEW c \in Calls, step[c] = "audit", Goto(c, "commit"),
           UNCHANGED storeVars
    PROVE  PgInv'
<1> USE DEF PgInv
<1>1. Goes(c) /\ step'[c] = "commit" /\ reply' = reply
  BY GotoGoes DEF Steps
<1>2. HoldInv'
  BY <1>1 DEF HoldInv, Holds, KeyOf, Goes, storeVars
<1>3. PgTypeOK' /\ KeyInv' /\ AuditInv' /\ UntoldInv'
  BY <1>1 DEF PgTypeOK, KeyInv, AuditInv, UntoldInv, Goes, storeVars
<1> QED
  BY <1>2, <1>3

LEMMA SendCommitKeeps ==
    ASSUME PgInv, NEW c \in Calls, SendCommit(c)
    PROVE  PgInv'
<1> USE DEF PgInv
<1>1. /\ step[c] = "commit"
      /\ unsettled' = unsettled \cup {row[c]}
      /\ decisions' = decisions /\ audits' = audits
  BY DEF SendCommit, LeaveUnsettled
<1>2. Goes(c) /\ step'[c] = "wait" /\ reply' = reply
  BY GotoGoes DEF SendCommit, Steps
<1>3. row[c] \in Decision
  BY RowsAssumption DEF PgTypeOK
<1>4. \A d \in decisions \cup unsettled : d.request.key # row[c].request.key
  BY <1>1 DEF HoldInv, Holds, KeyOf
<1>5. KeyInv'
  BY <1>1, <1>4 DEF KeyInv
<1>6. HoldInv'
  BY <1>1, <1>2 DEF HoldInv, Holds, KeyOf, Goes
<1>7. PgTypeOK' /\ AuditInv' /\ UntoldInv'
  BY <1>1, <1>2, <1>3 DEF PgTypeOK, AuditInv, UntoldInv, Goes
<1> QED
  BY <1>5, <1>6, <1>7

LEMMA CommitEndsKeeps ==
    ASSUME PgInv, NEW c \in Calls, ExecuteCommit(c) \/ AbortCommit(c)
    PROVE  PgInv'
<1> USE DEF PgInv
<1>1. step[c] = "wait" /\ (SettleCommit(row[c]) \/ SettleAbort(row[c]))
  BY DEF ExecuteCommit, AbortCommit
<1>2. Goes(c) /\ step'[c] \in {"committed", "aborted"} /\ reply' = reply
  BY <1>1, GotoGoes DEF ExecuteCommit, AbortCommit, Steps
<1>3. /\ decisions' \subseteq Decision /\ unsettled' \subseteq Decision
      /\ audits' \in Seq(Decision)
      /\ KeyInv' /\ AuditInv'
      /\ row[c] \in unsettled /\ unsettled' = unsettled \ {row[c]}
      /\ decisions' \in {decisions, decisions \cup {row[c]}}
  BY <1>1, SettledTables
<1>4. \A b \in Calls \ {c} : Holds(b) => KeyOf(b) # KeyOf(c)
  BY <1>1 DEF HoldInv, Holds
<1>5. HoldInv'
  <2>1. \A b \in Calls : Holds(b)' => b # c /\ Holds(b) /\ KeyOf(b)' = KeyOf(b)
    BY <1>2 DEF Holds, Goes, KeyOf
  <2>2. \A b \in Calls : Holds(b)' => row[b] # row[c] /\ row'[b] = row[b]
    BY <1>2, <1>4, <2>1 DEF KeyOf, Goes
  <2>3. \A b \in Calls : Holds(b)' => \A d \in decisions' : d.request.key # KeyOf(b)'
    BY <1>3, <1>4, <2>1 DEF HoldInv, KeyOf
  <2>4. \A b \in Calls : step'[b] \in {"audit", "commit"} =>
          \A d \in unsettled' : d.request.key # KeyOf(b)'
    BY <1>2, <1>3, <2>1 DEF HoldInv, Holds, Goes
  <2>5. \A b \in Calls : step'[b] = "wait" => row'[b] \in unsettled'
    BY <1>2, <1>3, <2>2 DEF HoldInv, Holds, Goes
  <2> QED
    BY <2>1, <2>3, <2>4, <2>5 DEF HoldInv
<1>6. PgTypeOK' /\ UntoldInv'
  BY <1>2, <1>3 DEF PgTypeOK, UntoldInv, Goes
<1> QED
  BY <1>3, <1>5, <1>6

LEMMA SettleOrphanKeeps ==
    ASSUME PgInv, SettleOrphan
    PROVE  PgInv'
<1> USE DEF PgInv
<1>1. PICK d \in Orphans : SettleCommit(d) \/ SettleAbort(d)
  BY DEF SettleOrphan
<1>2. UNCHANGED callVars
  BY DEF SettleOrphan
<1>3. /\ decisions' \subseteq Decision /\ unsettled' \subseteq Decision
      /\ audits' \in Seq(Decision)
      /\ KeyInv' /\ AuditInv'
      /\ d \in unsettled /\ unsettled' = unsettled \ {d}
      /\ decisions' \in {decisions, decisions \cup {d}}
  BY <1>1, SettledTables
<1>4. \A c \in Calls : step[c] = "wait" => row[c] \in unsettled /\ row[c] # d
  BY <1>1 DEF HoldInv, Orphans
<1>5. \A c \in Calls : Holds(c) => d.request.key # KeyOf(c)
  BY <1>3, <1>4 DEF HoldInv, Holds, KeyInv, KeyOf
<1>6. HoldInv'
  BY <1>2, <1>3, <1>4, <1>5 DEF HoldInv, Holds, KeyOf, callVars
<1>7. PgTypeOK' /\ UntoldInv'
  BY <1>2, <1>3 DEF PgTypeOK, UntoldInv, callVars
<1> QED
  BY <1>3, <1>6, <1>7

-----------------------------------------------------------------------------
(***************************************************************************)
(* The other statements: the call goes on, returns or is dropped, holding  *)
(* no key after it.                                                        *)
(***************************************************************************)
Quiet(c) ==
    \/ Begin(c) \/ CheckKey(c) \/ LookUp(c) \/ RollBack(c) \/ Acknowledge(c)
    \/ LoseAnswer(c) \/ Abandon(c)
    \/ InsertRow(c) /\ step'[c] # "audit"
    \/ InsertAudit(c) /\ step'[c] # "commit"

LEMMA AbandonGoes ==
    ASSUME PgInv, NEW c \in Calls, Abandon(c)
    PROVE  Goes(c) /\ step'[c] = "gone" /\ reply'[c] = Returned("gone", {})
BY DEF PgInv, PgTypeOK, Abandon, Goes, Steps, Statuses, Returned

LEMMA QuietGoes ==
    ASSUME PgInv, NEW c \in Calls, Quiet(c)
    PROVE  Goes(c) /\ UNCHANGED storeVars /\ step'[c] \notin {"audit", "commit", "wait"}
<1> DEFINE Goal == Goes(c) /\ step'[c] \notin {"audit", "commit", "wait"}
<1>1. UNCHANGED storeVars
  BY DEF Quiet, Begin, CheckKey, LookUp, RollBack, Acknowledge, LoseAnswer, Abandon,
         InsertRow, InsertAudit
<1>2. ASSUME NEW next \in {"check", "insert", "lookup", "rollback"},
             step[c] \notin {"done", "gone"}, Goto(c, next)
      PROVE  Goal
  BY <1>2, GotoGoes DEF Steps
<1>3. ASSUME NEW code, Fails(c, code) PROVE Goal
  BY <1>3, FailsGoes
<1>4. ASSUME NEW status \in Statuses, NEW found \in SUBSET Decision,
             Return(c, status, found)
      PROVE  Goal
  BY <1>4, ReturnGoes
<1>5. /\ {"decision_write_failed", "decision_insert_failed", "existing", "inserted",
          "decision_commit_ack_lost"} \subseteq Statuses
      /\ {} \in SUBSET Decision
  BY DEF Statuses, DefiniteCodes
<1> HIDE DEF Goal
<1>6. ASSUME Begin(c) PROVE Goal
  BY <1>2, <1>3, <1>4, <1>5, <1>6 DEF Begin
<1>7. ASSUME CheckKey(c) PROVE Goal
  BY <1>2, <1>3, <1>7 DEF CheckKey
<1>8. ASSUME LookUp(c) PROVE Goal
  BY <1>2, <1>3, <1>8 DEF LookUp
<1>9. ASSUME RollBack(c) PROVE Goal
  <2>1. ASSUME NEW d \in Find(KeyOf(c)), Return(c, "existing", {d}) PROVE Goal
    <3>1. {d} \in SUBSET Decision
      BY DEF Find, PgInv, PgTypeOK
    <3> QED
      BY <1>4, <1>5, <2>1, <3>1
  <2> QED
    BY <1>3, <1>9, <2>1 DEF RollBack
<1>10. ASSUME Acknowledge(c) PROVE Goal
  BY <1>4, <1>5, <1>10 DEF Acknowledge
<1>11. ASSUME LoseAnswer(c) PROVE Goal
  BY <1>3, <1>11 DEF LoseAnswer
<1>12. ASSUME Abandon(c) PROVE Goal
  BY <1>12, AbandonGoes DEF Goal
<1>13. ASSUME InsertRow(c) /\ step'[c] # "audit" PROVE Goal
  <2>1. ~Goto(c, "audit")
    BY <1>13 DEF Goto, PgInv, PgTypeOK
  <2> QED
    BY <1>2, <1>3, <1>4, <1>5, <1>13, <2>1 DEF InsertRow
<1>14. ASSUME InsertAudit(c) /\ step'[c] # "commit" PROVE Goal
  <2>1. ~Goto(c, "commit")
    BY <1>14 DEF Goto, PgInv, PgTypeOK
  <2> QED
    BY <1>3, <1>14, <2>1 DEF InsertAudit
<1>15. Goal
  BY <1>6, <1>7, <1>8, <1>9, <1>10, <1>11, <1>12, <1>13, <1>14 DEF Quiet
<1> QED
  BY <1>1, <1>15 DEF Goal

-----------------------------------------------------------------------------
LEMMA PgInitially == PgInit => PgInv
<1> SUFFICES ASSUME PgInit PROVE PgInv
  OBVIOUS
<1>1. PgTypeOK
  BY DEF PgInit, StoreInit, PgTypeOK, Steps, Statuses, Returned
<1>2. HoldInv
  BY DEF PgInit, HoldInv, Holds
<1>3. KeyInv /\ AuditInv /\ UntoldInv
  BY DEF PgInit, StoreInit, KeyInv, AuditInv, UntoldInv
<1> QED
  BY <1>1, <1>2, <1>3 DEF PgInv

LEMMA CallKeeps ==
    ASSUME PgInv, NEW c \in Calls, Statement(c) \/ Abandon(c)
    PROVE  PgInv'
<1>1. CASE Quiet(c)
  BY <1>1, QuietGoes, QuietStep
<1>2. CASE InsertRow(c) /\ step'[c] = "audit"
  <2>1. /\ step[c] = "insert" /\ UNCHANGED storeVars
        /\ SameKey(c, decisions \cup InProgress(c)) = {} /\ Goto(c, "audit")
    BY <1>2 DEF InsertRow, Goto, Return, Fails, PgInv, PgTypeOK
  <2> QED
    BY <2>1, InsertRowKeeps
<1>3. CASE InsertAudit(c) /\ step'[c] = "commit"
  <2>1. step[c] = "audit" /\ Goto(c, "commit") /\ UNCHANGED storeVars
    BY <1>3 DEF InsertAudit, Return, Fails, PgInv, PgTypeOK
  <2> QED
    BY <2>1, InsertAuditKeeps
<1>4. CASE SendCommit(c) \/ ExecuteCommit(c) \/ AbortCommit(c)
  BY <1>4, SendCommitKeeps, CommitEndsKeeps
<1> QED
  BY <1>1, <1>2, <1>3, <1>4 DEF Statement, Quiet

LEMMA PgStep == PgInv /\ [PgNext]_pgVars => PgInv'
<1> SUFFICES ASSUME PgInv, [PgNext]_pgVars PROVE PgInv'
  OBVIOUS
<1>1. CASE UNCHANGED pgVars
  BY <1>1 DEF pgVars, callVars, storeVars, PgInv, PgTypeOK, HoldInv, Holds, KeyOf,
              KeyInv, AuditInv, UntoldInv
<1> QED
  BY <1>1, CallKeeps, SettleOrphanKeeps DEF PgNext, Finished

(***************************************************************************)
(* A key has one holder at a time, and one row, whatever statements fail   *)
(* and whenever commits land.                                              *)
(***************************************************************************)
THEOREM PgInvariance == PgSpec => []PgInv
<1>1. PgSpec => PgInit /\ [][PgNext]_pgVars
  BY PTL DEF PgSpec
<1> QED
  BY <1>1, PgInitially, PgStep, PTL

(***************************************************************************)
(* One decision per key and one audit per decision, over the statements of *)
(* record in backend/src/store.rs.                                         *)
(***************************************************************************)
THEOREM TransactionsAreAudited == PgSpec => []OneAuditedDecisionPerKey
<1>1. PgInv => OneAuditedDecisionPerKey
  BY DEF PgInv, KeyInv, AuditInv, OneAuditedDecisionPerKey
<1> QED
  BY <1>1, PgInvariance, PTL

-----------------------------------------------------------------------------
(***************************************************************************)
(* The refinement.  A call has told its caller what reply says, or has its *)
(* row stored and the answer of COMMIT on its way.                         *)
(***************************************************************************)
Told == [c \in Calls |-> IF step[c] = "committed" THEN Returned("stored", {})
                                                  ELSE reply[c]]

LEMMA ToldMoves ==
    ASSUME PgInv, NEW c \in Calls, Goes(c), NEW v,
           v = IF step'[c] = "committed" THEN Returned("stored", {}) ELSE reply'[c]
    PROVE  Told' = [Told EXCEPT ![c] = v]
BY DEF Told, Goes

LEMMA ToldStays ==
    ASSUME PgInv, NEW c \in Calls, Goes(c), reply' = reply,
           step[c] # "committed", step'[c] # "committed"
    PROVE  Told' = Told
BY DEF Told, Goes

\* nobody starts or stops waiting for a COMMIT
LEMMA OrphansStay ==
    ASSUME NEW c \in Calls, Goes(c), unsettled' = unsettled,
           step[c] # "wait", step'[c] # "wait"
    PROVE  Orphans' = Orphans
<1>1. \A e \in Calls : row'[e] = row[e] /\ (step'[e] = "wait" <=> step[e] = "wait")
  BY DEF Goes
<1> QED
  BY <1>1 DEF Orphans

\* a row that is waited for is no orphan, when its COMMIT is sent and when it ends
LEMMA OrphansMeanwhile ==
    ASSUME PgInv, NEW c \in Calls, Goes(c),
           \/ /\ step[c] = "commit" /\ step'[c] = "wait"
              /\ unsettled' = unsettled \cup {row[c]}
           \/ /\ step[c] = "wait" /\ step'[c] # "wait"
              /\ unsettled' = unsettled \ {row[c]}
    PROVE  Orphans' = Orphans
<1>1. \A e \in Calls \ {c} : row'[e] = row[e] /\ (step'[e] = "wait" <=> step[e] = "wait")
  BY DEF Goes
<1>2. row'[c] = row[c]
  BY DEF Goes
<1>3. step[c] = "commit" => row[c] \notin unsettled
  BY DEF PgInv, HoldInv, KeyOf
<1> QED
  BY <1>1, <1>2, <1>3 DEF Orphans

\* from now on nobody waits for the COMMIT of c
LEMMA OrphansLeft ==
    ASSUME PgInv, NEW c \in Calls, Goes(c), unsettled' = unsettled,
           step[c] = "wait", step'[c] # "wait"
    PROVE  Orphans' = Orphans \cup {row[c]}
<1>1. \A e \in Calls \ {c} : row'[e] = row[e] /\ (step'[e] = "wait" <=> step[e] = "wait")
  BY DEF Goes
<1>2. \A e \in Calls \ {c} : step[e] = "wait" => row[e] # row[c]
  BY DEF PgInv, HoldInv, Holds, KeyOf
<1>3. row[c] \in unsettled
  BY DEF PgInv, HoldInv
<1> QED
  BY <1>1, <1>2, <1>3 DEF Orphans

\* the key of a row whose COMMIT is on its way is free for it
LEMMA FreeForCommit ==
    ASSUME PgInv, NEW c \in Calls, step[c] = "wait"
    PROVE  Atomic!Free(c)
<1>1. \A d \in decisions : d.request.key # row[c].request.key
  BY DEF PgInv, HoldInv, Holds, KeyOf
<1>2. \A d \in Orphans : d.request.key # row[c].request.key
  <2>1. \A d \in Orphans : d \in unsettled /\ d # row[c]
    BY DEF Orphans
  <2> QED
    BY <2>1 DEF PgInv, HoldInv, KeyInv
<1> QED
  BY <1>1, <1>2 DEF Atomic!Free, Atomic!Find, Atomic!Locked, Atomic!KeyOf

-----------------------------------------------------------------------------
(***************************************************************************)
(* Each statement is a step of AtomicStore or a stutter.                   *)
(***************************************************************************)
StoreStep == [Atomic!AtomicNext]_(Atomic!atomicVars)

LEMMA Stutter ==
    ASSUME Told' = Told, Orphans' = Orphans, row' = row,
           decisions' = decisions, audits' = audits
    PROVE  StoreStep
BY DEF StoreStep, Told, Atomic!atomicVars, Atomic!storeVars

\* a call that has not sent its COMMIT fails, or is dropped
LEMMA FailureRefines ==
    ASSUME PgInv, NEW c \in Calls, Goes(c), UNCHANGED storeVars,
           step[c] \notin {"wait", "committed", "done", "gone"},
           step'[c] \in {"done", "gone"},
           NEW status, reply'[c] = Returned(status, {}),
           status \in DefiniteCodes \cup ConflictPathCodes
                        \cup {"decision_write_failed", "gone", CommitLost}
    PROVE  StoreStep
<1>1. Told' = [Told EXCEPT ![c] = Returned(status, {})]
  BY ToldMoves
<1>2. Told[c] = Returned("none", {})
  BY DEF Told, PgInv, UntoldInv
<1>3. Orphans' = Orphans
  BY OrphansStay DEF storeVars
<1>4. row' = row /\ decisions' = decisions /\ audits' = audits
  BY DEF Goes, storeVars
<1>5. CASE status \in DefiniteCodes \cup {"decision_write_failed"}
  <2>1. Atomic!FailDefinitely(c)
    BY <1>1, <1>2, <1>3, <1>4, <1>5
       DEF Told, Returned, DefiniteCodes, Atomic!FailDefinitely, Atomic!Return,
           Atomic!Returned, Atomic!NotReturned, Atomic!DefiniteCodes, Atomic!storeVars
  <2> QED
    BY <2>1 DEF StoreStep, Atomic!AtomicNext
<1>6. CASE status \in ConflictPathCodes \cup {"gone", CommitLost}
  <2>1. Atomic!FailUnknown(c)
    BY <1>1, <1>2, <1>3, <1>4, <1>6
       DEF Told, Returned, ConflictPathCodes, CommitLost, Atomic!FailUnknown,
           Atomic!Return, Atomic!Returned, Atomic!NotReturned, Atomic!UnknownCodes,
           Atomic!ConflictPathCodes, Atomic!CommitLost, Atomic!storeVars
  <2> QED
    BY <2>1 DEF StoreStep, Atomic!AtomicNext
<1> QED
  BY <1>5, <1>6

\* the answer of COMMIT does not come, or nobody is there for it
LEMMA LossRefines ==
    ASSUME PgInv, NEW c \in Calls, Goes(c), UNCHANGED storeVars,
           step[c] = "wait", step'[c] \in {"done", "gone"},
           NEW status \in {"gone", CommitLost}, reply'[c] = Returned(status, {})
    PROVE  StoreStep
<1>1. Told' = [Told EXCEPT ![c] = Returned(status, {})]
  BY ToldMoves
<1>2. Told[c] = Returned("none", {})
  BY DEF Told, PgInv, UntoldInv
<1>3. Orphans' = Orphans \cup {row[c]}
  BY OrphansLeft DEF storeVars
<1>4. row' = row /\ decisions' = decisions /\ audits' = audits
  BY DEF Goes, storeVars
<1>5. Atomic!Free(c)
  BY FreeForCommit
<1>6. Atomic!FailUnknown(c)
  BY <1>1, <1>2, <1>3, <1>4, <1>5
     DEF Told, Returned, CommitLost, Atomic!FailUnknown, Atomic!Return,
         Atomic!Returned, Atomic!NotReturned, Atomic!UnknownCodes,
         Atomic!CommitLost, Atomic!LeaveUnsettled
<1> QED
  BY <1>6 DEF StoreStep, Atomic!AtomicNext

\* the row is committed, and the caller is told, or not
LEMMA ReportRefines ==
    ASSUME PgInv, NEW c \in Calls, Goes(c), UNCHANGED storeVars,
           step[c] = "committed", step'[c] \in {"done", "gone"}, NEW status,
           status \in {"inserted", "decision_commit_ack_lost", "gone", CommitLost},
           reply'[c] = Returned(status, {})
    PROVE  StoreStep
<1>1. Told' = [Told EXCEPT ![c] = Returned(status, {})]
  BY ToldMoves
<1>2. Told[c].status = "stored"
  BY DEF Told, Returned
<1>3. Orphans' = Orphans
  BY OrphansStay DEF storeVars
<1>4. row' = row /\ decisions' = decisions /\ audits' = audits
  BY DEF Goes, storeVars
<1>5. Atomic!ReportStored(c)
  BY <1>1, <1>2, <1>3, <1>4
     DEF Told, Returned, CommitLost, Atomic!ReportStored, Atomic!Return,
         Atomic!Returned, Atomic!UnknownCodes, Atomic!CommitLost, Atomic!storeVars
<1> QED
  BY <1>5 DEF StoreStep, Atomic!AtomicNext

\* the server executes COMMIT: the row is stored
LEMMA ExecuteCommitRefines ==
    ASSUME PgInv, NEW c \in Calls, ExecuteCommit(c)
    PROVE  StoreStep
<1>1. /\ step[c] = "wait"
      /\ unsettled' = unsettled \ {row[c]}
      /\ decisions' = decisions \cup {row[c]}
      /\ audits' = Append(audits, row[c])
  BY DEF ExecuteCommit, SettleCommit
<1>2. Goes(c) /\ step'[c] = "committed" /\ row' = row
  BY GotoGoes DEF ExecuteCommit, Steps, Goes
<1>3. Told' = [Told EXCEPT ![c] = Returned("stored", {})]
  BY <1>2, ToldMoves
<1>4. Told[c] = Returned("none", {})
  BY <1>1 DEF Told, PgInv, UntoldInv
<1>5. Orphans' = Orphans
  BY <1>1, <1>2, OrphansMeanwhile
<1>6. Atomic!Free(c)
  BY <1>1, FreeForCommit
<1>7. Atomic!Store(c)
  BY <1>1, <1>2, <1>3, <1>4, <1>5, <1>6
     DEF Told, Returned, Atomic!Store, Atomic!Insert, Atomic!Return,
         Atomic!Returned, Atomic!NotReturned
<1> QED
  BY <1>7 DEF StoreStep, Atomic!AtomicNext

\* the row that was there is found
LEMMA RollBackRefines ==
    ASSUME PgInv, NEW c \in Calls, step[c] = "rollback", UNCHANGED storeVars,
           NEW d \in Find(KeyOf(c)), Return(c, "existing", {d})
    PROVE  StoreStep
<1>1. {d} \in SUBSET Decision /\ "existing" \in Statuses
  BY DEF Find, PgInv, PgTypeOK, Statuses
<1>2. Goes(c) /\ step'[c] = "done" /\ reply'[c] = Returned("existing", {d})
  BY <1>1, ReturnGoes
<1>3. Told' = [Told EXCEPT ![c] = Returned("existing", {d})]
  BY <1>2, ToldMoves
<1>4. Told[c] = Returned("none", {})
  BY DEF Told, PgInv, UntoldInv
<1>5. Orphans' = Orphans
  BY <1>2, OrphansStay DEF storeVars
<1>6. d \in Atomic!Find(Atomic!KeyOf(c))
  BY DEF Find, KeyOf, Atomic!Find, Atomic!KeyOf
<1>7. Atomic!FindExisting(c)
  BY <1>2, <1>3, <1>4, <1>5, <1>6
     DEF Told, Returned, Goes, storeVars, Atomic!FindExisting, Atomic!Return,
         Atomic!Returned, Atomic!NotReturned, Atomic!storeVars
<1> QED
  BY <1>7 DEF StoreStep, Atomic!AtomicNext

LEMMA SettleOrphanRefines ==
    ASSUME PgInv, SettleOrphan
    PROVE  StoreStep
<1>1. PICK d \in Orphans : SettleCommit(d) \/ SettleAbort(d)
  BY DEF SettleOrphan
<1>2. row' = row /\ step' = step /\ reply' = reply
  BY DEF SettleOrphan, callVars
<1>3. Orphans' = Orphans \ {d}
  <2>1. unsettled' = unsettled \ {d}
    BY <1>1 DEF SettleCommit, SettleAbort
  <2> QED
    BY <1>2, <2>1 DEF Orphans
<1>4. Told' = Told
  BY <1>2 DEF Told
<1>5. Atomic!SettleCommit(d) \/ Atomic!SettleAbort(d)
  BY <1>1, <1>3 DEF SettleCommit, SettleAbort, Atomic!SettleCommit, Atomic!SettleAbort
<1>6. Atomic!SettleLate
  BY <1>1, <1>2, <1>4, <1>5 DEF Told, Atomic!SettleLate
<1> QED
  BY <1>6 DEF StoreStep, Atomic!AtomicNext

-----------------------------------------------------------------------------
LEMMA GotoRefines ==
    ASSUME PgInv, NEW c \in Calls, UNCHANGED storeVars,
           step[c] \notin {"wait", "committed", "done", "gone"},
           NEW next \in {"check", "insert", "lookup", "rollback", "audit", "commit"},
           Goto(c, next)
    PROVE  StoreStep
<1>1. Goes(c) /\ step'[c] = next /\ reply' = reply
  BY GotoGoes DEF Steps
<1>2. Told' = Told /\ Orphans' = Orphans
  BY <1>1, ToldStays, OrphansStay DEF storeVars
<1> QED
  BY <1>1, <1>2, Stutter DEF Goes, storeVars

LEMMA FailsRefines ==
    ASSUME PgInv, NEW c \in Calls, UNCHANGED storeVars,
           step[c] \notin {"wait", "committed", "done", "gone"},
           NEW code, Fails(c, code)
    PROVE  StoreStep
<1>1. Goes(c) /\ step'[c] = "done" /\ reply'[c] = Returned(code, {})
  BY FailsGoes
<1>2. code \in DefiniteCodes \cup ConflictPathCodes \cup {CommitLost}
  BY StoreFaultsAssumption DEF Fails
<1> QED
  BY <1>1, <1>2, FailureRefines

\* a failure that the code itself makes of what it was told
LEMMA ReturnRefines ==
    ASSUME PgInv, NEW c \in Calls, UNCHANGED storeVars,
           step[c] \notin {"wait", "committed", "done", "gone"},
           NEW status \in {"decision_write_failed", "decision_insert_failed"},
           Return(c, status, {})
    PROVE  StoreStep
<1>1. status \in Statuses /\ {} \in SUBSET Decision
  BY DEF Statuses, DefiniteCodes
<1>2. Goes(c) /\ step'[c] = "done" /\ reply'[c] = Returned(status, {})
  BY <1>1, ReturnGoes
<1>3. status \in DefiniteCodes \cup {"decision_write_failed"}
  BY DEF DefiniteCodes
<1> QED
  BY <1>2, <1>3, FailureRefines

\* COMMIT is sent, or the server rolls it back: nobody can tell yet
LEMMA CommitUnderwayRefines ==
    ASSUME PgInv, NEW c \in Calls, SendCommit(c) \/ AbortCommit(c)
    PROVE  StoreStep
<1>1. CASE SendCommit(c)
  <2>1. Goes(c) /\ step[c] = "commit" /\ step'[c] = "wait" /\ reply' = reply
    BY <1>1, GotoGoes DEF SendCommit, Steps
  <2>2. Orphans' = Orphans
    BY <1>1, <2>1, OrphansMeanwhile DEF SendCommit, LeaveUnsettled
  <2> QED
    BY <1>1, <2>1, <2>2, ToldStays, Stutter DEF SendCommit, LeaveUnsettled, Goes
<1>2. CASE AbortCommit(c)
  <2>1. Goes(c) /\ step[c] = "wait" /\ step'[c] = "aborted" /\ reply' = reply
    BY <1>2, GotoGoes DEF AbortCommit, Steps
  <2>2. Orphans' = Orphans
    BY <1>2, <2>1, OrphansMeanwhile DEF AbortCommit, SettleAbort
  <2> QED
    BY <1>2, <2>1, <2>2, ToldStays, Stutter DEF AbortCommit, SettleAbort, Goes
<1> QED
  BY <1>1, <1>2

\* the caller is told the end of its COMMIT, or that nothing is known of it
LEMMA AnswerRefines ==
    ASSUME PgInv, NEW c \in Calls, Acknowledge(c) \/ LoseAnswer(c)
    PROVE  StoreStep
<1>1. CASE Acknowledge(c)
  <2>1. PICK status \in {"inserted", "decision_commit_ack_lost"} : Return(c, status, {})
    BY <1>1 DEF Acknowledge
  <2>2. status \in Statuses /\ {} \in SUBSET Decision
    BY DEF Statuses
  <2>3. Goes(c) /\ step'[c] = "done" /\ reply'[c] = Returned(status, {})
    BY <2>1, <2>2, ReturnGoes
  <2> QED
    BY <1>1, <2>3, ReportRefines DEF Acknowledge
<1>2. CASE LoseAnswer(c)
  <2>1. /\ Goes(c) /\ step'[c] = "done" /\ reply'[c] = Returned(CommitLost, {})
        /\ UNCHANGED storeVars
    BY <1>2, FailsGoes DEF LoseAnswer
  <2>2. CASE step[c] = "wait"
    BY <2>1, <2>2, LossRefines
  <2>3. CASE step[c] = "committed"
    BY <2>1, <2>3, ReportRefines
  <2>4. CASE step[c] = "aborted"
    BY <2>1, <2>4, FailureRefines
  <2> QED
    BY <1>2, <2>2, <2>3, <2>4 DEF LoseAnswer
<1> QED
  BY <1>1, <1>2

LEMMA AbandonRefines ==
    ASSUME PgInv, NEW c \in Calls, Abandon(c)
    PROVE  StoreStep
<1>1. /\ Goes(c) /\ step'[c] = "gone" /\ reply'[c] = Returned("gone", {})
      /\ UNCHANGED storeVars /\ step[c] \notin {"done", "gone"}
  BY AbandonGoes DEF Abandon
<1>2. CASE step[c] = "wait"
  BY <1>1, <1>2, LossRefines
<1>3. CASE step[c] = "committed"
  BY <1>1, <1>3, ReportRefines
<1>4. CASE step[c] \notin {"wait", "committed"}
  BY <1>1, <1>4, FailureRefines
<1> QED
  BY <1>2, <1>3, <1>4

LEMMA StatementRefines ==
    ASSUME PgInv, NEW c \in Calls, Statement(c)
    PROVE  StoreStep
<1>1. CASE Begin(c)
  BY <1>1, GotoRefines, FailsRefines, ReturnRefines DEF Begin
<1>2. CASE CheckKey(c)
  BY <1>2, GotoRefines, FailsRefines DEF CheckKey
<1>3. CASE InsertRow(c)
  BY <1>3, GotoRefines, FailsRefines, ReturnRefines DEF InsertRow
<1>4. CASE LookUp(c)
  BY <1>4, GotoRefines, FailsRefines DEF LookUp
<1>5. CASE RollBack(c)
  BY <1>5, RollBackRefines, FailsRefines DEF RollBack
<1>6. CASE InsertAudit(c)
  BY <1>6, GotoRefines, FailsRefines DEF InsertAudit
<1>7. CASE SendCommit(c) \/ AbortCommit(c)
  BY <1>7, CommitUnderwayRefines
<1>8. CASE ExecuteCommit(c)
  BY <1>8, ExecuteCommitRefines
<1>9. CASE Acknowledge(c) \/ LoseAnswer(c)
  BY <1>9, AnswerRefines
<1> QED
  BY <1>1, <1>2, <1>3, <1>4, <1>5, <1>6, <1>7, <1>8, <1>9 DEF Statement

(***************************************************************************)
(* record of backend/src/store.rs is one atomic step for its callers,      *)
(* whatever statement fails, whoever is dropped and whenever a commit      *)
(* lands: a definite failure has stored nothing and never will, an unknown *)
(* one may, and who was told "existing" was told a committed row.          *)
(***************************************************************************)
THEOREM TransactionIsAtomic == PgSpec => ImplementsAtomicStore
<1>1. PgSpec => PgInit /\ [][PgNext]_pgVars
  BY PTL DEF PgSpec
<1>2. PgInit => Atomic!AtomicInit
  <2> SUFFICES ASSUME PgInit PROVE Atomic!AtomicInit
    OBVIOUS
  <2>1. Told = [c \in Calls |-> Returned("none", {})]
    BY DEF PgInit, Told
  <2>2. Orphans = {}
    BY DEF PgInit, StoreInit, Orphans
  <2> QED
    BY <2>1, <2>2 DEF PgInit, StoreInit, Told, Returned, Atomic!AtomicInit,
                      Atomic!StoreInit, Atomic!NotReturned, Atomic!Returned
<1>3. PgInv /\ [PgNext]_pgVars => StoreStep
  <2> SUFFICES ASSUME PgInv, [PgNext]_pgVars PROVE StoreStep
    OBVIOUS
  <2>1. CASE UNCHANGED pgVars
    <3>1. Told' = Told /\ Orphans' = Orphans
      BY <2>1 DEF Told, Orphans, pgVars, callVars, storeVars
    <3> QED
      BY <2>1, <3>1, Stutter DEF pgVars, callVars, storeVars
  <2> QED
    BY <2>1, StatementRefines, AbandonRefines, SettleOrphanRefines
       DEF PgNext, Finished
<1> QED
  BY <1>1, <1>2, <1>3, PgInvariance, PTL
     DEF StoreStep, ImplementsAtomicStore, Atomic!AtomicSpec
=============================================================================
