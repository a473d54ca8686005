--------------------------- MODULE EvidenceReader ---------------------------
(***************************************************************************)
(* The evidence endpoint (OrderResources::evidence) running beside the     *)
(* workflow.  Each read takes the decisions, then the audits, then the     *)
(* ledger, each at a moment of its own, and publishes them as one          *)
(* snapshot.  The ledger's part is taken under one lock and left out of    *)
(* the snapshot here.                                                      *)
(***************************************************************************)
EXTENDS OrderAuthorization

CONSTANTS
    Reads,      \* the GET requests for evidence
    Adapter     \* the service's front: native or hybrid

ASSUME AdapterAssumption == Adapter \in {"native", "hybrid"}

VARIABLES
    reading,        \* per read: idle, decisions, audits, effects, done, the
                    \* code of its fault, lost with the process or, once its
                    \* client has taken the answer, shown
    snapshot        \* per read, EvidenceSnapshot

readerVars == <<reading, snapshot>>

EvidenceFaultCodes == {"decision_evidence_read_failed", "audit_evidence_read_failed"}

EmptySnapshot == [decisions |-> {}, audits |-> <<>>]

ReaderInit ==
    /\ Init
    /\ reading = [r \in Reads |-> "idle"]
    /\ snapshot = [r \in Reads |-> EmptySnapshot]

BeginRead(r) ==
    /\ reading[r] = "idle"
    /\ reading' = [reading EXCEPT ![r] = "decisions"]
    /\ UNCHANGED snapshot

ReadDecisions(r) ==
    /\ reading[r] = "decisions"
    /\ snapshot' = [snapshot EXCEPT ![r].decisions = decisions]
    /\ reading' = [reading EXCEPT ![r] = "audits"]

ReadAudits(r) ==
    /\ reading[r] = "audits"
    /\ snapshot' = [snapshot EXCEPT ![r].audits = audits]
    /\ reading' = [reading EXCEPT ![r] = "effects"]

\* Mutant of ReadEffects: the decisions are read once more, after the audits
ReadEffectsThenDecisions(r) ==
    /\ reading[r] = "effects"
    /\ snapshot' = [snapshot EXCEPT ![r].decisions = decisions]
    /\ reading' = [reading EXCEPT ![r] = "done"]

ReadEffects(r) ==
    /\ reading[r] = "effects"
    /\ reading' = [reading EXCEPT ![r] = "done"]
    /\ UNCHANGED snapshot

\* Mutant of ReadFails: a store read that failed is tried again
ReadRetries(r) ==
    /\ reading[r] \in {"decisions", "audits"}
    /\ LookupFailed \in StoreFaults
    /\ reading' = [reading EXCEPT ![r] = "decisions"]
    /\ UNCHANGED snapshot

\* evidence_fault: a store read failed, nothing is published
ReadFails(r) ==
    /\ reading[r] \in {"decisions", "audits"}
    /\ LookupFailed \in StoreFaults
    /\ reading' = [reading EXCEPT ![r] =
                     IF @ = "decisions" THEN "decision_evidence_read_failed"
                                        ELSE "audit_evidence_read_failed"]
    /\ snapshot' = [snapshot EXCEPT ![r] = EmptySnapshot]

\* the status of an evidence fault.  The hybrid handler hands it to
\* AuthorizationHttpResponse::fault; the native one leaves it to the framework.
EvidenceFaultStatus(code) ==
    IF Adapter = "native" THEN 500 ELSE FaultStatus(code)

Read(r) == ReadDecisions(r) \/ ReadAudits(r) \/ ReadEffects(r) \/ ReadFails(r)

Underway(r) == reading[r] \in {"decisions", "audits", "effects"}

\* a crash drops the reads with everything else that was running
CrashRead ==
    /\ Restart
    /\ reading' = [r \in Reads |-> IF Underway(r) THEN "lost" ELSE reading[r]]
    /\ snapshot' = [r \in Reads |-> IF Underway(r) THEN EmptySnapshot ELSE snapshot[r]]

-----------------------------------------------------------------------------
(***************************************************************************)
(* A published snapshot shows no decision without its audit record, though *)
(* the two tables are read at different times: the audits are read last.   *)
(* (It may show an audit whose decision it misses.)                        *)
(***************************************************************************)
NoUnauditedDecision ==
    \A r \in Reads : reading[r] = "done" =>
        \A d \in snapshot[r].decisions : \E i \in DOMAIN snapshot[r].audits :
            snapshot[r].audits[i] = d

(***************************************************************************)
(* A read that has begun is published, answered with a fault or lost.      *)
(***************************************************************************)
ReadsEnd ==
    \A r \in Reads :
        reading[r] = "decisions" ~> ~Underway(r)

(***************************************************************************)
(* "`backend/src/http_contract.rs` is the single status/envelope mapping   *)
(* used by native and hybrid paths" (README.md:43-44): the status of an    *)
(* evidence fault is the one that mapping gives its code.                  *)
(***************************************************************************)
EvidenceFaultsAreMapped ==
    \A r \in Reads : reading[r] \in EvidenceFaultCodes =>
        EvidenceFaultStatus(reading[r]) = FaultStatus(reading[r])
=============================================================================
