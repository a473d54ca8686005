---------------------------- MODULE ReferencePage ---------------------------
(***************************************************************************)
(* The page of frontend/index.html behind its proxy: a button that sends   *)
(* one authorization per click and then refreshes the evidence counters,   *)
(* and a refresh when the page is loaded.  JavaScript runs to the next     *)
(* await: an action is what happens between two.  Refreshes may overlap,   *)
(* and the counters of the one that ends last stay.                        *)
(*                                                                         *)
(* A fetch fails when the proxy gives up (proxy_read_timeout) or the       *)
(* service is gone; the execution behind it may go on.                     *)
(***************************************************************************)
EXTENDS EvidenceReader

CONSTANTS
    Clicks,         \* the attempts that are clicks on the page's button
    AfterClick(_)   \* the read that the handler of a click begins

Load == CHOOSE r \in Reads : \A a \in Clicks : r # AfterClick(a)

ASSUME PageAssumption ==
    /\ Clicks \subseteq Attempts
    /\ \A a \in Clicks : AfterClick(a) \in Reads
    /\ \E r \in Reads : \A a \in Clicks : r # AfterClick(a)

VARIABLES
    awaited,        \* the clicks whose fetch has not ended
    disabled,       \* is the button disabled?
    result          \* the result text: the click whose answer it shows, if any

pageVars == <<awaited, disabled, result>>
allPageVars == <<vars, readerVars, pageVars>>

PageInit ==
    /\ ReaderInit
    /\ awaited = {}
    /\ disabled = FALSE
    /\ result = {}

\* the handler of the button up to its fetch
Click(a) ==
    /\ ~disabled
    /\ Arrive(a)
    /\ awaited' = awaited \cup {a}
    /\ disabled' = TRUE
    /\ result' = {}
    /\ UNCHANGED readerVars

\* Mutant of ShowAnswer: the refresh joins one that is already under way
ShowAnswerWithLoad(a) ==
    /\ a \in awaited
    /\ pc[a] = "answered"
    /\ reading[AfterClick(a)] = "idle"
    /\ awaited' = awaited \ {a}
    /\ disabled' = FALSE
    /\ result' = {a}
    /\ reading' = [reading EXCEPT ![AfterClick(a)] = reading[Load]]
    /\ snapshot' = [snapshot EXCEPT ![AfterClick(a)] = snapshot[Load]]
    /\ UNCHANGED vars

\* the answer is shown; `finally' enables the button and refreshes
ShowAnswer(a) ==
    /\ a \in awaited
    /\ pc[a] = "answered"
    /\ awaited' = awaited \ {a}
    /\ disabled' = FALSE
    /\ result' = {a}
    /\ BeginRead(AfterClick(a))
    /\ UNCHANGED vars

\* Mutant of ShowFailure: the button is enabled on success only
ShowFailureOnly(a) ==
    /\ a \in awaited
    /\ awaited' = awaited \ {a}
    /\ BeginRead(AfterClick(a))
    /\ UNCHANGED <<disabled, result, vars>>

\* the fetch of the click rejects, or its answer is not JSON
ShowFailure(a) ==
    /\ a \in awaited
    /\ awaited' = awaited \ {a}
    /\ disabled' = FALSE
    /\ BeginRead(AfterClick(a))
    /\ UNCHANGED <<result, vars>>

\* refreshEvidence, when the page is loaded
LoadPage == BeginRead(Load) /\ UNCHANGED <<vars, pageVars>>

Serve(r) == Read(r) /\ UNCHANGED <<vars, pageVars>>

\* the counters, or "error", are shown
ShowEvidence(r) ==
    /\ reading[r] \in EvidenceFaultCodes \cup {"done", "lost"}
    /\ reading' = [reading EXCEPT ![r] = "shown"]
    /\ snapshot' = [snapshot EXCEPT ![r] = EmptySnapshot]
    /\ UNCHANGED <<vars, pageVars>>

\* everything that is no step of this page: executions, other clients
Elsewhere ==
    /\ \/ \E a \in Attempts \ Clicks : Arrive(a)
       \/ \E a \in Attempts : Run(a) \/ Drop(a) \/ AbandonCommit(a)
       \/ Settle
    /\ UNCHANGED <<readerVars, pageVars>>

CrashBehindPage == CrashRead /\ UNCHANGED pageVars

\* a page nobody clicks on any more
Unused == Quiescent /\ awaited = {} /\ UNCHANGED <<readerVars, pageVars>>

PageNext ==
    \/ \E a \in Clicks : Click(a) \/ ShowAnswer(a) \/ ShowFailure(a)
    \/ LoadPage
    \/ \E r \in Reads : Serve(r) \/ ShowEvidence(r)
    \/ Elsewhere
    \/ CrashBehindPage
    \/ Unused

\* a read goes on when it can, a fetch ends: the proxy waits 30 seconds
PageSpec ==
    /\ PageInit
    /\ [][PageNext]_allPageVars
    /\ \A r \in Reads : WF_allPageVars(Serve(r))
    /\ \A a \in Clicks : WF_allPageVars(ShowAnswer(a) \/ ShowFailure(a))

-----------------------------------------------------------------------------
(***************************************************************************)
(* Who is shown "ok" is then shown the decision: the refresh that follows  *)
(* a click reads it, whatever crashes, conflicts or late commits come in   *)
(* between, and whatever earlier refreshes are still under way.            *)
(***************************************************************************)
EvidenceShowsAnswer ==
    \A a \in Clicks :
        /\ reading[AfterClick(a)] = "done"
        /\ result = {a}
        /\ answer[a].code = "ok"
        => [request |-> request[a], outcome |-> answer[a].outcome]
             \in snapshot[AfterClick(a)].decisions

(***************************************************************************)
(* The button recovers: whatever becomes of a click's request, the page    *)
(* can be used again.                                                      *)
(***************************************************************************)
ButtonRecovers == disabled ~> ~disabled
=============================================================================
