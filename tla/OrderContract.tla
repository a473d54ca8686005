---------------------------- MODULE OrderContract ---------------------------
(***************************************************************************)
(* What the order-authorization service promises, whatever happens inside: *)
(* a register that gives each idempotency key at most one decision, to     *)
(* the first eligible request that gets it, and replies that follow the    *)
(* register.  It has no effects, no transactions, no faults: a reply       *)
(* "unavailable" may be given at any time, and a decision may be taken     *)
(* although nobody is told.                                                *)
(***************************************************************************)
CONSTANTS
    Attempts,       \* the HTTP requests
    Requests,       \* their bodies
    KeyOf(_),       \* the idempotency key of a request
    Verdict(_)      \* the outcome the service decides for an eligible
                    \* request, "refused" for any other

VARIABLES
    request,        \* per attempt, the body it carries
    register,       \* the decisions taken
    reply           \* per attempt, what its client has been told

contractVars == <<request, register, reply>>

Registered(key) == { d \in register : KeyOf(d.request) = key }

ContractInit ==
    /\ request \in [Attempts -> Requests]
    /\ register = {}
    /\ reply = [a \in Attempts |-> "none"]

\* the first eligible request with a key gets its decision
Decide(a) ==
    /\ Verdict(request[a]) # "refused"
    /\ Registered(KeyOf(request[a])) = {}
    /\ register' = register \cup
         {[request |-> request[a], outcome |-> Verdict(request[a])]}
    /\ UNCHANGED <<request, reply>>

Tell(a, what) ==
    /\ reply[a] = "none"
    /\ reply' = [reply EXCEPT ![a] = what]
    /\ UNCHANGED <<request, register>>

TellOutcome(a) ==
    \E d \in register : d.request = request[a] /\ Tell(a, d.outcome)

TellConflict(a) ==
    /\ \E d \in Registered(KeyOf(request[a])) : d.request # request[a]
    /\ Tell(a, "conflict")

TellRefused(a) ==
    /\ Verdict(request[a]) = "refused"
    /\ Tell(a, "refused")

TellUnavailable(a) == Tell(a, "unavailable")

ContractNext ==
    \E a \in Attempts :
        \/ Decide(a)
        \/ TellOutcome(a)
        \/ TellConflict(a)
        \/ TellRefused(a)
        \/ TellUnavailable(a)

ContractSpec == ContractInit /\ [][ContractNext]_contractVars
=============================================================================
