--------------------------- MODULE CandidateRegistry ---------------------------
(***************************************************************************)
(* scripts/candidate-cargo.mjs, which runs cargo with a registry of the    *)
(* candidate crates at a fixed port, and the registries it starts          *)
(* (scripts/serve-candidate-registry.mjs).  Several wrappers may run at    *)
(* once, beside a registry that somebody starts by hand and one of another *)
(* candidate, which listens from before or is started, from another        *)
(* checkout, at any time.  Each of the two is started once.  Each wrapper  *)
(* starts one registry at most, which bears its name here.                 *)
(*                                                                         *)
(* The files served are not modelled: a fetch is a request to the registry *)
(* that holds the port.  A wrapper blocks while its cargo runs (spawnSync) *)
(* and, having sent the signal, stays until its registry has ended.        *)
(***************************************************************************)
EXTENDS Naturals

CONSTANTS
    Wrappers,   \* the runs of candidate-cargo.mjs
    ByHand,     \* the registry somebody starts
    Stale,      \* the registry of another candidate
    Probes,     \* 50
    NoRegistry

ASSUME ProbesAssumption == Probes \in Nat \ {0}
ASSUME RegistriesAssumption ==
    /\ ByHand # Stale
    /\ {ByHand, Stale} \cap Wrappers = {}
    /\ NoRegistry \notin Wrappers \cup {ByHand, Stale}

VARIABLES
    stage,      \* where each wrapper is
    probed,     \* the probes of its loop that found no registry
    registry,   \* per registry: none, starting, listening, closing, ended or
                \* crashed
    found,      \* the registry that answered each wrapper's last probe rightly:
                \* the program does not keep it, the properties speak of it
    fetching    \* the registry each cargo fetches from

registryVars == <<stage, probed, registry, found, fetching>>

Registries == Wrappers \cup {ByHand, Stale}
Over == {"done", "failed"}

RegistryInit ==
    /\ stage = [w \in Wrappers |-> "outside"]
    /\ probed = [w \in Wrappers |-> 0]
    /\ \E s \in {"none", "listening"} :
         registry = [r \in Registries |-> IF r = Stale THEN s ELSE "none"]
    /\ found = [w \in Wrappers |-> NoRegistry]
    /\ fetching = [w \in Wrappers |-> NoRegistry]

-----------------------------------------------------------------------------
(***************************************************************************)
(* A registry.                                                             *)
(***************************************************************************)
Holder(r) == registry[r] = "listening"

\* listen, or EADDRINUSE, which nobody handles
Listen(r) ==
    /\ registry[r] = "starting"
    /\ registry' = [registry EXCEPT ![r] =
                        IF \E other \in Registries : Holder(other) THEN "crashed"
                                                                   ELSE "listening"]
    /\ UNCHANGED <<stage, probed, found, fetching>>

\* SIGINT or SIGTERM: server.close stops listening and waits for responses; a
\* registry that does not listen yet ends
Signalled(r) ==
    [registry EXCEPT ![r] = CASE @ = "listening" -> "closing"
                              [] @ = "starting"  -> "ended"
                              [] OTHER           -> @]

\* the callback of server.close
Closed(r) ==
    /\ registry[r] = "closing"
    /\ \A w \in Wrappers : fetching[w] # r
    /\ registry' = [registry EXCEPT ![r] = "ended"]
    /\ UNCHANGED <<stage, probed, found, fetching>>

StartByHand ==
    \E r \in {ByHand, Stale} :
        /\ registry[r] = "none"
        /\ registry' = [registry EXCEPT ![r] = "starting"]
        /\ UNCHANGED <<stage, probed, found, fetching>>

StopByHand ==
    \E r \in {ByHand, Stale} :
        /\ Holder(r)
        /\ registry' = Signalled(r)
        /\ UNCHANGED <<stage, probed, found, fetching>>

-----------------------------------------------------------------------------
(***************************************************************************)
(* A wrapper.                                                              *)
(***************************************************************************)
Moves(w, from, to) ==
    /\ stage[w] = from
    /\ stage' = [stage EXCEPT ![w] = to]

Start(w) ==
    /\ Moves(w, "outside", "looking")
    /\ UNCHANGED <<probed, registry, found, fetching>>

\* Mutant of RightCandidate: any answer of /health.json will do
AnyCandidate(r) == TRUE

\* the health of the registry is that of the candidate in MANIFEST.json
RightCandidate(r) == r # Stale

Ready(r) == Holder(r) /\ RightCandidate(r)

\* Mutant of Probe: a probe that fails is not counted
ProbeForever(w) ==
    /\ stage[w] \in {"looking", "awaiting"}
    /\ \E r \in Registries :
         /\ Ready(r)
         /\ stage' = [stage EXCEPT ![w] = "cargo"]
         /\ found' = [found EXCEPT ![w] = r]
    /\ UNCHANGED <<probed, registry, fetching>>

\* one turn of the loop of registryReady
Probe(w) ==
    /\ stage[w] \in {"looking", "awaiting"}
    /\ probed[w] < Probes
    /\ \/ \E r \in Registries :
            /\ Ready(r)
            /\ stage' = [stage EXCEPT ![w] = "cargo"]
            /\ found' = [found EXCEPT ![w] = r]
            /\ UNCHANGED probed
       \/ /\ \A r \in Registries : ~Ready(r)
          /\ probed' = [probed EXCEPT ![w] = @ + 1]
          /\ UNCHANGED <<stage, found>>
    /\ UNCHANGED <<registry, fetching>>

Spawn(w) ==
    /\ probed[w] = Probes
    /\ Moves(w, "looking", "awaiting")
    /\ probed' = [probed EXCEPT ![w] = 0]
    /\ registry' = [registry EXCEPT ![w] = "starting"]
    /\ UNCHANGED <<found, fetching>>

\* "candidate registry did not become ready": the registry is stopped, the
\* error ends the wrapper
NotReady(w) ==
    /\ probed[w] = Probes
    /\ Moves(w, "awaiting", "failed")
    /\ registry' = Signalled(w)
    /\ UNCHANGED <<probed, found, fetching>>

\* cargo asks whoever holds the port
Fetch(w) ==
    /\ stage[w] = "cargo"
    /\ fetching[w] = NoRegistry
    /\ \E r \in Registries :
         /\ Holder(r)
         /\ fetching' = [fetching EXCEPT ![w] = r]
    /\ UNCHANGED <<stage, probed, registry, found>>

Fetched(w) ==
    /\ fetching[w] # NoRegistry
    /\ fetching' = [fetching EXCEPT ![w] = NoRegistry]
    /\ UNCHANGED <<stage, probed, registry, found>>

\* Mutant of CargoEnds: the registry at the port is stopped, whoever started it
CargoEndsAndStopsAny(w) ==
    /\ fetching[w] = NoRegistry
    /\ Moves(w, "cargo", "stopping")
    /\ registry' = [r \in Registries |-> IF Holder(r) THEN "closing" ELSE registry[r]]
    /\ UNCHANGED <<probed, found, fetching>>

\* cargo returns a status, also because nobody served it; finally stops the
\* wrapper's own registry
CargoEnds(w) ==
    /\ fetching[w] = NoRegistry
    /\ Moves(w, "cargo", "stopping")
    /\ registry' = Signalled(w)
    /\ UNCHANGED <<probed, found, fetching>>

\* Mutant of CargoMissing: no finally
CargoMissingThrows(w) ==
    /\ fetching[w] = NoRegistry
    /\ Moves(w, "cargo", "failed")
    /\ UNCHANGED <<probed, registry, found, fetching>>

\* cargo cannot be run: the error passes the finally
CargoMissing(w) ==
    /\ fetching[w] = NoRegistry
    /\ Moves(w, "cargo", "failed")
    /\ registry' = Signalled(w)
    /\ UNCHANGED <<probed, found, fetching>>

\* node leaves when its child has: at once, if it started none
Leave(w) ==
    /\ registry[w] \in {"none", "ended", "crashed"}
    /\ Moves(w, "stopping", "done")
    /\ UNCHANGED <<probed, registry, found, fetching>>

\* Ctrl-C signals the wrapper, its cargo and its registry
Interrupt(w) ==
    /\ stage[w] \notin {"outside"} \cup Over
    /\ stage' = [stage EXCEPT ![w] = "failed"]
    /\ registry' = Signalled(w)
    /\ fetching' = [fetching EXCEPT ![w] = NoRegistry]
    /\ UNCHANGED <<probed, found>>

RegistryNext ==
    \/ \E w \in Wrappers :
          \/ Start(w) \/ Probe(w) \/ Spawn(w) \/ NotReady(w)
          \/ Fetch(w) \/ Fetched(w) \/ CargoEnds(w) \/ CargoMissing(w)
          \/ Leave(w) \/ Interrupt(w)
    \/ \E r \in Registries : Listen(r) \/ Closed(r)
    \/ StartByHand
    \/ StopByHand

\* timers fire, processes run and responses are sent; nothing is assumed of
\* cargo, which may run a server, or of those at the keyboard
RegistrySpec ==
    /\ RegistryInit
    /\ [][RegistryNext]_registryVars
    /\ \A w \in Wrappers :
          /\ WF_registryVars(Probe(w))
          /\ WF_registryVars(Spawn(w))
          /\ WF_registryVars(NotReady(w))
          /\ WF_registryVars(Fetched(w))
          /\ WF_registryVars(Leave(w))
    /\ \A r \in Registries : WF_registryVars(Listen(r)) /\ WF_registryVars(Closed(r))

-----------------------------------------------------------------------------
(***************************************************************************)
(* The port is checked before cargo starts, never after.  Yet a cargo is   *)
(* served the crates of another candidate only if the registry that its    *)
(* wrapper found ready was somebody else's, who has stopped it since: the  *)
(* wait for a registry of the right candidate is not enough for a borrower *)
(* and is for a wrapper that found its own.                                *)
(***************************************************************************)
ServedOwnCandidate ==
    \A w \in Wrappers : fetching[w] = Stale =>
        /\ found[w] \in Registries \ {w, Stale}
        /\ registry[found[w]] \in {"closing", "ended"}

(***************************************************************************)
(* A registry outlives the cargo of the wrapper that started it, whatever  *)
(* other wrappers, which may have borrowed it, do when they end.           *)
(***************************************************************************)
OutlivesOwnCargo ==
    [][\A w \in Wrappers :
          Holder(w) /\ registry'[w] # "listening" =>
              ~(stage[w] = "cargo" /\ stage'[w] = "cargo")]_registryVars

(***************************************************************************)
(* A wrapper gets to its cargo or gives up, with the port held by another  *)
(* candidate or its registry crashed.                                      *)
(***************************************************************************)
ProbingEnds ==
    \A w \in Wrappers : stage[w] = "looking" ~> stage[w] \in {"cargo", "stopping"} \cup Over

(***************************************************************************)
(* A wrapper that has ended, or is about to, leaves no registry behind,    *)
(* whichever way it ended.                                                 *)
(***************************************************************************)
RegistriesEnd ==
    \A w \in Wrappers :
        stage[w] \in {"stopping"} \cup Over ~>
            registry[w] \in {"none", "ended", "crashed"}
=============================================================================
