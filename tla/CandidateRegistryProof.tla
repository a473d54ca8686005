------------------------ MODULE CandidateRegistryProof ------------------------
(***************************************************************************)
(* The wrappers of cargo and their registries: proofs of                   *)
(* ServedOwnCandidate and OutlivesOwnCargo, for any number of wrappers.    *)
(*                                                                         *)
(* A wrapper looks at who holds the port long before its cargo asks whoeve *)
(* holds it then.  What remains of what it saw (FoundInv): the registry it *)
(* found still listens, or it was another's, who has stopped it; its own   *)
(* registry is stopped by nobody else.  The port has one holder            *)
(* (OneHolder), so whoever is served by another finds the found one gone.  *)
(***************************************************************************)
EXTENDS CandidateRegistry, TLAPS

RegistryTypeOK ==
    /\ stage \in [Wrappers -> {"outside", "looking", "awaiting", "cargo",
                               "stopping"} \cup Over]
    /\ probed \in [Wrappers -> Nat]
    /\ registry \in [Registries -> {"none", "starting", "listening", "closing",
                                    "ended", "crashed"}]
    /\ found \in [Wrappers -> Registries \cup {NoRegistry}]
    /\ fetching \in [Wrappers -> Registries \cup {NoRegistry}]

\* two registries never listen at the port
OneHolder == \A r, s \in Registries : Holder(r) /\ Holder(s) => r = s

\* a wrapper starts its registry only once
OwnInv == \A w \in Wrappers : stage[w] \in {"outside", "looking"} => registry[w] = "none"

Stopped(r) == registry[r] \in {"closing", "ended"}

\* the registry found listens, or was somebody else's and has been stopped
FoundInv ==
    \A w \in Wrappers : stage[w] = "cargo" =>
        /\ found[w] \in Registries /\ RightCandidate(found[w])
        /\ Holder(found[w]) \/ (found[w] # w /\ Stopped(found[w]))

FetchInv == \A w \in Wrappers : fetching[w] # NoRegistry => stage[w] = "cargo"

CandidateInv ==
    RegistryTypeOK /\ OneHolder /\ OwnInv /\ FoundInv /\ FetchInv /\ ServedOwnCandidate

-----------------------------------------------------------------------------
(***************************************************************************)
(* What a signal does to the registries, and what follows from registries  *)
(* that only let go.                                                       *)
(***************************************************************************)
LEMMA SignalledRegistry ==
    ASSUME RegistryTypeOK, NEW r \in Registries, registry' = Signalled(r)
    PROVE  /\ registry' \in [Registries -> {"none", "starting", "listening",
                                            "closing", "ended", "crashed"}]
           /\ \A s \in Registries \ {r} : registry'[s] = registry[s]
           /\ registry'[r] \notin {"starting", "listening"}
           /\ registry[r] = "none" => registry'[r] = "none"
           /\ registry[r] = "listening" \/ Stopped(r) => registry'[r] \in {"closing", "ended"}
BY DEF RegistryTypeOK, Signalled, Stopped

\* no registry takes the port, and none that was let go starts again
LetsGo(r) ==
    /\ registry'[r] = "listening" => registry[r] = "listening"
    /\ registry[r] = "listening" => registry'[r] \in {"listening", "closing", "ended"}
    /\ Stopped(r) => registry'[r] \in {"closing", "ended"}

\* a wrapper that is with its cargo stays there, and so does its registry
StaysWithCargo(w) ==
    stage'[w] = "cargo" =>
        /\ stage[w] = "cargo" /\ found'[w] = found[w]
        /\ registry[w] = "listening" => registry'[w] = "listening"

\* a wrapper gets to its cargo
GetsToCargo(w) ==
    /\ stage[w] # "cargo" /\ stage'[w] = "cargo" /\ registry' = registry
    /\ found'[w] \in Registries /\ Ready(found'[w])

LEMMA NobodyListens ==
    ASSUME CandidateInv,
           \A r \in Registries : LetsGo(r),
           \A w \in Wrappers : StaysWithCargo(w) \/ GetsToCargo(w),
           \A w \in Wrappers : stage'[w] \in {"outside", "looking"} =>
              stage[w] \in {"outside", "looking"} /\ (registry[w] = "none" => registry'[w] = "none"),
           \A w \in Wrappers : /\ fetching'[w] \in {fetching[w], NoRegistry}
                               /\ fetching'[w] # NoRegistry => stage'[w] = stage[w]
    PROVE  OneHolder' /\ OwnInv' /\ FoundInv' /\ FetchInv' /\ ServedOwnCandidate'
<1> USE DEF CandidateInv
<1>1. Stale \in Registries /\ NoRegistry # Stale /\ Wrappers \subseteq Registries
  BY RegistriesAssumption DEF Registries
<1>2. OneHolder' /\ OwnInv'
  BY DEF OneHolder, OwnInv, Holder, LetsGo
<1>3. FoundInv'
  <2> SUFFICES ASSUME NEW w \in Wrappers, stage'[w] = "cargo"
               PROVE  /\ found'[w] \in Registries /\ RightCandidate(found'[w])
                      /\ \/ registry'[found'[w]] = "listening"
                         \/ /\ found'[w] # w
                            /\ registry'[found'[w]] \in {"closing", "ended"}
    BY DEF FoundInv, Holder, Stopped, RightCandidate
  <2>1. CASE GetsToCargo(w)
    BY <2>1 DEF GetsToCargo, Ready, Holder
  <2>2. CASE StaysWithCargo(w)
    <3>1. /\ stage[w] = "cargo" /\ found'[w] = found[w]
          /\ registry[w] = "listening" => registry'[w] = "listening"
      BY <2>2 DEF StaysWithCargo
    <3>2. /\ found[w] \in Registries /\ RightCandidate(found[w])
          /\ registry[found[w]] = "listening" \/ (found[w] # w /\ Stopped(found[w]))
      BY <3>1 DEF FoundInv, Holder
    <3> QED
      BY <3>1, <3>2 DEF LetsGo
  <2> QED
    BY <2>1, <2>2
<1>4. FetchInv'
  BY DEF FetchInv
<1>5. ServedOwnCandidate'
  <2> SUFFICES ASSUME NEW w \in Wrappers, fetching'[w] = Stale
               PROVE  /\ found'[w] \in Registries \ {w, Stale}
                      /\ registry'[found'[w]] \in {"closing", "ended"}
    BY DEF ServedOwnCandidate
  <2>1. fetching[w] = Stale /\ stage[w] = "cargo" /\ stage'[w] = "cargo"
    BY <1>1 DEF FetchInv
  <2>2. found'[w] = found[w]
    BY <2>1 DEF StaysWithCargo, GetsToCargo
  <2>3. found[w] \in Registries \ {w, Stale} /\ Stopped(found[w])
    BY <2>1 DEF ServedOwnCandidate, Stopped
  <2> QED
    BY <2>2, <2>3 DEF LetsGo
<1> QED
  BY <1>2, <1>3, <1>4, <1>5

LEMMA CandidateInitially == RegistryInit => CandidateInv
<1> SUFFICES ASSUME RegistryInit PROVE CandidateInv
  OBVIOUS
<1>1. /\ Stale \in Registries /\ NoRegistry # Stale
      /\ Wrappers \subseteq Registries /\ Stale \notin Wrappers
  BY RegistriesAssumption DEF Registries
<1>2. PICK s \in {"none", "listening"} :
        registry = [r \in Registries |-> IF r = Stale THEN s ELSE "none"]
  BY DEF RegistryInit
<1>3. RegistryTypeOK
  BY <1>2 DEF RegistryInit, RegistryTypeOK, Over
<1>4. OneHolder /\ OwnInv
  BY <1>1, <1>2 DEF RegistryInit, OneHolder, OwnInv, Holder
<1>5. FoundInv /\ FetchInv /\ ServedOwnCandidate
  BY <1>1 DEF RegistryInit, FoundInv, FetchInv, ServedOwnCandidate
<1> QED
  BY <1>3, <1>4, <1>5 DEF CandidateInv

(***************************************************************************)
(* A registry listens if nobody else does: then every found one is gone.   *)
(***************************************************************************)
LEMMA ListenKeeps ==
    ASSUME CandidateInv, NEW r \in Registries, Listen(r)
    PROVE  CandidateInv'
<1> USE DEF CandidateInv
<1>1. registry[r] = "starting" /\ UNCHANGED <<stage, probed, found, fetching>>
  BY DEF Listen
<1>2. \A s \in Registries \ {r} : registry'[s] = registry[s]
  BY DEF Listen, RegistryTypeOK
<1>3. registry'[r] = IF \E other \in Registries : Holder(other) THEN "crashed"
                                                                ELSE "listening"
  BY DEF Listen, RegistryTypeOK
<1>4. RegistryTypeOK'
  BY <1>1 DEF Listen, RegistryTypeOK
<1>5. OneHolder' /\ OwnInv' /\ FetchInv'
  BY <1>1, <1>2, <1>3 DEF OneHolder, OwnInv, FetchInv, Holder, Registries
<1>6. \A s \in Registries : registry[s] = "listening" \/ Stopped(s) =>
        registry'[s] = registry[s]
  BY <1>1, <1>2 DEF Stopped
<1>7. FoundInv'
  BY <1>1, <1>6 DEF FoundInv, Holder, Stopped, RightCandidate
<1>8. ServedOwnCandidate'
  BY <1>1, <1>6 DEF ServedOwnCandidate, Stopped
<1> QED
  BY <1>4, <1>5, <1>7, <1>8

LEMMA RegistryKeeps ==
    ASSUME CandidateInv,
           (\E r \in Registries : Closed(r)) \/ StartByHand \/ StopByHand
    PROVE  CandidateInv'
<1>1. /\ ByHand \in Registries /\ Stale \in Registries
      /\ {ByHand, Stale} \cap Wrappers = {} /\ Wrappers \subseteq Registries
  BY RegistriesAssumption DEF Registries
<1>2. UNCHANGED <<stage, probed, found, fetching>>
  BY DEF Closed, StartByHand, StopByHand
<1>3. ASSUME \A s \in Registries : LetsGo(s), RegistryTypeOK',
             \A w \in Wrappers : registry[w] \in {"none", "listening"} =>
                registry'[w] = registry[w]
      PROVE  CandidateInv'
  <2>1. \A w \in Wrappers : StaysWithCargo(w)
    BY <1>2, <1>3 DEF StaysWithCargo
  <2> QED
    BY <1>2, <1>3, <2>1, NobodyListens DEF CandidateInv
<1>4. ASSUME NEW r \in Registries, Closed(r) PROVE CandidateInv'
  <2>1. RegistryTypeOK'
    BY <1>4 DEF Closed, CandidateInv, RegistryTypeOK
  <2>2. \A s \in Registries : /\ LetsGo(s)
                              /\ registry[s] \in {"none", "listening"} =>
                                   registry'[s] = registry[s]
    BY <1>4 DEF Closed, CandidateInv, RegistryTypeOK, LetsGo, Stopped
  <2> QED
    BY <1>1, <1>3, <2>1, <2>2
<1>5. CASE StartByHand
  <2>1. PICK r \in {ByHand, Stale} :
          registry[r] = "none" /\ registry' = [registry EXCEPT ![r] = "starting"]
    BY <1>5 DEF StartByHand
  <2>2. RegistryTypeOK'
    BY <1>1, <1>2, <2>1 DEF CandidateInv, RegistryTypeOK
  <2>3. /\ \A s \in Registries : LetsGo(s)
        /\ \A w \in Wrappers : registry'[w] = registry[w]
    BY <1>1, <2>1 DEF CandidateInv, RegistryTypeOK, LetsGo, Stopped
  <2> QED
    BY <1>3, <2>2, <2>3
<1>6. CASE StopByHand
  <2>1. PICK r \in {ByHand, Stale} : registry' = Signalled(r)
    BY <1>6 DEF StopByHand
  <2>2. RegistryTypeOK'
    BY <1>1, <1>2, <2>1, SignalledRegistry DEF CandidateInv, RegistryTypeOK
  <2>3. /\ \A s \in Registries : LetsGo(s)
        /\ \A w \in Wrappers : registry'[w] = registry[w]
    BY <1>1, <2>1, SignalledRegistry DEF CandidateInv, LetsGo, Stopped
  <2> QED
    BY <1>3, <2>2, <2>3
<1> QED
  BY <1>4, <1>5, <1>6

\* a cargo that another candidate serves has lost the registry it was to have
LEMMA FetchKeeps ==
    ASSUME CandidateInv, NEW w \in Wrappers, Fetch(w)
    PROVE  CandidateInv'
<1> USE DEF CandidateInv
<1>1. PICK r \in Registries : Holder(r) /\ fetching' = [fetching EXCEPT ![w] = r]
  BY DEF Fetch
<1>2. stage[w] = "cargo" /\ UNCHANGED <<stage, probed, registry, found>>
  BY DEF Fetch
<1>3. r = Stale => /\ found[w] \in Registries \ {w, Stale}
                   /\ registry[found[w]] \in {"closing", "ended"}
  BY <1>1, <1>2 DEF FoundInv, OneHolder, RightCandidate, Stopped
<1>4. RegistryTypeOK'
  BY <1>1, <1>2 DEF RegistryTypeOK
<1>5. OneHolder' /\ OwnInv' /\ FoundInv' /\ FetchInv'
  BY <1>1, <1>2
     DEF OneHolder, OwnInv, FoundInv, FetchInv, Holder, Stopped, RightCandidate,
         RegistryTypeOK
<1>6. ServedOwnCandidate'
  BY <1>1, <1>2, <1>3 DEF ServedOwnCandidate, RegistryTypeOK
<1> QED
  BY <1>4, <1>5, <1>6

\* the steps of a wrapper that leave the registries alone, but for Fetch
LEMMA WrapperKeeps ==
    ASSUME CandidateInv, NEW w \in Wrappers,
           Start(w) \/ Probe(w) \/ Fetched(w) \/ Leave(w)
    PROVE  CandidateInv'
<1> USE DEF CandidateInv
<1>1. registry' = registry /\ \A r \in Registries : LetsGo(r)
  BY DEF Start, Probe, Fetched, Leave, LetsGo, Stopped
<1>2. RegistryTypeOK'
  BY DEF RegistryTypeOK, Start, Probe, Fetched, Leave, Moves, Over
<1>3. \A v \in Wrappers : StaysWithCargo(v) \/ GetsToCargo(v)
  <2>1. CASE Probe(w)
    BY <2>1 DEF RegistryTypeOK, Probe, StaysWithCargo, GetsToCargo
  <2>2. CASE Start(w) \/ Fetched(w) \/ Leave(w)
    BY <2>2 DEF RegistryTypeOK, Start, Fetched, Leave, Moves, StaysWithCargo
  <2> QED
    BY <2>1, <2>2
<1>4. \A v \in Wrappers : stage'[v] \in {"outside", "looking"} =>
        stage[v] \in {"outside", "looking"}
  BY DEF RegistryTypeOK, Start, Probe, Fetched, Leave, Moves
<1>5. \A v \in Wrappers : /\ fetching'[v] \in {fetching[v], NoRegistry}
                          /\ fetching'[v] # NoRegistry => stage'[v] = stage[v]
  <2>1. CASE Start(w) \/ Probe(w) \/ Leave(w)
    <3>1. stage[w] # "cargo" /\ fetching' = fetching
      BY <2>1 DEF Start, Probe, Leave, Moves
    <3>2. \A v \in Wrappers \ {w} : stage'[v] = stage[v]
      BY <2>1 DEF RegistryTypeOK, Start, Probe, Leave, Moves
    <3> QED
      BY <3>1, <3>2 DEF FetchInv
  <2>2. CASE Fetched(w)
    BY <2>2 DEF RegistryTypeOK, Fetched
  <2> QED
    BY <2>1, <2>2
<1> QED
  BY <1>1, <1>2, <1>3, <1>4, <1>5, NobodyListens

LEMMA SpawnKeeps ==
    ASSUME CandidateInv, NEW w \in Wrappers, Spawn(w)
    PROVE  CandidateInv'
<1> USE DEF CandidateInv
<1>1. w \in Registries /\ registry[w] = "none" /\ stage[w] = "looking"
  BY DEF Registries, OwnInv, Spawn, Moves
<1>2. RegistryTypeOK'
  BY <1>1 DEF RegistryTypeOK, Spawn, Moves
<1>3. \A r \in Registries : LetsGo(r)
  BY <1>1 DEF RegistryTypeOK, Spawn, LetsGo, Stopped
<1>4. /\ stage'[w] = "awaiting"
      /\ \A v \in Wrappers \ {w} : stage'[v] = stage[v] /\ registry'[v] = registry[v]
      /\ UNCHANGED <<found, fetching>>
  BY <1>1 DEF RegistryTypeOK, Spawn, Moves, Registries
<1>5. \A v \in Wrappers : StaysWithCargo(v)
  BY <1>4 DEF StaysWithCargo
<1>6. \A v \in Wrappers : fetching'[v] # NoRegistry => stage'[v] = stage[v]
  BY <1>1, <1>4 DEF FetchInv
<1> QED
  BY <1>2, <1>3, <1>4, <1>5, <1>6, NobodyListens

\* the steps of a wrapper that signal its registry
LEMMA SignallingKeeps ==
    ASSUME CandidateInv, NEW w \in Wrappers,
           NotReady(w) \/ CargoEnds(w) \/ CargoMissing(w) \/ Interrupt(w)
    PROVE  CandidateInv'
<1> USE DEF CandidateInv
<1>1. w \in Registries /\ Wrappers \subseteq Registries
  BY DEF Registries
<1>2. registry' = Signalled(w) /\ UNCHANGED <<probed, found>>
  BY DEF NotReady, CargoEnds, CargoMissing, Interrupt
<1>3. /\ stage' \in [Wrappers -> {"outside", "looking", "awaiting", "cargo",
                                  "stopping"} \cup Over]
      /\ stage'[w] \in {"stopping"} \cup Over
      /\ \A v \in Wrappers \ {w} : stage'[v] = stage[v]
  BY DEF RegistryTypeOK, NotReady, CargoEnds, CargoMissing, Interrupt, Moves, Over
<1>4. /\ fetching' \in [Wrappers -> Registries \cup {NoRegistry}]
      /\ fetching'[w] = NoRegistry
      /\ \A v \in Wrappers \ {w} : fetching'[v] = fetching[v]
  BY DEF RegistryTypeOK, FetchInv, NotReady, CargoEnds, CargoMissing, Interrupt, Moves
<1>5. RegistryTypeOK'
  BY <1>1, <1>2, <1>3, <1>4, SignalledRegistry DEF RegistryTypeOK
<1>6. \A r \in Registries : LetsGo(r)
  BY <1>1, <1>2, SignalledRegistry DEF LetsGo, Stopped
<1>7. \A v \in Wrappers \ {w} : registry'[v] = registry[v]
  BY <1>1, <1>2, SignalledRegistry
<1>8. \A v \in Wrappers : StaysWithCargo(v)
  BY <1>2, <1>3, <1>7 DEF StaysWithCargo, Over
<1>9. /\ stage'[w] \notin {"outside", "looking"}
      /\ \A v \in Wrappers : fetching'[v] \in {fetching[v], NoRegistry}
      /\ \A v \in Wrappers : fetching'[v] # NoRegistry => stage'[v] = stage[v]
  BY <1>3, <1>4 DEF Over
<1> QED
  BY <1>3, <1>5, <1>6, <1>7, <1>8, <1>9, NobodyListens

LEMMA CandidateStep == CandidateInv /\ [RegistryNext]_registryVars => CandidateInv'
<1> SUFFICES ASSUME CandidateInv, [RegistryNext]_registryVars PROVE CandidateInv'
  OBVIOUS
<1>1. ASSUME NEW w \in Wrappers,
             \/ Start(w) \/ Probe(w) \/ Spawn(w) \/ NotReady(w)
             \/ Fetch(w) \/ Fetched(w) \/ CargoEnds(w) \/ CargoMissing(w)
             \/ Leave(w) \/ Interrupt(w)
      PROVE  CandidateInv'
  BY <1>1, FetchKeeps, WrapperKeeps, SpawnKeeps, SignallingKeeps
<1>2. CASE \E r \in Registries : Listen(r)
  BY <1>2, ListenKeeps
<1>3. CASE (\E r \in Registries : Closed(r)) \/ StartByHand \/ StopByHand
  BY <1>3, RegistryKeeps
<1>4. CASE UNCHANGED registryVars
  BY <1>4 DEF registryVars, CandidateInv, RegistryTypeOK, OneHolder, OwnInv, FoundInv,
              FetchInv, ServedOwnCandidate, Holder, Stopped, RightCandidate
<1> QED
  BY <1>1, <1>2, <1>3, <1>4 DEF RegistryNext

(***************************************************************************)
(* CandidateInv holds whatever wrappers, and whoever starts registries by  *)
(* hand, do.                                                               *)
(***************************************************************************)
THEOREM CandidateInvariance == RegistrySpec => []CandidateInv
<1>1. RegistrySpec => RegistryInit /\ [][RegistryNext]_registryVars
  BY PTL DEF RegistrySpec
<1> QED
  BY <1>1, CandidateInitially, CandidateStep, PTL

(***************************************************************************)
(* registryReady of candidate-cargo.mjs checks the candidate only before   *)
(* cargo starts.  A registry of another candidate may take the port later; *)
(* it serves a cargo only whose wrapper found a registry that was not its  *)
(* own and that its owner has stopped since.                               *)
(***************************************************************************)
THEOREM CargoServedOwn == RegistrySpec => []ServedOwnCandidate
<1>1. CandidateInv => ServedOwnCandidate
  BY DEF CandidateInv
<1> QED
  BY <1>1, CandidateInvariance, PTL

-----------------------------------------------------------------------------
(***************************************************************************)
(* A registry is stopped by the wrapper that started it alone, and not     *)
(* while its cargo goes on.                                                *)
(***************************************************************************)
LEMMA StopsOwnOnly ==
    ASSUME RegistryTypeOK, RegistryNext, NEW w \in Wrappers,
           Holder(w), stage[w] = "cargo", stage'[w] = "cargo"
    PROVE  registry'[w] = "listening"
<1>1. w \in Registries /\ w # ByHand /\ w # Stale
  BY RegistriesAssumption DEF Registries
<1>2. ASSUME NEW v \in Wrappers,
             Start(v) \/ Probe(v) \/ Fetch(v) \/ Fetched(v) \/ Leave(v)
      PROVE  registry'[w] = "listening"
  BY <1>2 DEF Start, Probe, Fetch, Fetched, Leave, Holder
<1>3. ASSUME NEW v \in Wrappers, Spawn(v)
      PROVE  registry'[w] = "listening"
  BY <1>1, <1>3 DEF Spawn, Moves, Holder, RegistryTypeOK
<1>4. ASSUME NEW v \in Wrappers,
             NotReady(v) \/ CargoEnds(v) \/ CargoMissing(v) \/ Interrupt(v)
      PROVE  registry'[w] = "listening"
  <2>1. v \in Registries /\ registry' = Signalled(v)
    BY <1>4 DEF NotReady, CargoEnds, CargoMissing, Interrupt, Registries
  <2>2. v # w
    BY <1>4 DEF NotReady, CargoEnds, CargoMissing, Interrupt, Moves, RegistryTypeOK, Over
  <2> QED
    BY <1>1, <2>1, <2>2, SignalledRegistry DEF Holder
<1>5. ASSUME NEW r \in Registries, Listen(r) \/ Closed(r)
      PROVE  registry'[w] = "listening"
  BY <1>1, <1>5 DEF Listen, Closed, Holder, RegistryTypeOK
<1>6. CASE StartByHand \/ StopByHand
  <2>1. ByHand \in Registries /\ Stale \in Registries
    BY DEF Registries
  <2>2. CASE StartByHand
    BY <1>1, <2>2 DEF StartByHand, Holder, RegistryTypeOK
  <2>3. CASE StopByHand
    BY <1>1, <2>1, <2>3, SignalledRegistry DEF StopByHand, Holder
  <2> QED
    BY <1>6, <2>2, <2>3
<1> QED
  BY <1>2, <1>3, <1>4, <1>5, <1>6 DEF RegistryNext

(***************************************************************************)
(* A registry outlives the cargo of the wrapper that started it, whatever  *)
(* other wrappers do when they end (the finally of candidate-cargo.mjs     *)
(* stops the wrapper's own registry, or none).                             *)
(***************************************************************************)
THEOREM RegistryOutlivesCargo == RegistrySpec => OutlivesOwnCargo
<1>1. RegistrySpec => [][RegistryNext]_registryVars
  BY PTL DEF RegistrySpec
<1>2. CandidateInv /\ [RegistryNext]_registryVars =>
        [\A w \in Wrappers :
           Holder(w) /\ registry'[w] # "listening" =>
             ~(stage[w] = "cargo" /\ stage'[w] = "cargo")]_registryVars
  BY StopsOwnOnly DEF CandidateInv
<1> QED
  BY <1>1, <1>2, CandidateInvariance, PTL DEF OutlivesOwnCargo
=============================================================================
