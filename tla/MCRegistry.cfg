SPECIFICATION RegistrySpec
CONSTANTS
    w1 = w1
    w2 = w2
    Wrappers = {w1, w2}
    ByHand = ByHand
    Stale = Stale
    NoRegistry = NoRegistry
    Probes = 2
INVARIANT ServedOwnCandidate
PROPERTIES
    OutlivesOwnCargo
    ProbingEnds
    RegistriesEnd
CHECK_DEADLOCK FALSE
