SPECIFICATION PageSpec
CONSTANTS
    a1 = a1
    a2 = a2
    o1 = o1
    k1 = k1
    x = x
    load = load
    r1 = r1
    Attempts = {a1, a2}
    Clicks = {a1}
    Reads = {load, r1}
    AfterClick <- ReadAfter
    Orders = {o1}
    Keys = {k1}
    Details = {x}
    Requests <- OneSuffix
    StoreFaults <- LookupFaults
    Adapter = "native"
    MayDrop = TRUE
    MayRestart = TRUE
INVARIANTS
    NoUnauditedDecision
    EvidenceShowsAnswer
PROPERTIES
    ReadsEnd
    ButtonRecovers
