SPECIFICATION Spec
CONSTANTS
    a1 = a1
    a2 = a2
    o1 = o1
    k1 = k1
    k2 = k2
    Attempts = {a1, a2}
    Orders = {o1}
    Keys = {k1, k2}
    Details <- Bodies
    Requests <- EveryFixture
    StoreFaults <- AllStoreFaults
    MayDrop = TRUE
    MayRestart = TRUE
SYMMETRY Symmetry
PROPERTY ImplementsContract
INVARIANTS
    TypeOK
    AnsweredIsDurable
    ClientFaultIsFinal
    NoOrphanedEffects
    UndoneEffectsAreTold
    OneAuditedDecisionPerKey
    EventsTellLedger
    WorkflowStateIsValid
    FaultsAreConsistent
    TracesTellAnswers
