SPECIFICATION BothSpec
CONSTANTS
    a1 = a1
    a2 = a2
    o1 = o1
    k1 = k1
    x = x
    y = y
    NativeAttempts = {a1}
    HybridAttempts = {a2}
    Orders = {o1}
    Keys = {k1}
    Details = {x, y}
    Requests <- RivalBodies
    StoreFaults <- LostCommits
    MayDrop = TRUE
    MayRestart = TRUE
INVARIANTS
    AnswersAreDurable
    OneAuditedDecisionPerKey
PROPERTIES
    OneRegister
    ArrivalsEnd
    EffectsAreResolved
