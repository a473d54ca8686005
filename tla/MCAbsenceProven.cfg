SPECIFICATION Spec
CONSTANTS
    a1 = a1
    a2 = a2
    o1 = o1
    k1 = k1
    k2 = k2
    Attempts = {a1}
    Orders = {o1}
    Keys = {k1, k2}
    Details <- Bodies
    Requests <- SharedOrder
    StoreFaults <- SomeStoreFaults
    MayDrop = FALSE
    MayRestart = FALSE
INVARIANT
    AbsenceProvenIsFinal
