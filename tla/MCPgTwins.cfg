SPECIFICATION PgSpec
CONSTANTS
    c1 = c1
    c2 = c2
    c3 = c3
    k1 = k1
    x = x
    y = y
    Calls = {c1, c2}
    Requests <- Bodies
    Rows <- RivalRows
    Modes <- NormalMode
    StoreFaults <- NoStoreFaults
    MayAbandon = FALSE
PROPERTY
    DefiniteFailureProvesAbsence
