SPECIFICATION ServiceSpec
CONSTANTS
    n1 = n1
    n2 = n2
    n3 = n3
    authorize = authorize
    health = health
    Adapters = {"native", "hybrid", "control"}
    ConnectAttempts = 10
    Connections = {n1, n2, n3}
    Routes <- BothRoutes
    Prompt <- HealthOnly
    Limit = 1
INVARIANTS
    ServesWithSchema
    CutOnlyAfterDeadline
PROPERTIES
    StartupEnds
    ShutdownEnds
    HealthAnswers
