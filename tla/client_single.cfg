SPECIFICATION Spec
CONSTANTS
    Callers = {a}
    Operations = {"sendir","query","line","collect","payload","disconnect"}
    GatewayLines = {"complete","busy","answer","unknown","err","event"}
    FreshIds = FALSE
    NoCaller = NoCaller
    MaxConns = 3
    MaxEvents = 1
    MaxCommands = 3
    ConnectRetries = 2
    MaxResends = 2
INVARIANTS TypeOK SoleConnection ResetLeavesNothing
CHECK_DEADLOCK FALSE
