SPECIFICATION Spec
CONSTANTS
    Callers = {a}
    Operations = {"query"}
    GatewayLines = {"answer"}
    FreshIds = TRUE
    NoCaller = NoCaller
    MaxConns = 1
    MaxEvents = 1
    MaxCommands = 2
    ConnectRetries = 1
    MaxResends = 1
INVARIANT QueryAnswered
CHECK_DEADLOCK FALSE
