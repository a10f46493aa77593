SPECIFICATION Spec
CONSTANTS
    Callers = {a, b}
    Operations = {"query"}
    GatewayLines = {"answer"}
    FreshIds = TRUE
    NoCaller = NoCaller
    MaxConns = 2
    MaxEvents = 1
    MaxCommands = 1
    ConnectRetries = 1
    MaxResends = 1
INVARIANT ReadTaskUsable
CHECK_DEADLOCK FALSE
