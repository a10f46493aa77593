SPECIFICATION Spec
CONSTANTS
    Callers = {a}
    Operations = {"sendir"}
    GatewayLines = {"complete","busy"}
    FreshIds = FALSE
    NoCaller = NoCaller
    MaxConns = 3
    MaxEvents = 1
    MaxCommands = 3
    ConnectRetries = 1
    MaxResends = 2
INVARIANTS SendirCarriedOut SendirFiresOnce
CHECK_DEADLOCK FALSE
