SPECIFICATION FairSpec
CONSTANTS
    Callers = {a, b}
    Operations = {"sendir","query","payload","disconnect"}
    GatewayLines = {"complete","busy","answer","unknown"}
    FreshIds = TRUE
    NoCaller = NoCaller
    MaxConns = 2
    MaxEvents = 1
    MaxCommands = 1
    ConnectRetries = 1
    MaxResends = 2
INVARIANTS LockDiscipline SendirCarriedOut InStepUntilTrouble SessionIsRead
PROPERTIES EveryCommandEnds ImplementsSerialExchange
CHECK_DEADLOCK FALSE
