SPECIFICATION Spec
CONSTANTS
    Senders = {s1, s2}
    NoSender = NoSender
    MaxConns = 3
    MaxSends = 1
    MaxData = 2
INVARIANTS HoldsBackOnlyForASend
CHECK_DEADLOCK FALSE
