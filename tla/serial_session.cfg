SPECIFICATION FairSpec
CONSTANTS
    Senders = {s1, s2}
    NoSender = NoSender
    MaxConns = 3
    MaxSends = 1
    MaxData = 2
INVARIANTS TypeOK ReportedInOrder ReplyIsNew HoldsBackOnlyForASendUntilTrouble StopFreesThePort
PROPERTIES EverySendEnds StopEnds Recovers
CHECK_DEADLOCK FALSE
