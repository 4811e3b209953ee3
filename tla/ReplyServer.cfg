CONSTANTS
    Clients = {c1, c2}
    Servers = {s1}
    NoClient = NoClient
    MaxRetries = 2
    Slots = 1
SPECIFICATION FairSpec
INVARIANT AnswersBoundedBySlots
PROPERTIES DropsOnlyForAReason ServerComesBack AtMostOnce
CHECK_DEADLOCK FALSE
