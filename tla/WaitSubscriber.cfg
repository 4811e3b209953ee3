CONSTANTS
    Stoppers = {"data", "sigint"}
    max_messages_ = 2
    Sent = 4
    Samples = {0, 1, 7}
    Width = 8
    Processes <- MCProcesses
    Lines <- MCLines
    IPv4 <- MCIPv4
    IPv6 <- MCIPv6
    DNS <- MCDNS
SPECIFICATION MCSpec
INVARIANTS ReturnsForAReason OneTooManyAtMost EndsAsAsked LinkedAsAsked
PROPERTIES StopWhileBlockedEnds PublisherEnds WordsMeet
CHECK_DEADLOCK FALSE
