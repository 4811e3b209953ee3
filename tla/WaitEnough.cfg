CONSTANTS
    Stoppers = {"data"}
    max_messages_ = 2
    Sent = 2
SPECIFICATION FairSpec
PROPERTY EnoughSamplesEnd
CHECK_DEADLOCK FALSE
