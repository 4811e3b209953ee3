CONSTANTS
    Total = 7
    BufferSize = 3
SPECIFICATION FairSpec
INVARIANTS SuccessIsComplete EndOfFileIsTruthful
PROPERTIES ImplementsByteTransfer ConnectedPairEnds
CHECK_DEADLOCK FALSE
