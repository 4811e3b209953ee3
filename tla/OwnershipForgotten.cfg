CONSTANTS
    Publishers = {2, 3}
    Strength <- TiedAndStronger
    MaxSamples = 1
SPECIFICATION FairSpec
PROPERTY GoneIsForgotten
CHECK_DEADLOCK FALSE
