CONSTANTS
    Publishers = {1, 2, 3}
    Strength <- TiedAndStronger
    MaxSamples = 2
SPECIFICATION Spec
INVARIANT OnlyOvertakenStay
PROPERTIES HandoverUpward DesertedUntilAsStrong
CHECK_DEADLOCK FALSE
