CONSTANTS
    Publishers = {1, 2, 3}
    Strength <- TiedAndStronger
    MaxSamples = 2
SPECIFICATION Spec
PROPERTY WeakerAccepted
CHECK_DEADLOCK FALSE
