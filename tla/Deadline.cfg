SPECIFICATION MCSpec
CONSTANTS
  Samples = {0, 4}
  sleep = 3
  deadline = 5
  poll = 1
  Slack = 1
  MaxTime = 26
  Types <- MCTypes
  Values <- MCValues
CHECK_DEADLOCK FALSE
INVARIANTS
  FrequentKeysMeetDeadline RareKeyMisses
  NoWriteRefused TakenAsWritten FitsTypeSize
PROPERTY InstanceIsKey
