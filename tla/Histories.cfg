SPECIFICATION MCSpec
CONSTANTS
  Count = 6
  Depth = 2
  MaxSamples = 6
  samples = 3
  number = 3
  lifespans = {2, 6}
  write_sleep = 1
  sleep = 2
  sub_sleep = 3
  poll_sleep = 1
  Slack = 1
  MaxTime = 14
CHECK_DEADLOCK FALSE
INVARIANTS
  PrintsWhatReadmeSays HoldsTheNewest
  RemovesNothingIfShort RemovesIfLong TakesNothingIfShort
