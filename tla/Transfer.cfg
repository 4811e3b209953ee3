SPECIFICATION Spec
CONSTANTS
  Types <- MCTypes
  Readers = {r1, r2}
  Count = 4
  total_chunks = 5
  SmallMax = 2
  LargeMax = 4
CHECK_DEADLOCK FALSE
INVARIANTS NoGap TimesSpanTransfer
PROPERTIES PrintedInOrder LateJoinersCatchUp
