SPECIFICATION MCSpec
CONSTANTS
  d1 = d1
  p1 = p1
  s1 = s1
  Process <- MCProcess
  node <- MCNode
  Files <- MCFiles
  Shipped <- MCShipped
  Here <- MCHere
  DNS <- MCDNS
  MaxEdits = 1
  Participants <- MCParticipants
  WithReader <- MCWithReader
  name <- MCname
  MaxChanges <- MCMaxChanges
  Garbage <- MCGarbage
  SmallMax = 100
  LargeMax = 1000
CHECK_DEADLOCK FALSE
INVARIANTS MeetsWhatItAskedFor RegistryIsList
PROPERTIES SameWordMeets LossNamesDiscovery
