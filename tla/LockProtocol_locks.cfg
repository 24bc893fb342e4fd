SPECIFICATION FairSpec
CONSTANTS
  update1 = update1
  poller2 = poller2
  timer1 = timer1
  packet2 = packet2
  expiry1 = expiry1
  Tasks <- MCTasks
  Kind <- MCKind
  Own <- MCOwn
  Count = 2
  none = none
  MaxSections = 2
INVARIANTS
  Unblocked
  SenderStays
PROPERTIES
  Served
