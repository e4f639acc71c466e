\* Two data channels, a network that drops, repeats, reorders and reflects.
SPECIFICATION Spec
CONSTANTS
  DataChannels = {menora, tzafah}
  Guard = guard
  Epochs = {e1, e2}
  SoftRecords = 2
  HardRecords = 3
  SoftBytes = 1
  HardBytes = 3
  MaxPlaintext = 2
  MaxSealed = 3
SYMMETRY SessionSymmetry
CHECK_DEADLOCK FALSE
INVARIANTS
  TypeOK
  InOrder
  CommitBinds
  NonceOnce
  ErasedExactly
  UsageExact
  HardLimits
  CloseIsLast
PROPERTIES
  RefreshBeforeLimit
