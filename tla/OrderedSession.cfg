\* An ordered transport: long enough for a hard limit in every context.
SPECIFICATION OrderedSpec
CONSTANTS
  DataChannels = {menora}
  Guard = guard
  Epochs = {e1, e2}
  SoftRecords = 2
  HardRecords = 3
  SoftBytes = 1
  HardBytes = 3
  MaxPlaintext = 2
  MaxSealed = 4
CHECK_DEADLOCK FALSE
INVARIANT ClosedIsComplete
PROPERTY OnlyCrossedDataRejected
