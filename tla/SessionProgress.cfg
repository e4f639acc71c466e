\* Progress over an ordered transport with callers that commit and answer.
SPECIFICATION FairOrderedSpec
CONSTANTS
  DataChannels = {menora}
  Guard = guard
  Epochs = {e1, e2}
  SoftRecords = 2
  HardRecords = 3
  SoftBytes = 1
  HardBytes = 3
  MaxPlaintext = 2
  MaxSealed = 3
CHECK_DEADLOCK FALSE
PROPERTIES
  CommitCompletes
  DrainingEnds
