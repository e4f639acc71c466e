\* The network of InnerSession.cfg, and payloads of none or one byte.
SPECIFICATION Spec
CONSTANTS
  DataChannels = {menora, tzafah}
  Guard = guard
  Epochs = {e1, e2}
  SoftRecords = 2
  HardRecords = 3
  SoftBytes = 1
  HardBytes = 2
  MaxPlaintext = 1
  MaxSealed = 3
SYMMETRY SessionSymmetry
CHECK_DEADLOCK FALSE
PROPERTIES
  ImplementsChannels
