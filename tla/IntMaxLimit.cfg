\* The limit the static assertion still admits: INT_MAX itself.
SPECIFICATION Spec
CONSTANTS
  Keys = {k1}
  NoKey = NoKey
  RecordLimit = 3
  IntMax = 3
  MaxLog = 2
INVARIANT UsageWithinLimit
