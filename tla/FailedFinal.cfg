\* "Every failed Final poisons the record."
SPECIFICATION Spec
CONSTANTS
  Keys = {k1}
  NoKey = NoKey
  RecordLimit = 2
  IntMax = 7
  MaxLog = 2
INVARIANT FailedFinalPoisons
