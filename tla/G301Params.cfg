\* One key, a budget of one record, lists of up to two entries.
SPECIFICATION ParamsSpec
CONSTANTS
  Keys = {k1}
  NoKey = NoKey
  RecordLimit = 1
  IntMax = 7
  MaxLog = 1
  Entries <- MCEntries
  MaxParams = 2
INVARIANTS
  RefusedTagIsDropped
  RefusedTurnClosesRecord
  AcceptedIsCanonical
  GetAnswersWhole
