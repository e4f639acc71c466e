\* Two write keys, a budget of two records, three inner updates per record.
SPECIFICATION Spec
CONSTANTS
  Keys = {k1, k2}
  NoKey = NoKey
  RecordLimit = 2
  IntMax = 7
  MaxLog = 3
SYMMETRY KeySymmetry
INVARIANTS
  TypeOK
  KeyAgreement
  FastPathSound
  BudgetOfOpenRecord
  UsageWithinLimit
  CounterExact
  ManifestFirst
  AcceptedWithCurrentTag
  TagOnlyOfSealedRecord
PROPERTIES
  PoisonHolds
  BudgetOnlyFromAnotherKey
  ImplementsContract
