\* One altered record of two, or one record altered twice.
SPECIFICATION Spec
CONSTANTS
  Iv <- TestIv
  Lengths <- EdgeLengths
  Sequences <- EdgeSequences
  ForgedBytes = {0, 1, 64}
  Cuts = {1, 16}
  MaxSealed = 2
  MaxFaults = 3
CHECK_DEADLOCK FALSE
INVARIANTS
  OpensExactlySealed
  ParseExact
  NonceOnce
