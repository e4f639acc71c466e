\* Two instances of the provider, two contexts, loads and unloads for ever.
SPECIFICATION Spec
CONSTANTS
  Providers = {p1, p2}
  Contexts = {c1, c2}
  NoProvider = NoProvider
SYMMETRY OwnerSymmetry
INVARIANTS
  TypeOK
  NothingLeaks
  NothingDangles
  ReadyIsWhole
