\* Two connections, both endpoints in one process, two application contexts.
SPECIFICATION Spec
CONSTANTS
  Threads = {t1, t2}
  Exporters = {x1, x2}
  Apps = {a1, a2}
  BadApp = BadApp
  Zero = Zero
SYMMETRY ScheduleSymmetry
CHECK_DEADLOCK FALSE
INVARIANTS
  OneSealerPerKey
  KeysAgreeExactly
