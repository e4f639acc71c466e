--------------------------- MODULE MCKeySchedule ---------------------------
(* Instances of KeySchedule for TLC: threads, connections and application  *)
(* contexts are only ever compared for equality.                           *)
EXTENDS KeySchedule, TLC

ScheduleSymmetry ==
  Permutations(Threads) \union Permutations(Exporters) \union Permutations(Apps)
=============================================================================
