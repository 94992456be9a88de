SPECIFICATION Spec
CONSTANTS
  Offers = {f1, f2}
  NoRoute = NoRoute
  DutyToggledMidJob = FALSE
  HashWritesInterleave = FALSE
  Faults = {}
INVARIANTS
  TypeOK
  OneJobAtATime
  PoolRespectsChoice
