SPECIFICATION LiveSpec
CONSTANTS
  Offers = {f1}
  NoRoute = NoRoute
  DutyToggledMidJob = FALSE
  HashWritesInterleave = FALSE
  Faults = {"crash", "flush"}
INVARIANTS
  NoWorkForSwitchedOff
PROPERTIES
  OfferedToNobodyEnds
  EndedRouteLetsGo
