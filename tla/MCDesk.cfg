SPECIFICATION Spec
INVARIANTS
  WorkIsTakenOnce
  PromisesAreKept
  HandedOverProperly
PROPERTIES
  OwedIsSettled
  
CHECK_DEADLOCK FALSE
