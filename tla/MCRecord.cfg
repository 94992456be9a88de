SPECIFICATION Spec
CONSTANTS
  Unknown = Unknown
INVARIANTS
  AccessIsGranted
  MoneyAddsUp
  EvidenceIsSound
  SitesAreKept
PROPERTIES
  ChangesWereSeen
CHECK_DEADLOCK FALSE
