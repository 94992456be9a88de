SPECIFICATION Spec
CONSTANTS
  Orders = {1, 2}
  Sessions = {s1, s2}
  NoSession = NoSession
  Jobs <- CallSites
INVARIANTS ReportedMovesAreReal WaitChainsAscend
PROPERTIES FollowsLifecycle
