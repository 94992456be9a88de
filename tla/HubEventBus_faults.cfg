SPECIFICATION LiveSpec
CONSTANTS
  Instances = {i1}
  Hubs = {h1}
  Tokens = {t1, t2}
  NoHub = NoHub
  NoToken = NoToken
  Faults = {"crash", "redis", "stop", "handler", "flush"}
INVARIANTS
  TypeOK
  LiveRunHoldsLock
PROPERTIES
  EventIsServed
  WakeupIsTaken
