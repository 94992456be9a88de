SPECIFICATION Spec
CONSTANTS
  Instances = {i1, i2}
  Hubs = {h1}
  Tokens = {t1, t2, t3}
  NoHub = NoHub
  NoToken = NoToken
  Faults = {"lease"}
SYMMETRY Symmetry
INVARIANTS
  EventIsKept
  OneBusRunPerProcess
