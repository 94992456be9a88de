SPECIFICATION Spec
CONSTANTS
  Orders = {o1, o2}
  Offers = {f1, f2}
  Cycles = {c1}
  Assigners = {a1}
  NoOffer = NoOffer
  NoOrder = NoOrder
  InFlightInsertion = FALSE
  Faults = {}
INVARIANTS
  WaitingOrderIsQueued
