SPECIFICATION LiveSpec
CONSTANTS
  Orders = {o1}
  Offers = {f1, f2}
  Cycles = {c1, c2}
  Assigners = {a1}
  NoOffer = NoOffer
  NoOrder = NoOrder
  InFlightInsertion = TRUE
  Faults = {"crash", "flush", "lease"}
INVARIANTS
  OneHome
  OfferCarriesLiveOrders
PROPERTIES
  StrandedIsReturned
  LostIsFound
