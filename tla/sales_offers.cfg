SPECIFICATION FairSpec
CONSTANTS
  Reservations = {r1}
  Documented = {}
  Sales = {s1}
  Admins = {}
  Handlers = {h1, h2}
  None = None
  Window = 1
  MaxTime = 2
  MaxOffers = 3
  MaxUploads = 1
INVARIANTS
  
  OpenOfferIsLast
  AcceptedTermsHold
PROPERTIES
  OfferResolves
