SPECIFICATION Spec
CONSTANTS
  Reservations = {r1}
  Documented = {}
  Sales = {s1}
  Admins = {a1}
  Handlers = {h1, h2}
  None = None
  Window = 1
  MaxTime = 2
  MaxOffers = 2
  MaxUploads = 1
PROPERTIES
  ExpiryIsRecorded
