SPECIFICATION Spec
CONSTANTS
  Reservations = {r1}
  Documented = {r1}
  Sales = {s1}
  Admins = {a1}
  Handlers = {h1, h2}
  None = None
  Window = 1
  MaxTime = 1
  MaxOffers = 0
  MaxUploads = 1
INVARIANTS
  ReplyHasReviewer
