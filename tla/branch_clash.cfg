SPECIFICATION Spec
CONSTANTS
  r1 = r1
  r2 = r2
  r3 = r3
  v1 = v1
  s1 = s1
  a1 = a1
  None = None
  Reservations = {r1, r2, r3}
  Vehicles = {v1}
  Holds = {}
  Handlers = {h1, h2}
  Editors = {}
  Receipts = {p1, p2}
  Keys = {k1}
  Staff = {s1, a1}
  Admins = {a1}
  Reviewer <- Assigned
  VehicleOf <- OneCar
  PickupAt <- Pickup
  ReturnAt <- Return
  HoldOn <- HoldCar
  HoldFrom <- HoldStart
  HoldTo <- HoldEnd
  Window = 1
  MaxTime = 1
SYMMETRY HandlerSymmetry
INVARIANTS
  NoDoubleBooking
  BookingAgrees
  PaperworkBehindBooking
  CustodyLog
  OneCarOnTheRoad
  DeskServes
