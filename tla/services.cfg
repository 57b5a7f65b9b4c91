SPECIFICATION Spec
CONSTANTS
  h1 = h1
  h2 = h2
  p1 = p1
  p2 = p2
  Handlers = {h1, h2}
  None = None
  Workers = {h1, h2}
  Events = {p1, p2}
  Channels = {"EMAIL"}
  Enabled <- AllChannels
  NoEvent = None
  MaxAttempts = 2
  RecoveryCodes = {r1}
  AttemptLimit = 1
  MaxCodes = 2
  MaxChallenges = 2
  MaxSessions = 2
  MaxPassword = 1
  MaxTime = 2
  Versions = {v1, v2, v3}
  Rules = {r1, r2}
  BaseRules = {r1, r2}
  MaxClock = 2
  MaxSaves = 2
  Customers = {c1}
  Campaigns = {k1, k2, k3}
  MaxInstant = 2
  Shown = {p1, p2}
  MaxMoves = 2
  Entries = {p1, p2}
  MaxVersion = 3
  Choices = {p1, p2, later}
  Later = later
  MaxImages = 2
  Branches = {p1, p2}
  Offices = {p1, p2}
  MaxChanges = 3
  People = {p1, p2}
INVARIANTS
  TypesOK
  RepeatedOnlyUnheard
  AttemptsBounded
  UsedOnce
  ActiveSessionKnowsPassword
  AlwaysInForce
  PublishedTogether
  WeeklyCap
  ListWasTrue
  OwnChangesShown
  ReviewOfThisDraft
  CompleteIsSecured
  CarsHaveBranches
  UnsavedIsKnown
  VerifiedIsTrue
PROPERTY
  PicturesStay
SYMMETRY Interchangeable
CHECK_DEADLOCK FALSE
