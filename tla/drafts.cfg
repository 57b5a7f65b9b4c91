SPECIFICATION PartSpec
CONSTANTS
  EGYPTIAN = EGYPTIAN
  FOREIGN = FOREIGN
  ID = ID
  PASSPORT = PASSPORT
  q1 = q1
  q2 = q2
  Drafts = {d1}
  Selection <- OneSelection
  Categories = {EGYPTIAN, FOREIGN}
  Foreign = FOREIGN
  Types = {ID, PASSPORT}
  Required <- RequiredByCategory
  Keys = {k1, k2}
  Handlers = {h1, h2}
  None = None
  MaxVersion = 2
  Rentals = {q1, q2}
  ReportRange = 3
  BucketSize = 2
  DayLength = 2
  TrendDays = 2
  LastInstant = 5
INVARIANTS
  TypeOK
  SubmittedIsComplete
  LiveRowHasObject
  SubmittedOnce
  DraftResumes
  ReportAddsUp
PROPERTIES
  ImplementsLifecycle
SYMMETRY Interchangeable
CHECK_DEADLOCK FALSE
