SPECIFICATION Spec
CONSTANTS
  Events = {e1, e2}
  Workers = {w1}
  Channels = {"IN_APP", "EMAIL"}
  Enabled <- OneOrAll
  AllAround = {e1}
  NoEvent = NoEvent
  MaxAttempts = 2
  Handlers = {h1, h2}
  None = None
  Notes = {n1, n2}
PROPERTIES
  ProcessedIsDelivered
  EventSettles
  InboxSettles
CHECK_DEADLOCK FALSE
