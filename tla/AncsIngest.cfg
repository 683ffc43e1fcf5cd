CONSTANTS
  m1 = m1
  m2 = m2
  a = a
  b = b
  g1 = g1
  g2 = g2
  Messages = {m1, m2}
  Senders = {a, b}
  Inboxes <- TwoInboxes
  Groups = {g1, g2}
  None = None
  Undated = Undated
  Datetimes <- FewDatetimes
  Private = Private
  Direct = Direct
  poll_interval = 1
  notification_timeout = 1
  MaxTime = 1
  max_delta = 0
  RecentWindow = 0
  ListLimit = 2
  SeenLimit = 1
  PendingLimit = 2
  CompletedLimit = 1
  ChannelCapacity = 1
  MaxDeliveries = 3
SPECIFICATION Spec
INVARIANTS
  IngestTypeOK
  SyncingIsTruthful
  CursorSkipsNothing
  PairedOnce
PROPERTIES
  AssignmentIsStable
