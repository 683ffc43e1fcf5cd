CONSTANTS
  Uids = {u1, u2, u3}
  MessageUids = {u1, u2}
  None = None
  AnswerLengths = {1, 3}
  MaxResponse = 2
  QueueLimit = 1
  CompletedLimit = 1
  ChannelCapacity = 1
  MaxFailures = 1
  SourceLimit = 2
SPECIFICATION Spec
INVARIANTS
  TypeOK
  MetadataIsOwn
  NoReplayInSession
PROPERTIES
  QueuedIsServed
