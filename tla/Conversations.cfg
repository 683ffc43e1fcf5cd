CONSTANTS
  Privates = {1, 2}
  Groups = {3}
  Ids = {i1, i2}
  Times = {1, 2}
  MaxMessages = 3
  MaxLag = 0
  MaxOffset = 1
  None = None
  Inbox = Inbox
  MaxPageSize = 2
  MaxCursorOffset = 3
  MaxDeparted = 2
SPECIFICATION ChatSpec
SYMMETRY Symmetry
INVARIANTS
  MissedAtMostDeparted
  IdsNameOneConversation
