CONSTANTS
  Contacts = {1, 2, 3, 4, 5, 6}
  Usable = {1, 2, 3, 4, 5}
  Named = {1, 2, 3, 4, 6}
  Phonebooks = {{}, {6}, {1, 2, 3, 4, 5}, {1, 3, 6}, {2, 3, 4}}
  MaxPageSize = 2
  MaxCursorOffset = 5
  MaxOffset = 2
  MaxDeparted = 4
SPECIFICATION FairSpec
INVARIANTS
  BookIsWhole
  MissedAtMostDeparted
PROPERTY
  BookCatchesUp
