CONSTANTS
  alice = alice
  bob = bob
  carol = carol
  here = here
  token = token
  User = {alice, bob, carol}
  Token = {token}
  ServerName <- MCServerName
  RoomServer = here
  RoomVersion <- MCVersion6
  NoKey = NoKey
  NoLevels = NoLevels
  EventId = {1, 2, 3, 4, 5, 6, 7, 8, 9, 10}
  Key <- MCKey
  History <- MCHistory
  Menu <- MCMenu
  MaxSent <- MCMaxSent
SPECIFICATION Spec
INVARIANTS RemovalsWin RestIsEntitled MergeFailuresKnown
CHECK_DEADLOCK FALSE
