CONSTANTS
  alice = alice
  bob = bob
  carol = carol
  here = here
  elsewhere = elsewhere
  token = token
  User = {alice, bob, carol}
  Token = {token}
  ServerName <- MCServerName
  RoomServer = here
  RoomVersion <- MCVersion6
  NoKey = NoKey
  NoLevels = NoLevels
  Event <- MCEvent
SPECIFICATION Spec
INVARIANTS ExpectedMembershipExists
PROPERTIES BansHold EntryIsEntitled TopUserIsSafe ListedLevelsAreBounded
CHECK_DEADLOCK FALSE
