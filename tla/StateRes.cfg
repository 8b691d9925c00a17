CONSTANTS
  EventId = {1, 2, 3}
  PowerLevels = PowerLevels
  Member = Member
  Key = {PowerLevels, Member}
  NoKey = NoKey
  Event <- MCEvent
SPECIFICATION MCSpec
INVARIANTS UnconflictedStateKept LastAllowedWins EachCheckedOnce
PROPERTIES PowerLevelsSettled
CHECK_DEADLOCK FALSE
