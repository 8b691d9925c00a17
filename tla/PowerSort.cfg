CONSTANTS
  EventId = {1, 2, 3}
  Level = {0, 50}
  Timestamp = {1}
  User = {alice}
  NoEvent = NoEvent
  Event <- MCEvent
SPECIFICATION MCSpec
INVARIANTS GraphIsAuthChains PowerEventsAllSorted AuthEventsFirst
PROPERTY TerminatesPS
CHECK_DEADLOCK FALSE
