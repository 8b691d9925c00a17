CONSTANTS
  EventId = {1, 2, 3, 4}
  NoEvent = NoEvent
  Event <- MCEvent
SPECIFICATION MCSpec
INVARIANTS DepthsAreRight LossOnlyIfMissing OlderLevelsFirst
CHECK_DEADLOCK FALSE
