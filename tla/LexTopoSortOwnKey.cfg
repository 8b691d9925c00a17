CONSTANTS
  EventId = {1, 2, 3}
  Level = {0, 50}
  Timestamp = {1}
SPECIFICATION Spec
INVARIANT OwnKeyOrder
CHECK_DEADLOCK FALSE
