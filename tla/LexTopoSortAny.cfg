CONSTANTS
  EventId = {1, 2, 3}
  Level = {0, 50}
  Timestamp = {1, 2}
SPECIFICATION Spec
INVARIANTS TopologicalOrder LostOnlyIfStuck TieBreakOrder
PROPERTIES Terminates ImplementsTopoOrder
CHECK_DEADLOCK FALSE
