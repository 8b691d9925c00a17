CONSTANTS
  Me <- MCMe
  LocalPart <- MCLocalPart
  UserId <- MCUserId
  RoomPing <- MCRoomPing
  Capital <- MCCapital
  WordChar <- MCWordChar
  Event <- MCEvent
  Context <- MCContext
  UserRule <- MCUserRule
  PreSpec = TRUE
  MaxRules = 2
SPECIFICATION SpecPR
INVARIANTS WordMatchIsReference DefaultsPrevail
PROPERTIES FirstMatchStands
