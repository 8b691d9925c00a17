------------------------------ MODULE HttpApiMC -----------------------------
(***************************************************************************)
(* HttpApi with every endpoint, object, union and string enum of the code. *)
(***************************************************************************)
EXTENDS HttpApi, ClientApiAccount, ClientApiRooms, ClientApiSync, FederationApi, ServiceApis, Unions, WireNames

AllEndpoints ==
  AccountEndpoints \cup RoomEndpoints \cup SyncEndpoints \cup FederationEndpoints \cup ServiceEndpoints
AllObjects == ApiObjectTypes \cup EventObjectTypes
\* the backup endpoints that are declared with the method of another, and the leave event of two versions
SharedRoutes ==
  {delete_backup_keys, add_backup_keys, delete_backup_key_session, get_backup_key_session,
   delete_backup_key_sessions, get_backup_key_sessions,
   federation_create_leave_event_v1, federation_create_leave_event_v2}
KnownLossy == {SearchResult, UnsignedEventContent, send_event_notification_Device, RoomV1Pdu, CustomLoginType}
=============================================================================
