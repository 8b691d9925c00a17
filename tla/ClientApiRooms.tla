--------------------------- MODULE ClientApiRooms ---------------------------
(***************************************************************************)
(* The endpoints of the client-server API (ruma-client-api) that are about *)
(* a room: membership, state, messages, aliases, the directory. Each       *)
(* definition is one ruma_api! block with the constructors of its Request  *)
(* and Response: the path, where each field goes, how it is written and    *)
(* read (module Wire), and which fields the constructor asks for.  The     *)
(* fields are those of a build with the feature unstable-pre-spec, without *)
(* compat.                                                                 *)
(***************************************************************************)
EXTENDS Wire

create_alias ==
  [api |-> "client", method |-> "PUT", auth |-> "AccessToken", error |-> "Error",
   path |-> <<"_matrix", "client", "r0", "directory", "room", ":room_alias">>,
   request |-> Arg("path", "required", {":room_alias"}) \cup Arg("body", "required", {"room_id"}),
   response |-> {}]

delete_alias ==
  [api |-> "client", method |-> "DELETE", auth |-> "AccessToken", error |-> "Error",
   path |-> <<"_matrix", "client", "r0", "directory", "room", ":room_alias">>,
   request |-> Arg("path", "required", {":room_alias"}),
   response |-> {}]

get_alias ==
  [api |-> "client", method |-> "GET", auth |-> "None", error |-> "Error",
   path |-> <<"_matrix", "client", "r0", "directory", "room", ":room_alias">>,
   request |-> Arg("path", "required", {":room_alias"}),
   response |-> Arg("body", "required", {"room_id", "servers"})]

set_room_visibility_appservice ==
  [api |-> "client", method |-> "PUT", auth |-> "AccessToken", error |-> "Error",
   path |-> <<"_matrix", "client", "r0", "directory", "list", "appservice", ":network_id", ":room_id">>,
   request |-> Arg("path", "required", {":network_id", ":room_id"})
              \cup Arg("body", "required", {"visibility"}),
   response |-> {}]

get_context ==
  [api |-> "client", method |-> "GET", auth |-> "AccessToken", error |-> "Error",
   path |-> <<"_matrix", "client", "r0", "rooms", ":room_id", "context", ":event_id">>,
   request |-> Arg("path", "required", {":room_id", ":event_id"})
              \cup In("query", "defaulted", {"limit"}) \cup In("query", "optional", {"filter"}),
   response |-> In("body", "optional", {"start", "end", "event"})
               \cup In("body", "defaulted", {"events_before", "events_after", "state"})]

get_public_rooms ==
  [api |-> "client", method |-> "GET", auth |-> "None", error |-> "Error",
   path |-> <<"_matrix", "client", "r0", "publicRooms">>,
   request |-> In("query", "optional", {"limit", "since", "server"}),
   response |-> Arg("body", "required", {"chunk"})
               \cup In("body", "optional", {"next_batch", "prev_batch",
                     "total_room_count_estimate"})]

get_public_rooms_filtered ==
  [api |-> "client", method |-> "POST", auth |-> "AccessToken", error |-> "Error",
   path |-> <<"_matrix", "client", "r0", "publicRooms">>,
   request |-> In("query", "optional", {"server"}) \cup In("body", "optional", {"limit", "since"})
              \cup In("body", "defaulted", {"filter", "room_network"}),
   response |-> In("body", "required", {"chunk"})
               \cup In("body", "optional", {"next_batch", "prev_batch",
                     "total_room_count_estimate"})]

get_room_visibility ==
  [api |-> "client", method |-> "GET", auth |-> "None", error |-> "Error",
   path |-> <<"_matrix", "client", "r0", "directory", "list", "room", ":room_id">>,
   request |-> Arg("path", "required", {":room_id"}),
   response |-> Arg("body", "required", {"visibility"})]

set_room_visibility ==
  [api |-> "client", method |-> "PUT", auth |-> "AccessToken", error |-> "Error",
   path |-> <<"_matrix", "client", "r0", "directory", "list", "room", ":room_id">>,
   request |-> Arg("path", "required", {":room_id"}) \cup Arg("body", "required", {"visibility"}),
   response |-> {}]

knock_room ==
  [api |-> "client", method |-> "POST", auth |-> "AccessToken", error |-> "MatrixError",
   path |-> <<"_matrix", "client", "r0", "knock", ":room_id_or_alias">>,
   request |-> Arg("path", "required", {":room_id_or_alias"})
              \cup In("body", "optional", {"reason"})
              \cup In("query", "defaulted", {"server_name"}),
   response |-> Arg("body", "required", {"room_id"})]

ban_user ==
  [api |-> "client", method |-> "POST", auth |-> "AccessToken", error |-> "Error",
   path |-> <<"_matrix", "client", "r0", "rooms", ":room_id", "ban">>,
   request |-> Arg("path", "required", {":room_id"}) \cup Arg("body", "required", {"user_id"})
              \cup In("body", "optional", {"reason"}),
   response |-> {}]

forget_room ==
  [api |-> "client", method |-> "POST", auth |-> "AccessToken", error |-> "Error",
   path |-> <<"_matrix", "client", "r0", "rooms", ":room_id", "forget">>,
   request |-> Arg("path", "required", {":room_id"}),
   response |-> {}]

get_member_events ==
  [api |-> "client", method |-> "GET", auth |-> "AccessToken", error |-> "Error",
   path |-> <<"_matrix", "client", "r0", "rooms", ":room_id", "members">>,
   request |-> Arg("path", "required", {":room_id"})
              \cup In("query", "optional", {"at", "membership", "not_membership"}),
   response |-> Arg("body", "required", {"chunk"})]

invite_user ==
  [api |-> "client", method |-> "POST", auth |-> "AccessToken", error |-> "Error",
   path |-> <<"_matrix", "client", "r0", "rooms", ":room_id", "invite">>,
   request |-> Arg("path", "required", {":room_id"}) \cup Arg("body", "required", {"recipient"})
              \cup In("body", "optional", {"reason"}),
   response |-> {}]

join_room_by_id ==
  [api |-> "client", method |-> "POST", auth |-> "AccessToken", error |-> "Error",
   path |-> <<"_matrix", "client", "r0", "rooms", ":room_id", "join">>,
   request |-> Arg("path", "required", {":room_id"})
              \cup In("body", "optional", {"third_party_signed", "reason"}),
   response |-> Arg("body", "required", {"room_id"})]

join_room_by_id_or_alias ==
  [api |-> "client", method |-> "POST", auth |-> "AccessToken", error |-> "Error",
   path |-> <<"_matrix", "client", "r0", "join", ":room_id_or_alias">>,
   request |-> Arg("path", "required", {":room_id_or_alias"})
              \cup In("query", "defaulted", {"server_name"})
              \cup In("body", "optional", {"third_party_signed", "reason"}),
   response |-> Arg("body", "required", {"room_id"})]

joined_members ==
  [api |-> "client", method |-> "GET", auth |-> "AccessToken", error |-> "Error",
   path |-> <<"_matrix", "client", "r0", "rooms", ":room_id", "joined_members">>,
   request |-> Arg("path", "required", {":room_id"}),
   response |-> Arg("body", "required", {"joined"})]

joined_rooms ==
  [api |-> "client", method |-> "GET", auth |-> "AccessToken", error |-> "Error",
   path |-> <<"_matrix", "client", "r0", "joined_rooms">>,
   request |-> {},
   response |-> Arg("body", "required", {"joined_rooms"})]

kick_user ==
  [api |-> "client", method |-> "POST", auth |-> "AccessToken", error |-> "Error",
   path |-> <<"_matrix", "client", "r0", "rooms", ":room_id", "kick">>,
   request |-> Arg("path", "required", {":room_id"}) \cup Arg("body", "required", {"user_id"})
              \cup In("body", "optional", {"reason"}),
   response |-> {}]

leave_room ==
  [api |-> "client", method |-> "POST", auth |-> "AccessToken", error |-> "Error",
   path |-> <<"_matrix", "client", "r0", "rooms", ":room_id", "leave">>,
   request |-> Arg("path", "required", {":room_id"}) \cup In("body", "optional", {"reason"}),
   response |-> {}]

unban_user ==
  [api |-> "client", method |-> "POST", auth |-> "AccessToken", error |-> "Error",
   path |-> <<"_matrix", "client", "r0", "rooms", ":room_id", "unban">>,
   request |-> Arg("path", "required", {":room_id"}) \cup Arg("body", "required", {"user_id"})
              \cup In("body", "optional", {"reason"}),
   response |-> {}]

get_message_events ==
  [api |-> "client", method |-> "GET", auth |-> "AccessToken", error |-> "Error",
   path |-> <<"_matrix", "client", "r0", "rooms", ":room_id", "messages">>,
   request |-> Arg("path", "required", {":room_id"})
              \cup Arg("query", "required", {"from", "dir"})
              \cup In("query", "optional", {"to", "filter"})
              \cup In("query", "defaulted", {"limit"}),
   response |-> In("body", "optional", {"start", "end"})
               \cup In("body", "defaulted", {"chunk", "state"})]

create_message_event ==
  [api |-> "client", method |-> "PUT", auth |-> "AccessToken", error |-> "Error",
   path |-> <<"_matrix", "client", "r0", "rooms", ":room_id", "send", ":event_type", ":txn_id">>,
   request |-> Arg("path", "required", {":room_id", ":event_type", ":txn_id"})
              \cup Arg("newtype_body", "required", {"body"}),
   response |-> Arg("body", "required", {"event_id"})]

set_read_marker ==
  [api |-> "client", method |-> "POST", auth |-> "AccessToken", error |-> "Error",
   path |-> <<"_matrix", "client", "r0", "rooms", ":room_id", "read_markers">>,
   request |-> Arg("path", "required", {":room_id"})
              \cup Arg("body", "required", {"m.fully_read"})
              \cup In("body", "optional", {"m.read"}),
   response |-> {}]

create_receipt ==
  [api |-> "client", method |-> "POST", auth |-> "AccessToken", error |-> "Error",
   path |-> <<"_matrix", "client", "r0", "rooms", ":room_id", "receipt", ":receipt_type", ":event_id">>,
   request |-> Arg("path", "required", {":room_id", ":receipt_type", ":event_id"}),
   response |-> {}]

redact_event ==
  [api |-> "client", method |-> "PUT", auth |-> "AccessToken", error |-> "Error",
   path |-> <<"_matrix", "client", "r0", "rooms", ":room_id", "redact", ":event_id", ":txn_id">>,
   request |-> Arg("path", "required", {":room_id", ":event_id", ":txn_id"})
              \cup In("body", "optional", {"reason"}),
   response |-> Arg("body", "required", {"event_id"})]

aliases ==
  [api |-> "client", method |-> "GET", auth |-> "AccessToken", error |-> "Error",
   path |-> <<"_matrix", "client", "r0", "rooms", ":room_id", "aliases">>,
   request |-> Arg("path", "required", {":room_id"}),
   response |-> Arg("body", "required", {"aliases"})]

create_room ==
  [api |-> "client", method |-> "POST", auth |-> "AccessToken", error |-> "Error",
   path |-> <<"_matrix", "client", "r0", "createRoom">>,
   request |-> In("body", "optional", {"creation_content", "name",
                    "power_level_content_override", "preset", "room_alias_name", "room_version",
                    "topic"})
              \cup In("body", "defaulted", {"initial_state", "invite", "invite_3pid",
                    "is_direct", "visibility"}),
   response |-> Arg("body", "required", {"room_id"})]

get_room_event ==
  [api |-> "client", method |-> "GET", auth |-> "AccessToken", error |-> "Error",
   path |-> <<"_matrix", "client", "r0", "rooms", ":room_id", "event", ":event_id">>,
   request |-> Arg("path", "required", {":room_id", ":event_id"}),
   response |-> Arg("newtype_body", "required", {"event"})]

report_content ==
  [api |-> "client", method |-> "POST", auth |-> "AccessToken", error |-> "Error",
   path |-> <<"_matrix", "client", "r0", "rooms", ":room_id", "report", ":event_id">>,
   request |-> Arg("path", "required", {":room_id", ":event_id"})
              \cup Arg("body", "required", {"score", "reason"}),
   response |-> {}]

upgrade_room ==
  [api |-> "client", method |-> "POST", auth |-> "AccessToken", error |-> "Error",
   path |-> <<"_matrix", "client", "r0", "rooms", ":room_id", "upgrade">>,
   request |-> Arg("path", "required", {":room_id"}) \cup Arg("body", "required", {"new_version"}),
   response |-> Arg("body", "required", {"replacement_room"})]

get_state_events ==
  [api |-> "client", method |-> "GET", auth |-> "AccessToken", error |-> "Error",
   path |-> <<"_matrix", "client", "r0", "rooms", ":room_id", "state">>,
   request |-> Arg("path", "required", {":room_id"}),
   response |-> Arg("newtype_body", "required", {"room_state"})]

get_state_events_for_key ==
  [api |-> "client", method |-> "GET", auth |-> "AccessToken", error |-> "Error",
   path |-> <<"_matrix", "client", "r0", "rooms", ":room_id", "state", ":event_type", ":state_key">>,
   request |-> Arg("path", "required", {":room_id", ":event_type"})
              \cup Arg("path", "defaulted", {":state_key"}),
   response |-> Arg("newtype_body", "required", {"content"})]

send_state_event ==
  [api |-> "client", method |-> "PUT", auth |-> "AccessToken", error |-> "Error",
   path |-> <<"_matrix", "client", "r0", "rooms", ":room_id", "state", ":event_type", ":state_key">>,
   request |-> Arg("path", "required", {":room_id", ":event_type"})
              \cup Arg("path", "defaulted", {":state_key"})
              \cup Arg("newtype_body", "required", {"body"}),
   response |-> Arg("body", "required", {"event_id"})]

create_tag ==
  [api |-> "client", method |-> "PUT", auth |-> "AccessToken", error |-> "Error",
   path |-> <<"_matrix", "client", "r0", "user", ":user_id", "rooms", ":room_id", "tags", ":tag">>,
   request |-> Arg("path", "required", {":user_id", ":room_id", ":tag"})
              \cup Arg("newtype_body", "required", {"tag_info"}),
   response |-> {}]

delete_tag ==
  [api |-> "client", method |-> "DELETE", auth |-> "AccessToken", error |-> "Error",
   path |-> <<"_matrix", "client", "r0", "user", ":user_id", "rooms", ":room_id", "tags", ":tag">>,
   request |-> Arg("path", "required", {":user_id", ":room_id", ":tag"}),
   response |-> {}]

get_tags ==
  [api |-> "client", method |-> "GET", auth |-> "AccessToken", error |-> "Error",
   path |-> <<"_matrix", "client", "r0", "user", ":user_id", "rooms", ":room_id", "tags">>,
   request |-> Arg("path", "required", {":user_id", ":room_id"}),
   response |-> Arg("body", "required", {"tags"})]

create_typing_event ==
  [api |-> "client", method |-> "PUT", auth |-> "AccessToken", error |-> "Error",
   path |-> <<"_matrix", "client", "r0", "rooms", ":room_id", "typing", ":user_id">>,
   request |-> Arg("path", "required", {":user_id", ":room_id"})
              \cup Arg("body", "required", {"state"}),
   response |-> {}]

RoomEndpoints ==
  {create_alias, delete_alias, get_alias, set_room_visibility_appservice, get_context,
   get_public_rooms, get_public_rooms_filtered, get_room_visibility, set_room_visibility,
   knock_room, ban_user, forget_room, get_member_events, invite_user, join_room_by_id,
   join_room_by_id_or_alias, joined_members, joined_rooms, kick_user, leave_room, unban_user,
   get_message_events, create_message_event, set_read_marker, create_receipt, redact_event,
   aliases, create_room, get_room_event, report_content, upgrade_room, get_state_events,
   get_state_events_for_key, send_state_event, create_tag, delete_tag, get_tags,
   create_typing_event}
=============================================================================
