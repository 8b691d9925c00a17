--------------------------- MODULE FederationApi ----------------------------
(***************************************************************************)
(* The endpoints of the server-server API (ruma-federation-api). Each      *)
(* definition is one ruma_api! block with the constructors of its Request  *)
(* and Response: the path, where each field goes, how it is written and    *)
(* read (module Wire), and which fields the constructor asks for.  The     *)
(* fields are those of a build with the feature unstable-pre-spec, without *)
(* compat.                                                                 *)
(***************************************************************************)
EXTENDS Wire

get_event_authorization ==
  [api |-> "federation", method |-> "GET", auth |-> "ServerSignatures", error |-> "MatrixError",
   path |-> <<"_matrix", "federation", "v1", "event_auth", ":room_id", ":event_id">>,
   request |-> Arg("path", "required", {":room_id", ":event_id"}),
   response |-> Arg("body", "required", {"auth_chain"})]

get_backfill ==
  [api |-> "federation", method |-> "GET", auth |-> "ServerSignatures", error |-> "MatrixError",
   path |-> <<"_matrix", "federation", "v1", "backfill", ":room_id">>,
   request |-> Arg("path", "required", {":room_id"}) \cup Arg("query", "fragile", {"v"})
              \cup Arg("query", "required", {"limit"}),
   response |-> Arg("body", "required", {"origin", "origin_server_ts", "pdus"})]

federation_get_devices ==
  [api |-> "federation", method |-> "GET", auth |-> "ServerSignatures", error |-> "MatrixError",
   path |-> <<"_matrix", "federation", "v1", "user", "devices", ":user_id">>,
   request |-> Arg("path", "required", {":user_id"}),
   response |-> Arg("body", "required", {"user_id", "stream_id"})
               \cup In("body", "required", {"devices"})]

federation_get_public_rooms ==
  [api |-> "federation", method |-> "GET", auth |-> "ServerSignatures", error |-> "MatrixError",
   path |-> <<"_matrix", "federation", "v1", "publicRooms">>,
   request |-> In("query", "optional", {"limit", "since"})
              \cup In("query", "defaulted", {"room_network"}),
   response |-> In("body", "required", {"chunk"})
               \cup In("body", "optional", {"next_batch", "prev_batch"})
               \cup In("body", "nullable", {"total_room_count_estimate"})]

federation_get_public_rooms_filtered ==
  [api |-> "federation", method |-> "POST", auth |-> "ServerSignatures", error |-> "MatrixError",
   path |-> <<"_matrix", "federation", "v1", "publicRooms">>,
   request |-> In("body", "optional", {"limit", "since"})
              \cup In("body", "defaulted", {"filter", "room_network"}),
   response |-> In("body", "required", {"chunk"})
               \cup In("body", "nullable", {"next_batch", "prev_batch",
                     "total_room_count_estimate"})]

federation_discover_homeserver ==
  [api |-> "federation", method |-> "GET", auth |-> "None", error |-> "MatrixError",
   path |-> <<".well-known", "matrix", "server">>,
   request |-> {},
   response |-> Arg("body", "required", {"m.server"})]

get_remote_server_keys ==
  [api |-> "federation", method |-> "GET", auth |-> "None", error |-> "MatrixError",
   path |-> <<"_matrix", "key", "v2", "query", ":server_name">>,
   request |-> Arg("path", "required", {":server_name"})
              \cup Arg("query", "lenient", {"minimum_valid_until_ts"}),
   response |-> Arg("body", "required", {"server_keys"})]

get_remote_server_keys_batch ==
  [api |-> "federation", method |-> "POST", auth |-> "None", error |-> "MatrixError",
   path |-> <<"_matrix", "key", "v2", "query">>,
   request |-> Arg("body", "required", {"server_keys"}),
   response |-> Arg("body", "required", {"server_keys"})]

get_server_keys ==
  [api |-> "federation", method |-> "GET", auth |-> "None", error |-> "MatrixError",
   path |-> <<"_matrix", "key", "v2", "server">>,
   request |-> {},
   response |-> Arg("newtype_body", "required", {"server_key"})]

get_server_version ==
  [api |-> "federation", method |-> "GET", auth |-> "None", error |-> "MatrixError",
   path |-> <<"_matrix", "federation", "v1", "version">>,
   request |-> {},
   response |-> In("body", "optional", {"server"})]

get_event ==
  [api |-> "federation", method |-> "GET", auth |-> "ServerSignatures", error |-> "MatrixError",
   path |-> <<"_matrix", "federation", "v1", "event", ":event_id">>,
   request |-> Arg("path", "required", {":event_id"}),
   response |-> Arg("body", "required", {"origin", "origin_server_ts", "pdus"})]

get_missing_events ==
  [api |-> "federation", method |-> "POST", auth |-> "ServerSignatures", error |-> "MatrixError",
   path |-> <<"_matrix", "federation", "v1", "get_missing_events", ":room_id">>,
   request |-> Arg("path", "required", {":room_id"})
              \cup Arg("body", "required", {"earliest_events", "latest_events"})
              \cup In("body", "defaulted", {"limit", "min_depth"}),
   response |-> Arg("body", "required", {"events"})]

get_room_state ==
  [api |-> "federation", method |-> "GET", auth |-> "ServerSignatures", error |-> "MatrixError",
   path |-> <<"_matrix", "federation", "v1", "state", ":room_id">>,
   request |-> Arg("path", "required", {":room_id"}) \cup Arg("query", "required", {"event_id"}),
   response |-> Arg("body", "required", {"auth_chain", "pdus"})]

get_room_state_ids ==
  [api |-> "federation", method |-> "GET", auth |-> "ServerSignatures", error |-> "MatrixError",
   path |-> <<"_matrix", "federation", "v1", "state_ids", ":room_id">>,
   request |-> Arg("path", "required", {":room_id"}) \cup Arg("query", "required", {"event_id"}),
   response |-> Arg("body", "required", {"auth_chain_ids", "pdu_ids"})]

federation_claim_keys ==
  [api |-> "federation", method |-> "POST", auth |-> "ServerSignatures", error |-> "MatrixError",
   path |-> <<"_matrix", "federation", "v1", "user", "keys", "claim">>,
   request |-> Arg("body", "required", {"one_time_keys"}),
   response |-> Arg("body", "required", {"one_time_keys"})]

federation_get_keys ==
  [api |-> "federation", method |-> "POST", auth |-> "ServerSignatures", error |-> "MatrixError",
   path |-> <<"_matrix", "federation", "v1", "user", "keys", "query">>,
   request |-> Arg("body", "required", {"device_keys"}),
   response |-> Arg("body", "required", {"device_keys"})
               \cup In("body", "defaulted", {"master_keys", "self_signing_keys"})]

create_knock_event_template ==
  [api |-> "federation", method |-> "GET", auth |-> "ServerSignatures", error |-> "MatrixError",
   path |-> <<"_matrix", "federation", "v1", "make_knock", ":room_id", ":user_id">>,
   request |-> Arg("path", "required", {":room_id", ":user_id"})
              \cup Arg("query", "fragile", {"ver"}),
   response |-> Arg("body", "required", {"room_version", "event"})]

send_knock ==
  [api |-> "federation", method |-> "PUT", auth |-> "ServerSignatures", error |-> "MatrixError",
   path |-> <<"_matrix", "federation", "v1", "send_knock", ":room_id", ":event_id">>,
   request |-> Arg("path", "required", {":room_id", ":event_id"})
              \cup Arg("newtype_body", "required", {"knock_event"}),
   response |-> Arg("body", "required", {"knock_room_state"})]

federation_create_invite_v1 ==
  [api |-> "federation", method |-> "PUT", auth |-> "ServerSignatures", error |-> "MatrixError",
   path |-> <<"_matrix", "federation", "v1", "invite", ":room_id", ":event_id">>,
   request |-> Arg("path", "required", {":room_id", ":event_id"})
              \cup Arg("body", "required", {"sender", "origin", "origin_server_ts", "type",
                    "state_key", "content"}) \cup Arg("body", "defaulted", {"unsigned"}),
   response |-> Arg("newtype_body", "required", {"event"})]

federation_create_invite_v2 ==
  [api |-> "federation", method |-> "PUT", auth |-> "ServerSignatures", error |-> "MatrixError",
   path |-> <<"_matrix", "federation", "v2", "invite", ":room_id", ":event_id">>,
   request |-> Arg("path", "required", {":room_id", ":event_id"})
              \cup Arg("body", "required", {"room_version", "event", "invite_room_state"}),
   response |-> Arg("body", "required", {"event"})]

federation_create_join_event_v1 ==
  [api |-> "federation", method |-> "PUT", auth |-> "ServerSignatures", error |-> "MatrixError",
   path |-> <<"_matrix", "federation", "v1", "send_join", ":room_id", ":event_id">>,
   request |-> Arg("path", "required", {":room_id", ":event_id"})
              \cup Arg("newtype_body", "required", {"pdu"}),
   response |-> Arg("newtype_body", "required", {"room_state"})]

federation_create_join_event_v2 ==
  [api |-> "federation", method |-> "PUT", auth |-> "ServerSignatures", error |-> "MatrixError",
   path |-> <<"_matrix", "federation", "v2", "send_join", ":room_id", ":event_id">>,
   request |-> Arg("path", "required", {":room_id", ":event_id"})
              \cup Arg("newtype_body", "required", {"pdu"}),
   response |-> Arg("newtype_body", "required", {"room_state"})]

create_join_event_template ==
  [api |-> "federation", method |-> "GET", auth |-> "ServerSignatures", error |-> "MatrixError",
   path |-> <<"_matrix", "federation", "v1", "make_join", ":room_id", ":user_id">>,
   request |-> Arg("path", "required", {":room_id", ":user_id"})
              \cup Arg("query", "refilled", {"ver"}),
   response |-> Arg("body", "required", {"event"}) \cup In("body", "optional", {"room_version"})]

federation_create_leave_event_v1 ==
  [api |-> "federation", method |-> "PUT", auth |-> "ServerSignatures", error |-> "MatrixError",
   path |-> <<"_matrix", "federation", "v1", "send_leave", ":room_id", ":event_id">>,
   request |-> Arg("path", "required", {":room_id", ":event_id"})
              \cup Arg("query", "required", {"sender", "origin", "origin_server_ts", "type",
                    "state_key", "content", "depth"}),
   response |-> In("newtype_body", "required", {"empty"})]

federation_create_leave_event_v2 ==
  [api |-> "federation", method |-> "PUT", auth |-> "ServerSignatures", error |-> "MatrixError",
   path |-> <<"_matrix", "federation", "v1", "send_leave", ":room_id", ":event_id">>,
   request |-> Arg("path", "required", {":room_id", ":event_id"})
              \cup Arg("newtype_body", "required", {"pdu"}),
   response |-> {}]

get_leave_event ==
  [api |-> "federation", method |-> "GET", auth |-> "ServerSignatures", error |-> "MatrixError",
   path |-> <<"_matrix", "federation", "v1", "make_leave", ":room_id", ":user_id">>,
   request |-> Arg("path", "required", {":room_id", ":user_id"}),
   response |-> Arg("body", "nullable", {"room_version"}) \cup Arg("body", "required", {"event"})]

get_openid_userinfo ==
  [api |-> "federation", method |-> "GET", auth |-> "None", error |-> "MatrixError",
   path |-> <<"_matrix", "federation", "v1", "openid", "userinfo">>,
   request |-> Arg("query", "required", {"access_token"}),
   response |-> Arg("body", "required", {"sub"})]

get_custom_information ==
  [api |-> "federation", method |-> "GET", auth |-> "AccessToken", error |-> "MatrixError",
   path |-> <<"_matrix", "federation", "v1", "query", ":query_type">>,
   request |-> Arg("path", "required", {":query_type"})
              \cup Arg("query_map", "required", {"params"}),
   response |-> Arg("newtype_body", "required", {"body"})]

get_profile_information ==
  [api |-> "federation", method |-> "GET", auth |-> "ServerSignatures", error |-> "MatrixError",
   path |-> <<"_matrix", "federation", "v1", "query", "profile">>,
   request |-> Arg("query", "required", {"user_id"}) \cup In("query", "optional", {"field"}),
   response |-> In("body", "optional", {"displayname", "avatar_url", "xyz.amorgan.blurhash"})]

get_room_information ==
  [api |-> "federation", method |-> "GET", auth |-> "ServerSignatures", error |-> "MatrixError",
   path |-> <<"_matrix", "federation", "v1", "query", "directory">>,
   request |-> Arg("query", "required", {"room_alias"}),
   response |-> Arg("body", "required", {"room_id", "servers"})]

bind_callback ==
  [api |-> "federation", method |-> "PUT", auth |-> "None", error |-> "MatrixError",
   path |-> <<"_matrix", "federation", "v1", "3pid", "onbind">>,
   request |-> Arg("body", "required", {"medium", "address", "mxid", "invites"}),
   response |-> {}]

exchange_invite ==
  [api |-> "federation", method |-> "PUT", auth |-> "AccessToken", error |-> "MatrixError",
   path |-> <<"_matrix", "federation", "v1", "exchange_third_party_invite", ":room_id">>,
   request |-> Arg("path", "required", {":room_id"})
              \cup Arg("body", "required", {"sender", "state_key", "content"})
              \cup In("body", "required", {"type"}),
   response |-> {}]

send_transaction_message ==
  [api |-> "federation", method |-> "PUT", auth |-> "ServerSignatures", error |-> "MatrixError",
   path |-> <<"_matrix", "federation", "v1", "send", ":transaction_id">>,
   request |-> Arg("path", "required", {":transaction_id"})
              \cup Arg("body", "required", {"origin", "origin_server_ts"})
              \cup In("body", "defaulted", {"pdus", "edus"}),
   response |-> Arg("body", "required", {"pdus"})]

FederationEndpoints ==
  {get_event_authorization, get_backfill, federation_get_devices, federation_get_public_rooms,
   federation_get_public_rooms_filtered, federation_discover_homeserver, get_remote_server_keys,
   get_remote_server_keys_batch, get_server_keys, get_server_version, get_event,
   get_missing_events, get_room_state, get_room_state_ids, federation_claim_keys,
   federation_get_keys, create_knock_event_template, send_knock, federation_create_invite_v1,
   federation_create_invite_v2, federation_create_join_event_v1, federation_create_join_event_v2,
   create_join_event_template, federation_create_leave_event_v1, federation_create_leave_event_v2,
   get_leave_event, get_openid_userinfo, get_custom_information, get_profile_information,
   get_room_information, bind_callback, exchange_invite, send_transaction_message}
=============================================================================
