--------------------------- MODULE ClientApiSync ----------------------------
(***************************************************************************)
(* The endpoints of the client-server API (ruma-client-api) for            *)
(* synchronization, search, filters, encryption keys and their backup.     *)
(* Each definition is one ruma_api! block with the constructors of its     *)
(* Request and Response: the path, where each field goes, how it is        *)
(* written and read (module Wire), and which fields the constructor asks   *)
(* for.  The fields are those of a build with the feature                  *)
(* unstable-pre-spec, without compat.                                      *)
(***************************************************************************)
EXTENDS Wire

add_backup_key_session ==
  [api |-> "client", method |-> "PUT", auth |-> "AccessToken", error |-> "Error",
   path |-> <<"_matrix", "client", "r0", "room_keys", "keys", ":room_id", ":session_id">>,
   request |-> Arg("query", "required", {"version"})
              \cup Arg("path", "required", {":room_id", ":session_id"})
              \cup Arg("newtype_body", "required", {"session_data"}),
   response |-> Arg("body", "required", {"etag", "count"})]

add_backup_key_sessions ==
  [api |-> "client", method |-> "PUT", auth |-> "AccessToken", error |-> "Error",
   path |-> <<"_matrix", "client", "r0", "room_keys", "keys", ":room_id">>,
   request |-> Arg("query", "required", {"version"}) \cup Arg("path", "required", {":room_id"})
              \cup Arg("body", "required", {"sessions"}),
   response |-> Arg("body", "required", {"etag", "count"})]

add_backup_keys ==
  [api |-> "client", method |-> "PUT", auth |-> "AccessToken", error |-> "Error",
   path |-> <<"_matrix", "client", "r0", "room_keys", "keys">>,
   request |-> Arg("query", "required", {"version"}) \cup Arg("body", "required", {"rooms"}),
   response |-> Arg("body", "required", {"etag", "count"})]

create_backup ==
  [api |-> "client", method |-> "POST", auth |-> "AccessToken", error |-> "Error",
   path |-> <<"_matrix", "client", "r0", "room_keys", "version">>,
   request |-> Arg("body", "required", {"algorithm"}),
   response |-> Arg("body", "required", {"version"})]

delete_backup ==
  [api |-> "client", method |-> "DELETE", auth |-> "AccessToken", error |-> "Error",
   path |-> <<"_matrix", "client", "r0", "room_keys", "version", ":version">>,
   request |-> Arg("path", "required", {":version"}),
   response |-> {}]

delete_backup_key_session ==
  [api |-> "client", method |-> "GET", auth |-> "AccessToken", error |-> "Error",
   path |-> <<"_matrix", "client", "r0", "room_keys", "keys", ":room_id", ":session_id">>,
   request |-> Arg("query", "required", {"version"})
              \cup Arg("path", "required", {":room_id", ":session_id"}),
   response |-> Arg("body", "required", {"etag", "count"})]

delete_backup_key_sessions ==
  [api |-> "client", method |-> "GET", auth |-> "AccessToken", error |-> "Error",
   path |-> <<"_matrix", "client", "r0", "room_keys", "keys", ":room_id">>,
   request |-> Arg("query", "required", {"version"}) \cup Arg("path", "required", {":room_id"}),
   response |-> Arg("body", "required", {"etag", "count"})]

delete_backup_keys ==
  [api |-> "client", method |-> "PUT", auth |-> "AccessToken", error |-> "Error",
   path |-> <<"_matrix", "client", "r0", "room_keys", "keys">>,
   request |-> Arg("query", "required", {"version"}),
   response |-> Arg("body", "required", {"etag", "count"})]

get_backup ==
  [api |-> "client", method |-> "GET", auth |-> "AccessToken", error |-> "Error",
   path |-> <<"_matrix", "client", "r0", "room_keys", "version", ":version">>,
   request |-> Arg("path", "required", {":version"}),
   response |-> Arg("body", "required", {"algorithm", "count", "etag", "version"})]

get_backup_key_session ==
  [api |-> "client", method |-> "GET", auth |-> "AccessToken", error |-> "Error",
   path |-> <<"_matrix", "client", "r0", "room_keys", "keys", ":room_id", ":session_id">>,
   request |-> Arg("query", "required", {"version"})
              \cup Arg("path", "required", {":room_id", ":session_id"}),
   response |-> Arg("newtype_body", "required", {"key_data"})]

get_backup_key_sessions ==
  [api |-> "client", method |-> "GET", auth |-> "AccessToken", error |-> "Error",
   path |-> <<"_matrix", "client", "r0", "room_keys", "keys", ":room_id">>,
   request |-> Arg("query", "required", {"version"}) \cup Arg("path", "required", {":room_id"}),
   response |-> Arg("body", "required", {"sessions"})]

get_backup_keys ==
  [api |-> "client", method |-> "GET", auth |-> "AccessToken", error |-> "Error",
   path |-> <<"_matrix", "client", "r0", "room_keys", "keys">>,
   request |-> Arg("query", "required", {"version"}),
   response |-> Arg("body", "required", {"rooms"})]

get_latest_backup ==
  [api |-> "client", method |-> "GET", auth |-> "AccessToken", error |-> "Error",
   path |-> <<"_matrix", "client", "r0", "room_keys", "version">>,
   request |-> {},
   response |-> Arg("body", "required", {"algorithm", "count", "etag", "version"})]

update_backup ==
  [api |-> "client", method |-> "POST", auth |-> "AccessToken", error |-> "Error",
   path |-> <<"_matrix", "client", "r0", "room_keys", "version", ":version">>,
   request |-> Arg("path", "required", {":version"}) \cup Arg("body", "required", {"algorithm"}),
   response |-> {}]

create_filter ==
  [api |-> "client", method |-> "POST", auth |-> "AccessToken", error |-> "Error",
   path |-> <<"_matrix", "client", "r0", "user", ":user_id", "filter">>,
   request |-> Arg("path", "required", {":user_id"})
              \cup Arg("newtype_body", "required", {"filter"}),
   response |-> Arg("body", "required", {"filter_id"})]

get_filter ==
  [api |-> "client", method |-> "GET", auth |-> "AccessToken", error |-> "Error",
   path |-> <<"_matrix", "client", "r0", "user", ":user_id", "filter", ":filter_id">>,
   request |-> Arg("path", "required", {":user_id", ":filter_id"}),
   response |-> Arg("newtype_body", "required", {"filter"})]

claim_keys ==
  [api |-> "client", method |-> "POST", auth |-> "AccessToken", error |-> "Error",
   path |-> <<"_matrix", "client", "r0", "keys", "claim">>,
   request |-> Arg("body", "required", {"one_time_keys"}) \cup In("body", "optional", {"timeout"}),
   response |-> Arg("body", "required", {"one_time_keys"})
               \cup In("body", "required", {"failures"})]

get_key_changes ==
  [api |-> "client", method |-> "GET", auth |-> "AccessToken", error |-> "Error",
   path |-> <<"_matrix", "client", "r0", "keys", "changes">>,
   request |-> Arg("query", "required", {"from", "to"}),
   response |-> Arg("body", "required", {"changed", "left"})]

get_keys ==
  [api |-> "client", method |-> "POST", auth |-> "AccessToken", error |-> "Error",
   path |-> <<"_matrix", "client", "r0", "keys", "query">>,
   request |-> In("body", "optional", {"timeout", "token"})
              \cup In("body", "required", {"device_keys"}),
   response |-> In("body", "defaulted", {"failures", "device_keys", "master_keys", "self_signing_keys",
                                        "user_signing_keys"})]

upload_keys ==
  [api |-> "client", method |-> "POST", auth |-> "AccessToken", error |-> "Error",
   path |-> <<"_matrix", "client", "r0", "keys", "upload">>,
   request |-> In("body", "optional", {"device_keys", "one_time_keys"}),
   response |-> Arg("body", "required", {"one_time_key_counts"})]

upload_signatures ==
  [api |-> "client", method |-> "POST", auth |-> "AccessToken", error |-> "Error",
   path |-> <<"_matrix", "client", "r0", "keys", "signatures", "upload">>,
   request |-> Arg("newtype_body", "required", {"signed_keys"}),
   response |-> {}]

upload_signing_keys ==
  [api |-> "client", method |-> "POST", auth |-> "AccessToken", error |-> "UiaaResponse",
   path |-> <<"_matrix", "client", "unstable", "keys", "device_signing", "upload">>,
   request |-> In("body", "optional", {"auth", "master_key", "self_signing_key",
                    "user_signing_key"}),
   response |-> {}]

search ==
  [api |-> "client", method |-> "POST", auth |-> "AccessToken", error |-> "Error",
   path |-> <<"_matrix", "client", "r0", "search">>,
   request |-> Arg("body", "required", {"search_categories"})
              \cup In("query", "optional", {"next_batch"}),
   response |-> Arg("body", "required", {"search_categories"})]

sync ==
  [api |-> "client", method |-> "GET", auth |-> "AccessToken", error |-> "Error",
   path |-> <<"_matrix", "client", "r0", "sync">>,
   request |-> In("query", "optional", {"filter", "since", "timeout"})
              \cup In("query", "defaulted", {"full_state", "set_presence"}),
   response |-> Arg("body", "required", {"next_batch"})
               \cup In("body", "defaulted", {"rooms", "presence", "account_data", "to_device",
                     "device_lists", "device_one_time_keys_count"})]

send_event_to_device ==
  [api |-> "client", method |-> "PUT", auth |-> "AccessToken", error |-> "Error",
   path |-> <<"_matrix", "client", "r0", "sendToDevice", ":event_type", ":txn_id">>,
   request |-> Arg("path", "required", {":event_type", ":txn_id"})
              \cup Arg("body", "required", {"messages"}),
   response |-> {}]

SyncEndpoints ==
  {add_backup_key_session, add_backup_key_sessions, add_backup_keys, create_backup, delete_backup,
   delete_backup_key_session, delete_backup_key_sessions, delete_backup_keys, get_backup,
   get_backup_key_session, get_backup_key_sessions, get_backup_keys, get_latest_backup,
   update_backup, create_filter, get_filter, claim_keys, get_key_changes, get_keys, upload_keys,
   upload_signatures, upload_signing_keys, search, sync, send_event_to_device}
=============================================================================
