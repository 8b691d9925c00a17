-------------------------- MODULE ClientApiAccount --------------------------
(***************************************************************************)
(* The endpoints of the client-server API (ruma-client-api) that are about *)
(* an account: registration, sessions, devices, profile, push, media and   *)
(* the server itself. Each definition is one ruma_api! block with the      *)
(* constructors of its Request and Response: the path, where each field    *)
(* goes, how it is written and read (module Wire), and which fields the    *)
(* constructor asks for.  The fields are those of a build with the feature *)
(* unstable-pre-spec, without compat.                                      *)
(***************************************************************************)
EXTENDS Wire

add_3pid ==
  [api |-> "client", method |-> "POST", auth |-> "AccessToken", error |-> "UiaaResponse",
   path |-> <<"_matrix", "client", "r0", "account", "3pid", "add">>,
   request |-> Arg("body", "required", {"client_secret", "sid"})
              \cup In("body", "optional", {"auth"}),
   response |-> {}]

bind_3pid ==
  [api |-> "client", method |-> "POST", auth |-> "AccessToken", error |-> "Error",
   path |-> <<"_matrix", "client", "r0", "account", "3pid", "bind">>,
   request |-> Arg("body", "required", {"client_secret", "identity_server_info", "sid"}),
   response |-> {}]

change_password ==
  [api |-> "client", method |-> "POST", auth |-> "AccessToken", error |-> "UiaaResponse",
   path |-> <<"_matrix", "client", "r0", "account", "password">>,
   request |-> Arg("body", "required", {"new_password"})
              \cup In("body", "defaulted", {"logout_devices"})
              \cup In("body", "optional", {"auth"}),
   response |-> {}]

check_registration_token_validity ==
  [api |-> "client", method |-> "GET", auth |-> "None", error |-> "Error",
   path |-> <<"_matrix", "client", "unstable", "org.matrix.msc3231", "register", "org.matrix.msc3231.login.registration_token", "validity">>,
   request |-> Arg("query", "required", {"registration_token"}),
   response |-> Arg("body", "required", {"valid"})]

deactivate ==
  [api |-> "client", method |-> "POST", auth |-> "AccessToken", error |-> "UiaaResponse",
   path |-> <<"_matrix", "client", "r0", "account", "deactivate">>,
   request |-> In("body", "optional", {"auth", "id_server"}),
   response |-> Arg("body", "required", {"id_server_unbind_result"})]

delete_3pid ==
  [api |-> "client", method |-> "POST", auth |-> "AccessToken", error |-> "Error",
   path |-> <<"_matrix", "client", "r0", "account", "3pid", "delete">>,
   request |-> Arg("body", "required", {"medium", "address"})
              \cup In("body", "optional", {"id_server"}),
   response |-> Arg("body", "required", {"id_server_unbind_result"})]

get_3pids ==
  [api |-> "client", method |-> "GET", auth |-> "AccessToken", error |-> "Error",
   path |-> <<"_matrix", "client", "r0", "account", "3pid">>,
   request |-> {},
   response |-> Arg("body", "defaulted", {"threepids"})]

get_username_availability ==
  [api |-> "client", method |-> "GET", auth |-> "None", error |-> "Error",
   path |-> <<"_matrix", "client", "r0", "register", "available">>,
   request |-> Arg("query", "required", {"username"}),
   response |-> Arg("body", "required", {"available"})]

register ==
  [api |-> "client", method |-> "POST", auth |-> "None", error |-> "UiaaResponse",
   path |-> <<"_matrix", "client", "r0", "register">>,
   request |-> In("body", "optional", {"password", "username", "device_id",
                    "initial_device_display_name", "auth", "type"})
              \cup In("query", "defaulted", {"kind"})
              \cup In("body", "defaulted", {"inhibit_login"}),
   response |-> Arg("body", "required", {"user_id"}) \cup In("body", "optional", {"access_token"})
               \cup In("body", "nullable", {"device_id"})]

request_3pid_management_token_via_email ==
  [api |-> "client", method |-> "POST", auth |-> "None", error |-> "Error",
   path |-> <<"_matrix", "client", "r0", "account", "3pid", "email", "requestToken">>,
   request |-> Arg("body", "required", {"client_secret", "email", "send_attempt"})
              \cup In("body", "optional", {"next_link", "identity_server_info"}),
   response |-> Arg("body", "required", {"sid"}) \cup In("body", "optional", {"submit_url"})]

request_3pid_management_token_via_msisdn ==
  [api |-> "client", method |-> "POST", auth |-> "None", error |-> "Error",
   path |-> <<"_matrix", "client", "r0", "account", "3pid", "msisdn", "requestToken">>,
   request |-> Arg("body", "required", {"client_secret", "country", "phone_number",
                    "send_attempt"})
              \cup In("body", "optional", {"next_link", "identity_server_info"}),
   response |-> Arg("body", "required", {"sid"}) \cup In("body", "optional", {"submit_url"})]

request_openid_token ==
  [api |-> "client", method |-> "POST", auth |-> "AccessToken", error |-> "Error",
   path |-> <<"_matrix", "client", "r0", "user", ":user_id", "openid", "request_token">>,
   request |-> Arg("path", "required", {":user_id"}),
   response |-> Arg("body", "required", {"access_token", "token_type", "matrix_server_name",
                     "expires_in"})]

request_password_change_token_via_email ==
  [api |-> "client", method |-> "POST", auth |-> "None", error |-> "Error",
   path |-> <<"_matrix", "client", "r0", "account", "password", "email", "requestToken">>,
   request |-> Arg("body", "required", {"client_secret", "email", "send_attempt"})
              \cup In("body", "optional", {"next_link", "identity_server_info"}),
   response |-> Arg("body", "required", {"sid"}) \cup In("body", "optional", {"submit_url"})]

request_password_change_token_via_msisdn ==
  [api |-> "client", method |-> "POST", auth |-> "None", error |-> "Error",
   path |-> <<"_matrix", "client", "r0", "account", "password", "msisdn", "requestToken">>,
   request |-> Arg("body", "required", {"client_secret", "country", "phone_number",
                    "send_attempt"}) \cup In("body", "optional", {"next_link"}),
   response |-> Arg("body", "required", {"sid"}) \cup In("body", "optional", {"submit_url"})]

request_registration_token_via_email ==
  [api |-> "client", method |-> "POST", auth |-> "None", error |-> "Error",
   path |-> <<"_matrix", "client", "r0", "register", "email", "requestToken">>,
   request |-> Arg("body", "required", {"client_secret", "email", "send_attempt"})
              \cup In("body", "optional", {"next_link", "identity_server_info"}),
   response |-> Arg("body", "required", {"sid"}) \cup In("body", "optional", {"submit_url"})]

request_registration_token_via_msisdn ==
  [api |-> "client", method |-> "POST", auth |-> "None", error |-> "Error",
   path |-> <<"_matrix", "client", "r0", "register", "msisdn", "requestToken">>,
   request |-> Arg("body", "required", {"client_secret", "country", "phone_number",
                    "send_attempt"})
              \cup In("body", "optional", {"next_link", "identity_server_info"}),
   response |-> Arg("body", "required", {"sid"}) \cup In("body", "optional", {"submit_url"})]

unbind_3pid ==
  [api |-> "client", method |-> "POST", auth |-> "AccessToken", error |-> "Error",
   path |-> <<"_matrix", "client", "r0", "account", "3pid", "unbind">>,
   request |-> Arg("body", "required", {"medium", "address"})
              \cup In("body", "optional", {"id_server"}),
   response |-> Arg("body", "required", {"id_server_unbind_result"})]

whoami ==
  [api |-> "client", method |-> "GET", auth |-> "AccessToken", error |-> "Error",
   path |-> <<"_matrix", "client", "r0", "account", "whoami">>,
   request |-> {},
   response |-> Arg("body", "required", {"user_id"})]

get_capabilities ==
  [api |-> "client", method |-> "GET", auth |-> "AccessToken", error |-> "Error",
   path |-> <<"_matrix", "client", "r0", "capabilities">>,
   request |-> {},
   response |-> Arg("body", "required", {"capabilities"})]

get_global_account_data ==
  [api |-> "client", method |-> "GET", auth |-> "AccessToken", error |-> "Error",
   path |-> <<"_matrix", "client", "r0", "user", ":user_id", "account_data", ":event_type">>,
   request |-> Arg("path", "required", {":user_id", ":event_type"}),
   response |-> Arg("newtype_body", "required", {"account_data"})]

get_room_account_data ==
  [api |-> "client", method |-> "GET", auth |-> "AccessToken", error |-> "Error",
   path |-> <<"_matrix", "client", "r0", "user", ":user_id", "rooms", ":room_id", "account_data", ":event_type">>,
   request |-> Arg("path", "required", {":user_id", ":room_id", ":event_type"}),
   response |-> Arg("newtype_body", "required", {"account_data"})]

set_global_account_data ==
  [api |-> "client", method |-> "PUT", auth |-> "AccessToken", error |-> "Error",
   path |-> <<"_matrix", "client", "r0", "user", ":user_id", "account_data", ":event_type">>,
   request |-> Arg("path", "required", {":user_id", ":event_type"})
              \cup Arg("newtype_body", "required", {"data"}),
   response |-> {}]

set_room_account_data ==
  [api |-> "client", method |-> "PUT", auth |-> "AccessToken", error |-> "Error",
   path |-> <<"_matrix", "client", "r0", "user", ":user_id", "rooms", ":room_id", "account_data", ":event_type">>,
   request |-> Arg("newtype_body", "required", {"data"})
              \cup Arg("path", "required", {":event_type", ":room_id", ":user_id"}),
   response |-> {}]

delete_device ==
  [api |-> "client", method |-> "DELETE", auth |-> "AccessToken", error |-> "UiaaResponse",
   path |-> <<"_matrix", "client", "r0", "devices", ":device_id">>,
   request |-> Arg("path", "required", {":device_id"}) \cup In("body", "optional", {"auth"}),
   response |-> {}]

delete_devices ==
  [api |-> "client", method |-> "POST", auth |-> "AccessToken", error |-> "UiaaResponse",
   path |-> <<"_matrix", "client", "r0", "delete_devices">>,
   request |-> Arg("body", "required", {"devices"}) \cup In("body", "optional", {"auth"}),
   response |-> {}]

get_device ==
  [api |-> "client", method |-> "GET", auth |-> "AccessToken", error |-> "Error",
   path |-> <<"_matrix", "client", "r0", "devices", ":device_id">>,
   request |-> Arg("path", "required", {":device_id"}),
   response |-> Arg("newtype_body", "required", {"device"})]

get_devices ==
  [api |-> "client", method |-> "GET", auth |-> "AccessToken", error |-> "Error",
   path |-> <<"_matrix", "client", "r0", "devices">>,
   request |-> {},
   response |-> Arg("body", "required", {"devices"})]

update_device ==
  [api |-> "client", method |-> "PUT", auth |-> "AccessToken", error |-> "Error",
   path |-> <<"_matrix", "client", "r0", "devices", ":device_id">>,
   request |-> Arg("path", "required", {":device_id"})
              \cup In("body", "optional", {"display_name"}),
   response |-> {}]

create_media_content ==
  [api |-> "client", method |-> "POST", auth |-> "AccessToken", error |-> "Error",
   path |-> <<"_matrix", "media", "r0", "upload">>,
   request |-> Arg("raw_body", "required", {"file"}) \cup In("query", "optional", {"filename"})
              \cup In("query", "defaulted", {"xyz.amorgan.blurhash"})
              \cup In("header", "optional", {"CONTENT_TYPE"}),
   response |-> Arg("body", "required", {"content_uri"}) \cup In("body", "optional", {"xyz.amorgan.blurhash"})]

get_media_content ==
  [api |-> "client", method |-> "GET", auth |-> "None", error |-> "Error",
   path |-> <<"_matrix", "media", "r0", "download", ":server_name", ":media_id">>,
   request |-> Arg("path", "required", {":media_id", ":server_name"})
              \cup In("query", "defaulted", {"allow_remote"}),
   response |-> Arg("raw_body", "required", {"file"})
               \cup In("header", "optional", {"CONTENT_TYPE", "CONTENT_DISPOSITION"})]

get_media_content_as_filename ==
  [api |-> "client", method |-> "GET", auth |-> "None", error |-> "Error",
   path |-> <<"_matrix", "media", "r0", "download", ":server_name", ":media_id", ":filename">>,
   request |-> Arg("path", "required", {":media_id", ":server_name", ":filename"})
              \cup In("query", "defaulted", {"allow_remote"}),
   response |-> Arg("raw_body", "required", {"file"})
               \cup In("header", "optional", {"CONTENT_TYPE", "CONTENT_DISPOSITION"})]

get_content_thumbnail ==
  [api |-> "client", method |-> "GET", auth |-> "None", error |-> "Error",
   path |-> <<"_matrix", "media", "r0", "thumbnail", ":server_name", ":media_id">>,
   request |-> Arg("path", "required", {":media_id", ":server_name"})
              \cup Arg("query", "required", {"width", "height"})
              \cup In("query", "optional", {"method"})
              \cup In("query", "defaulted", {"allow_remote"}),
   response |-> Arg("raw_body", "required", {"file"})
               \cup In("header", "optional", {"CONTENT_TYPE"})]

get_media_config ==
  [api |-> "client", method |-> "GET", auth |-> "AccessToken", error |-> "Error",
   path |-> <<"_matrix", "media", "r0", "config">>,
   request |-> {},
   response |-> Arg("body", "required", {"m.upload.size"})]

get_media_preview ==
  [api |-> "client", method |-> "GET", auth |-> "AccessToken", error |-> "Error",
   path |-> <<"_matrix", "media", "r0", "preview_url">>,
   request |-> Arg("query", "required", {"url", "ts"}),
   response |-> In("newtype_body", "nullable", {"data"})]

get_presence ==
  [api |-> "client", method |-> "GET", auth |-> "AccessToken", error |-> "Error",
   path |-> <<"_matrix", "client", "r0", "presence", ":user_id", "status">>,
   request |-> Arg("path", "required", {":user_id"}),
   response |-> Arg("body", "required", {"presence"})
               \cup In("body", "optional", {"status_msg", "currently_active", "last_active_ago"})]

set_presence ==
  [api |-> "client", method |-> "PUT", auth |-> "AccessToken", error |-> "Error",
   path |-> <<"_matrix", "client", "r0", "presence", ":user_id", "status">>,
   request |-> Arg("path", "required", {":user_id"}) \cup Arg("body", "required", {"presence"})
              \cup In("body", "optional", {"status_msg"}),
   response |-> {}]

get_avatar_url ==
  [api |-> "client", method |-> "GET", auth |-> "None", error |-> "Error",
   path |-> <<"_matrix", "client", "r0", "profile", ":user_id", "avatar_url">>,
   request |-> Arg("path", "required", {":user_id"}),
   response |-> Arg("body", "optional", {"avatar_url"}) \cup In("body", "optional", {"xyz.amorgan.blurhash"})]

get_display_name ==
  [api |-> "client", method |-> "GET", auth |-> "None", error |-> "Error",
   path |-> <<"_matrix", "client", "r0", "profile", ":user_id", "displayname">>,
   request |-> Arg("path", "required", {":user_id"}),
   response |-> Arg("body", "optional", {"displayname"})]

get_profile ==
  [api |-> "client", method |-> "GET", auth |-> "None", error |-> "Error",
   path |-> <<"_matrix", "client", "r0", "profile", ":user_id">>,
   request |-> Arg("path", "required", {":user_id"}),
   response |-> Arg("body", "optional", {"avatar_url", "displayname"})
               \cup In("body", "optional", {"xyz.amorgan.blurhash"})]

set_avatar_url ==
  [api |-> "client", method |-> "PUT", auth |-> "AccessToken", error |-> "Error",
   path |-> <<"_matrix", "client", "r0", "profile", ":user_id", "avatar_url">>,
   request |-> Arg("path", "required", {":user_id"}) \cup Arg("body", "nullable", {"avatar_url"})
              \cup In("body", "optional", {"xyz.amorgan.blurhash"}),
   response |-> {}]

set_display_name ==
  [api |-> "client", method |-> "PUT", auth |-> "AccessToken", error |-> "Error",
   path |-> <<"_matrix", "client", "r0", "profile", ":user_id", "displayname">>,
   request |-> Arg("path", "required", {":user_id"}) \cup Arg("body", "optional", {"displayname"}),
   response |-> {}]

delete_pushrule ==
  [api |-> "client", method |-> "DELETE", auth |-> "AccessToken", error |-> "Error",
   path |-> <<"_matrix", "client", "r0", "pushrules", ":scope", ":kind", ":rule_id">>,
   request |-> Arg("path", "required", {":scope", ":kind", ":rule_id"}),
   response |-> {}]

get_notifications ==
  [api |-> "client", method |-> "GET", auth |-> "AccessToken", error |-> "Error",
   path |-> <<"_matrix", "client", "r0", "notifications">>,
   request |-> In("query", "optional", {"from", "limit", "only"}),
   response |-> Arg("body", "required", {"notifications"})
               \cup In("body", "optional", {"next_token"})]

get_pushers ==
  [api |-> "client", method |-> "GET", auth |-> "AccessToken", error |-> "Error",
   path |-> <<"_matrix", "client", "r0", "pushers">>,
   request |-> {},
   response |-> Arg("body", "required", {"pushers"})]

get_pushrule ==
  [api |-> "client", method |-> "GET", auth |-> "AccessToken", error |-> "Error",
   path |-> <<"_matrix", "client", "r0", "pushrules", ":scope", ":kind", ":rule_id">>,
   request |-> Arg("path", "required", {":scope", ":kind", ":rule_id"}),
   response |-> Arg("newtype_body", "required", {"rule"})]

get_pushrule_actions ==
  [api |-> "client", method |-> "GET", auth |-> "AccessToken", error |-> "Error",
   path |-> <<"_matrix", "client", "r0", "pushrules", ":scope", ":kind", ":rule_id", "actions">>,
   request |-> Arg("path", "required", {":scope", ":kind", ":rule_id"}),
   response |-> Arg("body", "required", {"actions"})]

get_pushrule_enabled ==
  [api |-> "client", method |-> "GET", auth |-> "AccessToken", error |-> "Error",
   path |-> <<"_matrix", "client", "r0", "pushrules", ":scope", ":kind", ":rule_id", "enabled">>,
   request |-> Arg("path", "required", {":scope", ":kind", ":rule_id"}),
   response |-> Arg("body", "required", {"enabled"})]

get_pushrules_all ==
  [api |-> "client", method |-> "GET", auth |-> "AccessToken", error |-> "Error",
   path |-> <<"_matrix", "client", "r0", "pushrules", "">>,
   request |-> {},
   response |-> Arg("body", "required", {"global"})]

get_pushrules_global_scope ==
  [api |-> "client", method |-> "GET", auth |-> "AccessToken", error |-> "Error",
   path |-> <<"_matrix", "client", "r0", "pushrules", "global", "">>,
   request |-> {},
   response |-> Arg("newtype_body", "required", {"global"})]

set_pusher ==
  [api |-> "client", method |-> "POST", auth |-> "AccessToken", error |-> "Error",
   path |-> <<"_matrix", "client", "r0", "pushers", "set">>,
   request |-> Arg("body", "required", {"pusher"}) \cup In("body", "defaulted", {"append"}),
   response |-> {}]

set_pushrule ==
  [api |-> "client", method |-> "PUT", auth |-> "AccessToken", error |-> "Error",
   path |-> <<"_matrix", "client", "r0", "pushrules", ":scope", ":kind", ":rule_id">>,
   request |-> Arg("path", "required", {":scope", ":kind", ":rule_id"})
              \cup Arg("body", "required", {"actions"})
              \cup In("query", "optional", {"before", "after"})
              \cup In("body", "defaulted", {"conditions"})
              \cup In("body", "optional", {"pattern"}),
   response |-> {}]

set_pushrule_actions ==
  [api |-> "client", method |-> "PUT", auth |-> "AccessToken", error |-> "Error",
   path |-> <<"_matrix", "client", "r0", "pushrules", ":scope", ":kind", ":rule_id", "actions">>,
   request |-> Arg("path", "required", {":scope", ":kind", ":rule_id"})
              \cup Arg("body", "required", {"actions"}),
   response |-> {}]

set_pushrule_enabled ==
  [api |-> "client", method |-> "PUT", auth |-> "AccessToken", error |-> "Error",
   path |-> <<"_matrix", "client", "r0", "pushrules", ":scope", ":kind", ":rule_id", "enabled">>,
   request |-> Arg("path", "required", {":scope", ":kind", ":rule_id"})
              \cup Arg("body", "required", {"enabled"}),
   response |-> {}]

get_user_info ==
  [api |-> "client", method |-> "GET", auth |-> "AccessToken", error |-> "Error",
   path |-> <<"_matrix", "client", "r0", "admin", "whois", ":user_id">>,
   request |-> Arg("path", "required", {":user_id"}),
   response |-> In("body", "optional", {"user_id"}) \cup In("body", "defaulted", {"devices"})]

get_login_types ==
  [api |-> "client", method |-> "GET", auth |-> "None", error |-> "Error",
   path |-> <<"_matrix", "client", "r0", "login">>,
   request |-> {},
   response |-> Arg("body", "required", {"flows"})]

login ==
  [api |-> "client", method |-> "POST", auth |-> "None", error |-> "Error",
   path |-> <<"_matrix", "client", "r0", "login">>,
   request |-> Arg("body", "required", {"login_info"})
              \cup In("body", "optional", {"device_id", "initial_device_display_name"}),
   response |-> Arg("body", "required", {"user_id", "access_token", "device_id"})
               \cup In("body", "optional", {"home_server", "well_known"})]

login_fallback ==
  [api |-> "client", method |-> "GET", auth |-> "None", error |-> "MatrixError",
   path |-> <<"_matrix", "static", "client", "login", "">>,
   request |-> Arg("query", "optional", {"device_id", "initial_device_display_name"}),
   response |-> Arg("raw_body", "required", {"body"})]

logout ==
  [api |-> "client", method |-> "POST", auth |-> "AccessToken", error |-> "Error",
   path |-> <<"_matrix", "client", "r0", "logout">>,
   request |-> {},
   response |-> {}]

logout_all ==
  [api |-> "client", method |-> "POST", auth |-> "AccessToken", error |-> "Error",
   path |-> <<"_matrix", "client", "r0", "logout", "all">>,
   request |-> {},
   response |-> {}]

sso_login ==
  [api |-> "client", method |-> "GET", auth |-> "None", error |-> "Error",
   path |-> <<"_matrix", "client", "r0", "login", "sso", "redirect">>,
   request |-> Arg("query", "required", {"redirectUrl"}),
   response |-> Arg("header", "required", {"LOCATION"})]

sso_login_with_provider ==
  [api |-> "client", method |-> "GET", auth |-> "None", error |-> "Error",
   path |-> <<"_matrix", "client", "unstable", "org.matrix.msc2858", "login", "sso", "redirect", ":idp_id">>,
   request |-> Arg("path", "required", {":idp_id"}) \cup Arg("query", "required", {"redirectUrl"}),
   response |-> Arg("header", "required", {"LOCATION"})]

get_location_for_protocol ==
  [api |-> "client", method |-> "GET", auth |-> "AccessToken", error |-> "Error",
   path |-> <<"_matrix", "client", "r0", "thirdparty", "location", ":protocol">>,
   request |-> Arg("path", "required", {":protocol"}) \cup In("query_map", "required", {"fields"}),
   response |-> Arg("newtype_body", "required", {"locations"})]

get_location_for_room_alias ==
  [api |-> "client", method |-> "GET", auth |-> "AccessToken", error |-> "Error",
   path |-> <<"_matrix", "client", "r0", "thirdparty", "location">>,
   request |-> Arg("query", "required", {"alias"}),
   response |-> Arg("newtype_body", "required", {"locations"})]

get_protocol ==
  [api |-> "client", method |-> "GET", auth |-> "AccessToken", error |-> "Error",
   path |-> <<"_matrix", "client", "r0", "thirdparty", "protocol", ":protocol">>,
   request |-> Arg("path", "required", {":protocol"}),
   response |-> Arg("newtype_body", "required", {"protocol"})]

get_protocols ==
  [api |-> "client", method |-> "GET", auth |-> "AccessToken", error |-> "Error",
   path |-> <<"_matrix", "client", "r0", "thirdparty", "protocols">>,
   request |-> {},
   response |-> Arg("newtype_body", "required", {"protocols"})]

get_user_for_protocol ==
  [api |-> "client", method |-> "GET", auth |-> "AccessToken", error |-> "Error",
   path |-> <<"_matrix", "client", "r0", "thirdparty", "user", ":protocol">>,
   request |-> Arg("path", "required", {":protocol"}) \cup In("query_map", "required", {"fields"}),
   response |-> Arg("newtype_body", "required", {"users"})]

get_user_for_user_id ==
  [api |-> "client", method |-> "GET", auth |-> "AccessToken", error |-> "Error",
   path |-> <<"_matrix", "client", "r0", "thirdparty", "user">>,
   request |-> Arg("query", "required", {"userid"}),
   response |-> Arg("newtype_body", "required", {"users"})]

authorize_fallback ==
  [api |-> "client", method |-> "GET", auth |-> "None", error |-> "Error",
   path |-> <<"_matrix", "client", "r0", "auth", ":auth_type", "fallback", "web">>,
   request |-> Arg("path", "required", {":auth_type"}) \cup Arg("query", "required", {"session"}),
   response |-> Arg("raw_body", "required", {"body"}) \cup In("header", "optional", {"LOCATION"})]

search_users ==
  [api |-> "client", method |-> "POST", auth |-> "AccessToken", error |-> "Error",
   path |-> <<"_matrix", "client", "r0", "user_directory", "search">>,
   request |-> Arg("body", "required", {"search_term"}) \cup In("body", "defaulted", {"limit"})
              \cup In("header", "optional", {"ACCEPT_LANGUAGE"}),
   response |-> Arg("body", "required", {"results", "limited"})]

turn_server_info ==
  [api |-> "client", method |-> "GET", auth |-> "AccessToken", error |-> "Error",
   path |-> <<"_matrix", "client", "r0", "voip", "turnServer">>,
   request |-> {},
   response |-> Arg("body", "required", {"username", "password", "uris", "ttl"})]

discover_homeserver ==
  [api |-> "client", method |-> "GET", auth |-> "None", error |-> "Error",
   path |-> <<".well-known", "matrix", "client">>,
   request |-> {},
   response |-> Arg("body", "required", {"m.homeserver"})
               \cup In("body", "nullable", {"m.identity_server"})]

api_versions ==
  [api |-> "client", method |-> "GET", auth |-> "None", error |-> "Error",
   path |-> <<"_matrix", "client", "versions">>,
   request |-> {},
   response |-> Arg("body", "required", {"versions"})
               \cup In("body", "defaulted", {"unstable_features"})]

AccountEndpoints ==
  {add_3pid, bind_3pid, change_password, check_registration_token_validity, deactivate,
   delete_3pid, get_3pids, get_username_availability, register,
   request_3pid_management_token_via_email, request_3pid_management_token_via_msisdn,
   request_openid_token, request_password_change_token_via_email,
   request_password_change_token_via_msisdn, request_registration_token_via_email,
   request_registration_token_via_msisdn, unbind_3pid, whoami, get_capabilities,
   get_global_account_data, get_room_account_data, set_global_account_data, set_room_account_data,
   delete_device, delete_devices, get_device, get_devices, update_device, create_media_content,
   get_media_content, get_media_content_as_filename, get_content_thumbnail, get_media_config,
   get_media_preview, get_presence, set_presence, get_avatar_url, get_display_name, get_profile,
   set_avatar_url, set_display_name, delete_pushrule, get_notifications, get_pushers,
   get_pushrule, get_pushrule_actions, get_pushrule_enabled, get_pushrules_all,
   get_pushrules_global_scope, set_pusher, set_pushrule, set_pushrule_actions,
   set_pushrule_enabled, get_user_info, get_login_types, login, login_fallback, logout,
   logout_all, sso_login, sso_login_with_provider, get_location_for_protocol,
   get_location_for_room_alias, get_protocol, get_protocols, get_user_for_protocol,
   get_user_for_user_id, authorize_fallback, search_users, turn_server_info, discover_homeserver,
   api_versions}
=============================================================================
