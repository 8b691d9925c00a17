---------------------------- MODULE ServiceApis -----------------------------
(***************************************************************************)
(* The endpoints of the identity service, application service and push     *)
(* gateway APIs. Each definition is one ruma_api! block with the           *)
(* constructors of its Request and Response: the path, where each field    *)
(* goes, how it is written and read (module Wire), and which fields the    *)
(* constructor asks for.                                                   *)
(***************************************************************************)
EXTENDS Wire

identity_bind_3pid ==
  [api |-> "identity", method |-> "POST", auth |-> "AccessToken", error |-> "MatrixError",
   path |-> <<"_matrix", "identity", "v2", "3pid", "bind">>,
   request |-> Arg("body", "required", {"sid", "client_secret", "mxid"}),
   response |-> Arg("body", "required", {"address", "medium", "mxid", "not_before", "not_after",
                     "ts", "signatures"})]

check_3pid_validity ==
  [api |-> "identity", method |-> "GET", auth |-> "AccessToken", error |-> "MatrixError",
   path |-> <<"_matrix", "identity", "v2", "3pid", "getValidated3pid", "">>,
   request |-> Arg("query", "required", {"sid", "client_secret"}),
   response |-> Arg("body", "required", {"medium", "address", "validated_at"})]

create_email_validation_session ==
  [api |-> "identity", method |-> "POST", auth |-> "AccessToken", error |-> "MatrixError",
   path |-> <<"_matrix", "identity", "v2", "validate", "email", "requestToken">>,
   request |-> Arg("body", "required", {"client_secret", "email", "send_attempt"})
              \cup Arg("body", "optional", {"next_link"}),
   response |-> Arg("body", "required", {"sid"})]

validate_email ==
  [api |-> "identity", method |-> "POST", auth |-> "AccessToken", error |-> "MatrixError",
   path |-> <<"_matrix", "identity", "v2", "validate", "email", "submitToken">>,
   request |-> Arg("body", "required", {"sid", "client_secret", "token"}),
   response |-> Arg("body", "required", {"success"})]

identity_validate_email_by_end_user_v2 ==
  [api |-> "identity", method |-> "GET", auth |-> "AccessToken", error |-> "MatrixError",
   path |-> <<"_matrix", "identity", "v2", "validate", "email", "submitToken">>,
   request |-> Arg("query", "required", {"sid", "client_secret", "token"}),
   response |-> {}]

create_msisdn_validation_session ==
  [api |-> "identity", method |-> "POST", auth |-> "AccessToken", error |-> "MatrixError",
   path |-> <<"_matrix", "identity", "v2", "validate", "msisdn", "requestToken">>,
   request |-> Arg("body", "required", {"client_secret", "country", "phone_number",
                    "send_attempt"}) \cup Arg("body", "optional", {"next_link"}),
   response |-> Arg("body", "required", {"sid"})]

validate_msisdn ==
  [api |-> "identity", method |-> "POST", auth |-> "AccessToken", error |-> "MatrixError",
   path |-> <<"_matrix", "identity", "v2", "validate", "msisdn", "submitToken">>,
   request |-> Arg("body", "required", {"sid", "client_secret", "token"}),
   response |-> Arg("body", "required", {"success"})]

identity_validate_msisdn_by_phone_number ==
  [api |-> "identity", method |-> "GET", auth |-> "AccessToken", error |-> "MatrixError",
   path |-> <<"_matrix", "identity", "v2", "validate", "msisdn", "submitToken">>,
   request |-> Arg("query", "required", {"sid", "client_secret", "token"}),
   response |-> {}]

identity_unbind_3pid ==
  [api |-> "identity", method |-> "POST", auth |-> "AccessToken", error |-> "MatrixError",
   path |-> <<"_matrix", "identity", "v2", "3pid", "unbind">>,
   request |-> Arg("body", "optional", {"threepid_ownership_proof"})
              \cup Arg("body", "required", {"mxid", "threepid"}),
   response |-> {}]

get_account_information ==
  [api |-> "identity", method |-> "POST", auth |-> "AccessToken", error |-> "MatrixError",
   path |-> <<"_matrix", "identity", "v2", "account">>,
   request |-> {},
   response |-> Arg("body", "required", {"user_id"})]

identity_logout ==
  [api |-> "identity", method |-> "POST", auth |-> "AccessToken", error |-> "MatrixError",
   path |-> <<"_matrix", "identity", "v2", "account", "logout">>,
   request |-> {},
   response |-> {}]

register_account ==
  [api |-> "identity", method |-> "POST", auth |-> "None", error |-> "MatrixError",
   path |-> <<"_matrix", "identity", "v2", "account", "register">>,
   request |-> Arg("body", "required", {"access_token", "token_type", "matrix_server_name",
                    "expires_in"}),
   response |-> Arg("body", "required", {"token"})]

sign_invitation_ed25519 ==
  [api |-> "identity", method |-> "POST", auth |-> "AccessToken", error |-> "MatrixError",
   path |-> <<"_matrix", "identity", "v2", "sign-ed25519">>,
   request |-> Arg("body", "required", {"mxid", "token", "private_key"}),
   response |-> Arg("body", "required", {"mxid", "sender", "signatures", "token"})]

store_invitation ==
  [api |-> "identity", method |-> "POST", auth |-> "AccessToken", error |-> "MatrixError",
   path |-> <<"_matrix", "identity", "v2", "store-invite">>,
   request |-> Arg("body", "required", {"medium", "address", "room_id", "sender"})
              \cup In("body", "optional", {"room_alias", "room_avatar_url", "room_join_rules",
                    "room_name", "sender_display_name", "sender_avatar_url"}),
   response |-> Arg("body", "required", {"token", "public_keys", "display_name"})]

check_public_key_validity ==
  [api |-> "identity", method |-> "GET", auth |-> "None", error |-> "MatrixError",
   path |-> <<"_matrix", "identity", "v2", "pubkey", "isvalid">>,
   request |-> Arg("query", "required", {"public_key"}),
   response |-> Arg("body", "required", {"valid"})]

get_public_key ==
  [api |-> "identity", method |-> "GET", auth |-> "None", error |-> "MatrixError",
   path |-> <<"_matrix", "identity", "v2", "pubkey", ":key_id">>,
   request |-> Arg("path", "required", {":key_id"}),
   response |-> Arg("body", "required", {"public_key"})]

validate_ephemeral_key ==
  [api |-> "identity", method |-> "GET", auth |-> "None", error |-> "MatrixError",
   path |-> <<"_matrix", "identity", "v2", "pubkey", "ephemeral", "isvalid">>,
   request |-> Arg("query", "required", {"public_key"}),
   response |-> Arg("body", "required", {"valid"})]

get_hash_parameters ==
  [api |-> "identity", method |-> "GET", auth |-> "AccessToken", error |-> "MatrixError",
   path |-> <<"_matrix", "identity", "v2", "hash_details">>,
   request |-> {},
   response |-> Arg("body", "required", {"lookup_pepper", "algorithms"})]

lookup_3pid ==
  [api |-> "identity", method |-> "POST", auth |-> "AccessToken", error |-> "MatrixError",
   path |-> <<"_matrix", "identity", "v2", "lookup">>,
   request |-> Arg("body", "required", {"algorithm", "pepper", "addresses"}),
   response |-> Arg("body", "required", {"mappings"})]

status ==
  [api |-> "identity", method |-> "GET", auth |-> "None", error |-> "MatrixError",
   path |-> <<"_matrix", "identity", "v2">>,
   request |-> {},
   response |-> {}]

accept_terms_of_service ==
  [api |-> "identity", method |-> "POST", auth |-> "AccessToken", error |-> "MatrixError",
   path |-> <<"_matrix", "identity", "v2", "terms">>,
   request |-> Arg("body", "required", {"user_accepts"}),
   response |-> {}]

get_terms_of_service ==
  [api |-> "identity", method |-> "GET", auth |-> "None", error |-> "MatrixError",
   path |-> <<"_matrix", "identity", "v2", "terms">>,
   request |-> {},
   response |-> Arg("body", "required", {"policies"})]

appservice_set_room_visibility ==
  [api |-> "appservice", method |-> "PUT", auth |-> "QueryOnlyAccessToken", error |-> "MatrixError",
   path |-> <<"_matrix", "client", "r0", "directory", "list", "appservice", ":network_id", ":room_id">>,
   request |-> Arg("path", "required", {":network_id", ":room_id"})
              \cup Arg("body", "required", {"visibility"}),
   response |-> {}]

push_events ==
  [api |-> "appservice", method |-> "PUT", auth |-> "QueryOnlyAccessToken", error |-> "MatrixError",
   path |-> <<"_matrix", "app", "v1", "transactions", ":txn_id">>,
   request |-> Arg("path", "required", {":txn_id"}) \cup Arg("body", "required", {"events"}),
   response |-> {}]

query_room_alias ==
  [api |-> "appservice", method |-> "GET", auth |-> "QueryOnlyAccessToken", error |-> "MatrixError",
   path |-> <<"_matrix", "app", "v1", "rooms", ":room_alias">>,
   request |-> Arg("path", "required", {":room_alias"}),
   response |-> {}]

query_user_id ==
  [api |-> "appservice", method |-> "GET", auth |-> "QueryOnlyAccessToken", error |-> "MatrixError",
   path |-> <<"_matrix", "app", "v1", "users", ":user_id">>,
   request |-> Arg("path", "required", {":user_id"}),
   response |-> {}]

appservice_get_location_for_protocol ==
  [api |-> "appservice", method |-> "GET", auth |-> "QueryOnlyAccessToken", error |-> "MatrixError",
   path |-> <<"_matrix", "app", "v1", "thirdparty", "location", ":protocol">>,
   request |-> Arg("path", "required", {":protocol"}) \cup In("query_map", "required", {"fields"}),
   response |-> Arg("newtype_body", "required", {"locations"})]

appservice_get_location_for_room_alias ==
  [api |-> "appservice", method |-> "GET", auth |-> "QueryOnlyAccessToken", error |-> "MatrixError",
   path |-> <<"_matrix", "app", "v1", "thirdparty", "location">>,
   request |-> Arg("query", "required", {"alias"}),
   response |-> Arg("newtype_body", "required", {"locations"})]

appservice_get_protocol ==
  [api |-> "appservice", method |-> "GET", auth |-> "QueryOnlyAccessToken", error |-> "MatrixError",
   path |-> <<"_matrix", "app", "v1", "thirdparty", "protocol", ":protocol">>,
   request |-> Arg("path", "required", {":protocol"}),
   response |-> Arg("newtype_body", "required", {"protocol"})]

appservice_get_user_for_protocol ==
  [api |-> "appservice", method |-> "GET", auth |-> "QueryOnlyAccessToken", error |-> "MatrixError",
   path |-> <<"_matrix", "app", "v1", "thirdparty", "user", ":protocol">>,
   request |-> Arg("path", "required", {":protocol"}) \cup In("query_map", "required", {"fields"}),
   response |-> Arg("newtype_body", "required", {"users"})]

appservice_get_user_for_user_id ==
  [api |-> "appservice", method |-> "GET", auth |-> "QueryOnlyAccessToken", error |-> "MatrixError",
   path |-> <<"_matrix", "app", "v1", "thirdparty", "user">>,
   request |-> Arg("query", "required", {"userid"}),
   response |-> Arg("newtype_body", "required", {"users"})]

send_event_notification ==
  [api |-> "push_gateway", method |-> "POST", auth |-> "None", error |-> "MatrixError",
   path |-> <<"_matrix", "push", "v1", "notify">>,
   request |-> Arg("body", "required", {"notification"}),
   response |-> Arg("body", "required", {"rejected"})]

ServiceEndpoints ==
  {identity_bind_3pid, check_3pid_validity, create_email_validation_session, validate_email,
   identity_validate_email_by_end_user_v2, create_msisdn_validation_session, validate_msisdn,
   identity_validate_msisdn_by_phone_number, identity_unbind_3pid, get_account_information,
   identity_logout, register_account, sign_invitation_ed25519, store_invitation,
   check_public_key_validity, get_public_key, validate_ephemeral_key, get_hash_parameters,
   lookup_3pid, status, accept_terms_of_service, get_terms_of_service,
   appservice_set_room_visibility, push_events, query_room_alias, query_user_id,
   appservice_get_location_for_protocol, appservice_get_location_for_room_alias,
   appservice_get_protocol, appservice_get_user_for_protocol, appservice_get_user_for_user_id,
   send_event_notification}
=============================================================================
