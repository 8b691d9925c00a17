----------------------------- MODULE ApiObjects -----------------------------
(***************************************************************************)
(* The JSON objects that requests and responses are made of: the           *)
(* serializable structs of the API crates and of ruma-common. Each         *)
(* definition is one struct with its serde attributes and its constructor: *)
(* the names on the wire, how each is written and read (module Wire), and  *)
(* which ones the constructor asks for.  A tag is a field that carries its *)
(* own value.  The fields are those of a build with the feature            *)
(* unstable-pre-spec, without compat.                                      *)
(***************************************************************************)
EXTENDS Wire

ErrorBody == Takes("required", {"kind", "error"})

account_IdentityServerInfo == Takes("required", {"id_server", "id_access_token"})

RoomKeyBackup == Takes("required", {"sessions"})

KeyBackupData == Takes("required", {"first_message_index", "forwarded_count", "is_verified",
                       "session_data"})

SessionData == Takes("required", {"ephemeral", "ciphertext", "mac"})

Capabilities == Has("defaulted", {"m.change_password", "m.room_versions"})
                \cup Has("lenient", {"custom_capabilities"})

ChangePasswordCapability == Takes("required", {"enabled"})

RoomVersionsCapability == Takes("required", {"default", "available"})

device_Device == Takes("required", {"device_id"})
                 \cup Has("nullable", {"display_name", "last_seen_ip"})
                 \cup Has("optional", {"last_seen_ts"})

client_directory_PublicRoomsChunk ==
  Takes("required", {"room_id"}) \cup Has("defaulted", {"aliases"})
  \cup Has("optional", {"canonical_alias", "name", "topic", "avatar_url", "join_rule"})
  \cup Has("required", {"num_joined_members", "world_readable", "guest_can_join"})

RoomEventFilter == Takes("defaulted", {"not_types", "not_rooms", "not_senders"})
                   \cup Takes("optional", {"limit", "rooms", "senders", "types", "contains_url"})
                   \cup Takes("required", {"lazy_load_options"})

RoomFilter == Takes("defaulted", {"include_leave", "account_data", "timeline", "ephemeral",
                    "state", "not_rooms"}) \cup Takes("optional", {"rooms"})

filter_Filter == Takes("defaulted", {"not_types", "not_senders"})
                 \cup Takes("optional", {"limit", "senders", "types"})

FilterDefinition == Takes("optional", {"event_fields"})
                    \cup Takes("defaulted", {"event_format", "presence", "account_data", "room"})

ThirdPartySigned == Takes("required", {"sender", "mxid", "token", "signatures"})

Invite3pid == Takes("required", {"id_server", "id_access_token", "medium", "address"})

RoomMember == Has("optional", {"display_name", "avatar_url"})

PushRule == Takes("required", {"actions", "default", "enabled", "rule_id"})
            \cup Takes("optional", {"conditions", "pattern"})

get_notifications_Notification ==
  Takes("required", {"actions", "event", "read", "room_id", "ts"})
  \cup Has("optional", {"profile_tag"})

get_pushers_Pusher == Takes("required", {"pushkey", "kind", "app_id", "app_display_name",
                            "device_display_name", "lang", "data"})
                      \cup Takes("optional", {"profile_tag"})

set_pusher_Pusher == Takes("required", {"pushkey", "app_id", "app_display_name",
                           "device_display_name", "lang", "data"})
                     \cup Takes("nullable", {"kind"}) \cup Takes("optional", {"profile_tag"})

CreationContent == Has("defaulted", {"m.federate"}) \cup Has("optional", {"predecessor", "type"})

Categories == Has("optional", {"room_events"})

Criteria == Takes("required", {"search_term"})
            \cup Has("optional", {"keys", "filter", "order_by", "include_state"})
            \cup Has("defaulted", {"event_context", "groupings"})

EventContext == Has("defaulted", {"before_limit", "after_limit", "include_profile"})

EventContextResult == Has("optional", {"end", "start"})
                      \cup Has("defaulted", {"events_after", "events_before", "profile_info"})

Grouping == Has("nullable", {"key"})

Groupings == Has("defaulted", {"group_by"})

ResultCategories == Has("defaulted", {"room_events"})

ResultRoomEvents == Has("optional", {"count", "next_batch"})
                    \cup Has("defaulted", {"groups", "results", "state", "highlights"})

ResultGroup == Has("optional", {"next_batch", "order"}) \cup Has("defaulted", {"results"})

SearchResult == Has("fragile", {"context"}) \cup Has("optional", {"rank", "result"})

UserProfile == Has("optional", {"avatar_url", "displayname"})

DeviceInfo == Has("defaulted", {"sessions"})

SessionInfo == Has("defaulted", {"connections"})

ConnectionInfo == Has("nullable", {"ip", "last_seen", "user_agent"})

PasswordLoginType == Takes("lenient", {"type: m.login.password"})

TokenLoginType == Takes("lenient", {"type: m.login.token"})

SsoLoginType == Takes("lenient", {"type: m.login.sso"})
                \cup Has("defaulted", {"org.matrix.msc2858.identity_providers"})

IdentityProvider == Takes("required", {"id", "name"}) \cup Has("nullable", {"icon", "brand"})

CustomLoginType == Takes("required", {"override"}) \cup Takes("lenient", {"data"})

login_Password == Takes("lenient", {"type: m.login.password"})
                  \cup Takes("required", {"identifier", "password"})

login_Token == Takes("lenient", {"type: m.login.token"}) \cup Takes("required", {"token"})

DiscoveryInfo == Takes("required", {"m.homeserver"}) \cup Has("nullable", {"m.identity_server"})

login_HomeserverInfo == Takes("required", {"base_url"})

login_IdentityServerInfo == Takes("required", {"base_url"})

Rooms == Has("defaulted", {"leave", "join", "invite", "knock"})

LeftRoom == Has("defaulted", {"timeline", "state", "account_data"})

JoinedRoom == Has("defaulted", {"summary", "unread_notifications", "timeline", "state",
                    "account_data", "ephemeral"})

KnockedRoom == Takes("required", {"knock_state"})

KnockState == Takes("required", {"events"})

UnreadNotificationsCount == Has("optional", {"highlight_count", "notification_count"})

Timeline == Has("defaulted", {"limited", "events"}) \cup Has("optional", {"prev_batch"})

State == Has("defaulted", {"events"})

GlobalAccountData == Has("defaulted", {"events"})

RoomAccountData == Has("defaulted", {"events"})

Ephemeral == Has("defaulted", {"events"})

RoomSummary == Has("defaulted", {"m.heroes"})
               \cup Has("optional", {"m.joined_member_count", "m.invited_member_count"})

InvitedRoom == Has("defaulted", {"invite_state"})

InviteState == Has("defaulted", {"events"})

Presence == Has("defaulted", {"events"})

ToDevice == Has("defaulted", {"events"})

DeviceLists == Has("defaulted", {"changed", "left"})

TypingInner == Takes("required", {"typing"}) \cup Takes("optional", {"timeout"})

uiaa_Password == Takes("lenient", {"type: m.login.password"})
                 \cup Takes("required", {"identifier", "password"})
                 \cup Has("nullable", {"session"})

ReCaptcha == Takes("lenient", {"type: m.login.recaptcha"}) \cup Takes("required", {"response"})
             \cup Has("nullable", {"session"})

uiaa_Token == Takes("lenient", {"type: m.login.token"})
              \cup Takes("required", {"token", "txn_id"}) \cup Has("nullable", {"session"})

OAuth2 == Takes("lenient", {"type: m.login.oauth2"}) \cup Takes("required", {"uri"})
          \cup Has("nullable", {"session"})

EmailIdentity == Takes("lenient", {"type: m.login.email.identity"})
                 \cup Takes("required", {"threepidCreds"}) \cup Takes("nullable", {"session"})

Msisdn == Takes("lenient", {"type: m.login.msisdn"}) \cup Takes("required", {"threepidCreds"})
          \cup Takes("nullable", {"session"})

Dummy == Takes("lenient", {"type: m.login.dummy"}) \cup Has("nullable", {"session"})

RegistrationToken == Takes("lenient", {"type: org.matrix.msc3231.login.registration_token"})
                     \cup Takes("required", {"token"}) \cup Has("nullable", {"session"})

FallbackAcknowledgement == Takes("required", {"session"})

ThirdpartyIdCredentials == Takes("required", {"sid", "client_secret", "id_server",
                                 "id_access_token"})

UiaaInfo == Takes("required", {"flows", "params"}) \cup Has("defaulted", {"completed"})
            \cup Has("optional", {"session", "auth_error"})

AuthFlow == Takes("defaulted", {"stages"})

search_users_User == Takes("required", {"user_id"})
                     \cup Has("optional", {"display_name", "avatar_url"})

discover_homeserver_HomeserverInfo ==
  Takes("required", {"base_url"})

discover_homeserver_IdentityServerInfo ==
  Takes("required", {"base_url"})

UserDevice == Takes("required", {"device_id", "keys"})
              \cup Has("optional", {"device_display_name"})

VerifyKey == Takes("required", {"key"})

OldVerifyKey == Takes("required", {"expired_ts", "key"})

ServerSigningKeys == Takes("required", {"server_name", "valid_until_ts"})
                     \cup Has("required", {"verify_keys", "old_verify_keys", "signatures"})

QueryCriteria == Has("optional", {"minimum_valid_until_ts"})

Server == Has("optional", {"name", "version"})

KeyObject == Takes("required", {"key", "signatures"})

UnsignedEventContent == Has("fragile", {"invite_room_state"})

RoomState == Has("required", {"auth_chain", "state"})

Empty == {}

WrappedError == Takes("optional", {"error"})

bind_callback_ThirdPartyInvite ==
  Takes("required", {"address", "mxid", "room_id", "sender", "signed"})
  \cup Has("required", {"medium"})

PresenceContent == Takes("required", {"push"})

PresenceUpdate == Takes("required", {"user_id", "presence", "last_active_ago"})
                  \cup Has("optional", {"status_msg"}) \cup Has("lenient", {"currently_active"})

ReceiptContent == Takes("lenient", {"receipts"})

ReceiptMap == Takes("required", {"m.read"})

ReceiptData == Takes("required", {"data", "event_ids"})

TypingContent == Takes("required", {"room_id", "user_id", "typing"})

DeviceListUpdateContent == Takes("required", {"user_id", "device_id", "stream_id"})
                           \cup Has("optional", {"device_display_name", "deleted", "keys"})
                           \cup Has("defaulted", {"prev_id"})

DirectDeviceContent == Takes("required", {"sender", "type", "message_id"})
                       \cup Has("required", {"messages"})

ThirdPartyId == Takes("required", {"medium", "address"})

ThreePidOwnershipProof == Takes("required", {"sid", "client_secret"})

Policies == Takes("required", {"version"}) \cup Takes("lenient", {"localized"})

LocalizedPolicy == Takes("required", {"name", "url"})

Namespace == Has("required", {"exclusive", "regex"})

Namespaces == Has("defaulted", {"users", "aliases", "rooms"})

Registration == Takes("required", {"id", "url", "as_token", "hs_token", "sender_localpart",
                      "namespaces"}) \cup Takes("optional", {"rate_limited", "protocols"})

send_event_notification_Notification ==
  Has("optional", {"event_id", "room_id", "type", "sender", "sender_display_name", "room_name",
        "room_alias", "content"}) \cup Has("defaulted", {"user_is_target", "prio", "counts"})
  \cup Has("required", {"devices"})

NotificationCounts == Has("defaulted", {"unread", "missed_calls"})

send_event_notification_Device ==
  Has("required", {"app_id", "pushkey"}) \cup Has("optional", {"pushkey_ts"})
  \cup Has("defaulted", {"data"}) \cup Has("fragile", {"tweaks"})

common_directory_PublicRoomsChunk ==
  Takes("defaulted", {"aliases"})
  \cup Takes("optional", {"canonical_alias", "name", "topic", "avatar_url"})
  \cup Takes("required", {"num_joined_members", "room_id", "world_readable", "guest_can_join"})

directory_Filter == Has("optional", {"generic_search_term"})

DeviceKeys == Takes("required", {"user_id", "device_id", "algorithms", "keys", "signatures"})
              \cup Has("defaulted", {"unsigned"})

UnsignedDeviceInfo == Has("optional", {"device_display_name"})

SignedKey == Takes("required", {"key", "signatures"})

CrossSigningKey == Takes("required", {"user_id", "usage", "keys"})
                   \cup Takes("defaulted", {"signatures"})

NotificationPowerLevels == Has("lenient", {"room"})

Ruleset == Has("required", {"content", "override", "room", "sender", "underride"})

SimplePushRule == Takes("required", {"actions", "default", "enabled", "rule_id"})

ConditionalPushRule == Takes("required", {"actions", "default", "enabled", "rule_id",
                             "conditions"})

PatternedPushRule == Takes("required", {"actions", "default", "enabled", "rule_id", "pattern"})

PusherData == Has("optional", {"url", "format"}) \cup Has("nullable", {"default_payload"})

SoundTweak == Takes("lenient", {"set_tweak: sound"}) \cup Takes("required", {"value"})

HighlightTweak == Takes("lenient", {"set_tweak: highlight"}) \cup Takes("defaulted", {"value"})

Protocol == Takes("required", {"user_fields", "location_fields", "icon", "field_types",
                  "instances"})

ProtocolInstance == Takes("required", {"desc", "fields", "network_id", "instance_id"})
                    \cup Has("optional", {"icon"})

FieldType == Takes("required", {"regexp", "placeholder"})

Location == Takes("required", {"alias", "protocol", "fields"})

thirdparty_User == Takes("required", {"userid", "protocol", "fields"})

ThirdPartyIdentifier == Takes("required", {"address", "medium", "validated_at", "added_at"})

ApiObjectTypes ==
  {ErrorBody, account_IdentityServerInfo, RoomKeyBackup, KeyBackupData, SessionData, Capabilities,
   ChangePasswordCapability, RoomVersionsCapability, device_Device,
   client_directory_PublicRoomsChunk, RoomEventFilter, RoomFilter, filter_Filter,
   FilterDefinition, ThirdPartySigned, Invite3pid, RoomMember, PushRule,
   get_notifications_Notification, get_pushers_Pusher, set_pusher_Pusher, CreationContent,
   Categories, Criteria, EventContext, EventContextResult, Grouping, Groupings, ResultCategories,
   ResultRoomEvents, ResultGroup, SearchResult, UserProfile, DeviceInfo, SessionInfo,
   ConnectionInfo, PasswordLoginType, TokenLoginType, SsoLoginType, IdentityProvider,
   CustomLoginType, login_Password, login_Token, DiscoveryInfo, login_HomeserverInfo,
   login_IdentityServerInfo, Rooms, LeftRoom, JoinedRoom, KnockedRoom, KnockState,
   UnreadNotificationsCount, Timeline, State, GlobalAccountData, RoomAccountData, Ephemeral,
   RoomSummary, InvitedRoom, InviteState, Presence, ToDevice, DeviceLists, TypingInner,
   uiaa_Password, ReCaptcha, uiaa_Token, OAuth2, EmailIdentity, Msisdn, Dummy, RegistrationToken,
   FallbackAcknowledgement, ThirdpartyIdCredentials, UiaaInfo, AuthFlow, search_users_User,
   discover_homeserver_HomeserverInfo, discover_homeserver_IdentityServerInfo, UserDevice,
   VerifyKey, OldVerifyKey, ServerSigningKeys, QueryCriteria, Server, KeyObject,
   UnsignedEventContent, RoomState, Empty, WrappedError, bind_callback_ThirdPartyInvite,
   PresenceContent, PresenceUpdate, ReceiptContent, ReceiptMap, ReceiptData, TypingContent,
   DeviceListUpdateContent, DirectDeviceContent, ThirdPartyId, ThreePidOwnershipProof, Policies,
   LocalizedPolicy, Namespace, Namespaces, Registration, send_event_notification_Notification,
   NotificationCounts, send_event_notification_Device, common_directory_PublicRoomsChunk,
   directory_Filter, DeviceKeys, UnsignedDeviceInfo, SignedKey, CrossSigningKey,
   NotificationPowerLevels, Ruleset, SimplePushRule, ConditionalPushRule, PatternedPushRule,
   PusherData, SoundTweak, HighlightTweak, Protocol, ProtocolInstance, FieldType, Location,
   thirdparty_User, ThirdPartyIdentifier}
=============================================================================
