---------------------------- MODULE EventObjects ----------------------------
(***************************************************************************)
(* The JSON objects that events are made of: the serializable structs of   *)
(* ruma-events. Each definition is one struct with its serde attributes    *)
(* and its constructor: the names on the wire, how each is written and     *)
(* read (module Wire), and which ones the constructor asks for.  A tag is  *)
(* a field that carries its own value.  The fields are those of a build    *)
(* with the features unstable-pre-spec and unstable-pdu, without compat.   *)
(***************************************************************************)
EXTENDS Wire

SessionDescription == Takes("required", {"type", "sdp"})

CallAnswerEventContent == Takes("required", {"answer", "call_id", "version"})

CallCandidatesEventContent == Takes("required", {"call_id", "candidates", "version"})

Candidate == Takes("required", {"candidate", "sdpMid", "sdpMLineIndex"})

CallHangupEventContent == Takes("required", {"call_id", "version"})
                          \cup Has("optional", {"reason"})

CallInviteEventContent == Takes("required", {"call_id", "lifetime", "offer", "version"})

OlmV1Keys == Takes("required", {"ed25519"})

ToDeviceForwardedRoomKeyEventContent ==
  Takes("required", {"algorithm", "room_id", "sender_key", "session_id", "session_key",
        "sender_claimed_ed25519_key", "forwarding_curve25519_key_chain"})

FullyReadEventContent == Takes("required", {"event_id"})

IgnoredUserListEventContent == Takes("required", {"ignored_users"})

verification_Relation == Takes("lenient", {"rel_type: m.reference"})
                         \cup Takes("required", {"event_id"})

ToDeviceKeyVerificationAcceptEventContent ==
  Takes("required", {"transaction_id", "method"})

KeyVerificationAcceptEventContent ==
  Takes("required", {"method", "m.relates_to"})

accept_CustomContent == Takes("required", {"method"}) \cup Takes("lenient", {"data"})

accept_SasV1Content == Takes("lenient", {"method: m.sas.v1"})
                       \cup Takes("required", {"key_agreement_protocol", "hash",
                             "message_authentication_code", "short_authentication_string",
                             "commitment"})

ToDeviceKeyVerificationCancelEventContent ==
  Takes("required", {"transaction_id", "reason", "code"})

KeyVerificationCancelEventContent ==
  Takes("required", {"reason", "code", "m.relates_to"})

ToDeviceKeyVerificationDoneEventContent ==
  Takes("required", {"transaction_id"})

KeyVerificationDoneEventContent ==
  Takes("required", {"m.relates_to"})

ToDeviceKeyVerificationKeyEventContent ==
  Takes("required", {"transaction_id", "key"})

KeyVerificationKeyEventContent ==
  Takes("required", {"key", "m.relates_to"})

ToDeviceKeyVerificationMacEventContent ==
  Takes("required", {"transaction_id", "mac", "keys"})

KeyVerificationMacEventContent ==
  Takes("required", {"mac", "keys", "m.relates_to"})

ToDeviceKeyVerificationReadyEventContent ==
  Takes("required", {"from_device", "methods", "transaction_id"})

KeyVerificationReadyEventContent ==
  Takes("required", {"from_device", "methods", "m.relates_to"})

ToDeviceKeyVerificationRequestEventContent ==
  Takes("required", {"from_device", "transaction_id", "methods", "timestamp"})

ToDeviceKeyVerificationStartEventContent ==
  Takes("required", {"from_device", "transaction_id", "method"})

KeyVerificationStartEventContent ==
  Takes("required", {"from_device", "method", "m.relates_to"})

start_CustomContent == Takes("required", {"method"}) \cup Takes("lenient", {"data"})

ReciprocateV1Content == Takes("lenient", {"method: m.reciprocate.v1"})
                        \cup Takes("required", {"secret"})

start_SasV1Content == Takes("lenient", {"method: m.sas.v1"})
                      \cup Takes("required", {"key_agreement_protocols", "hashes",
                            "message_authentication_codes", "short_authentication_string"})

RoomV1Pdu == Takes("required", {"event_id", "room_id", "sender", "origin_server_ts",
                   "type", "content", "depth", "hashes", "signatures"})
             \cup Takes("optional", {"state_key", "redacts"})
             \cup Takes("fragile", {"prev_events", "auth_events"})
             \cup Takes("defaulted", {"unsigned"})

RoomV3Pdu == Takes("required", {"room_id", "sender", "origin_server_ts", "type",
                   "content", "prev_events", "depth", "auth_events", "hashes", "signatures"})
             \cup Takes("optional", {"state_key", "redacts"})
             \cup Takes("defaulted", {"unsigned"})

EventHash == Takes("required", {"sha256"})

PolicyRuleEventContent == Takes("required", {"entity", "recommendation", "reason"})

PresenceEventContent == Takes("required", {"presence"})
                        \cup Has("optional", {"avatar_url", "currently_active", "displayname",
                              "last_active_ago", "status_msg"})

PushRulesEventContent == Takes("required", {"global"})

ReactionEventContent == Takes("required", {"m.relates_to"})

reaction_Relation == Takes("lenient", {"rel_type: m.annotation"})
                     \cup Takes("required", {"event_id", "key"})

Receipt == Takes("optional", {"ts"})

BundledReaction == Takes("required", {"key", "count"})
                   \cup Takes("optional", {"origin_server_ts"})

AnnotationChunk == Takes("required", {"chunk"}) \cup Takes("optional", {"next_batch"})

Relations == Takes("nullable", {"m.annotation"})

room_ImageInfo == Has("optional", {"h", "w", "mimetype", "size", "thumbnail_info",
                        "thumbnail_url", "thumbnail_file", "xyz.amorgan.blurhash"})

ThumbnailInfo == Has("optional", {"h", "w", "mimetype", "size"})

EncryptedFile == Takes("required", {"url", "key", "iv", "hashes", "v"})

JsonWebKey == Takes("required", {"kty", "key_ops", "alg", "k", "ext"})

RoomAliasesEventContent == Takes("required", {"aliases"})

RedactedRoomAliasesEventContent ==
  Takes("nullable", {"aliases"})

RoomAvatarEventContent == Has("nullable", {"url"}) \cup Has("optional", {"info"})

avatar_ImageInfo == Has("optional", {"h", "w", "mimetype", "size", "thumbnail_info",
                          "thumbnail_url", "xyz.amorgan.blurhash"})

RoomCanonicalAliasEventContent ==
  Has("optional", {"alias"}) \cup Has("defaulted", {"alt_aliases"})

RoomCreateEventContent == Takes("required", {"creator"}) \cup Has("defaulted", {"m.federate"})
                          \cup Has("lenient", {"room_version"})
                          \cup Has("optional", {"predecessor", "type"})

PreviousRoom == Takes("required", {"room_id", "event_id"})

RoomEncryptedEventContent == Takes("required", {"scheme"}) \cup Takes("optional", {"relates_to"})

ToDeviceRoomEncryptedEventContent ==
  Takes("required", {"scheme"})

Replacement == Takes("required", {"event_id"})

Reference == Takes("required", {"event_id"})

Annotation == Takes("required", {"event_id", "key"})

OlmV1Curve25519AesSha2Content == Takes("required", {"ciphertext", "sender_key"})

CiphertextInfo == Takes("required", {"body", "type"})

MegolmV1AesSha2Content == Takes("required", {"ciphertext", "sender_key", "device_id",
                                "session_id"})

RoomEncryptionEventContent == Takes("required", {"algorithm"})
                              \cup Has("optional", {"rotation_period_ms", "rotation_period_msgs"})

RoomGuestAccessEventContent == Takes("required", {"guest_access"})

RoomHistoryVisibilityEventContent ==
  Takes("required", {"history_visibility"})

Restricted == Takes("required", {"allow"})

RoomMembership == Takes("required", {"room_id"})

CustomAllowRule == Takes("required", {"type"}) \cup Takes("lenient", {"extra"})

RoomMemberEventContent == Takes("required", {"membership"})
                          \cup Has("optional", {"avatar_url", "displayname", "is_direct",
                                "third_party_invite", "xyz.amorgan.blurhash", "reason",
                                "join_authorised_via_users_server"})

RedactedRoomMemberEventContent ==
  Takes("required", {"membership"}) \cup Has("nullable", {"join_authorised_via_users_server"})

member_ThirdPartyInvite == Takes("required", {"display_name", "signed"})

SignedContent == Takes("required", {"mxid", "signatures", "token"})

InReplyTo == Takes("required", {"event_id"})

AudioMessageEventContent == Takes("lenient", {"msgtype: m.audio"})
                            \cup Takes("required", {"body"})
                            \cup Takes("optional", {"url", "file", "info"})

AudioInfo == Has("optional", {"duration", "mimetype", "size"})

EmoteMessageEventContent == Takes("lenient", {"msgtype: m.emote"})
                            \cup Takes("required", {"body"}) \cup Takes("optional", {"formatted"})

FileMessageEventContent == Takes("lenient", {"msgtype: m.file"}) \cup Takes("required", {"body"})
                           \cup Takes("optional", {"filename", "url", "file", "info"})

FileInfo == Has("optional", {"mimetype", "size", "thumbnail_info", "thumbnail_url",
                  "thumbnail_file"})

ImageMessageEventContent == Takes("lenient", {"msgtype: m.image"})
                            \cup Takes("required", {"body"})
                            \cup Takes("optional", {"url", "file", "info"})

LocationMessageEventContent == Takes("lenient", {"msgtype: m.location"})
                               \cup Takes("required", {"body", "geo_uri"})
                               \cup Has("optional", {"info"})

LocationInfo == Has("optional", {"thumbnail_url", "thumbnail_file", "thumbnail_info"})

NoticeMessageEventContent == Takes("lenient", {"msgtype: m.notice"})
                             \cup Takes("required", {"body"})
                             \cup Takes("optional", {"formatted"})

ServerNoticeMessageEventContent ==
  Takes("lenient", {"msgtype: m.server_notice"})
  \cup Takes("required", {"body", "server_notice_type"})
  \cup Has("optional", {"admin_contact", "limit_type"})

FormattedBody == Takes("required", {"format", "formatted_body"})

TextMessageEventContent == Takes("lenient", {"msgtype: m.text"}) \cup Takes("required", {"body"})
                           \cup Takes("optional", {"formatted"})

VideoMessageEventContent == Takes("lenient", {"msgtype: m.video"})
                            \cup Takes("required", {"body"})
                            \cup Takes("optional", {"url", "file", "info"})

VideoInfo == Has("optional", {"duration", "h", "w", "mimetype", "size", "thumbnail_info",
                   "thumbnail_url", "thumbnail_file", "xyz.amorgan.blurhash"})

KeyVerificationRequestEventContent ==
  Takes("lenient", {"msgtype: m.key.verification.request"})
  \cup Takes("required", {"body", "methods", "from_device", "to"})

CustomEventContent == Takes("required", {"msgtype", "body"}) \cup Takes("lenient", {"data"})

RoomMessageFeedbackEventContent ==
  Takes("required", {"target_event_id", "type"})

ReplacementJsonRepr == Takes("required", {"event_id"})

RoomNameEventContent == Takes("nullable", {"name"})

RoomPinnedEventsEventContent == Takes("required", {"pinned"})

RoomPowerLevelsEventContent == Has("defaulted", {"ban", "events", "events_default", "invite",
                                     "kick", "redact", "state_default", "users",
                                     "users_default", "notifications"})

RoomRedactionEventContent == Has("optional", {"reason"})

RoomServerAclEventContent == Takes("defaulted", {"allow_ip_literals", "allow", "deny"})

RoomThirdPartyInviteEventContent ==
  Takes("required", {"display_name", "key_validity_url", "public_key"})
  \cup Has("optional", {"public_keys"})

PublicKey == Takes("required", {"public_key"}) \cup Has("optional", {"key_validity_url"})

RoomTombstoneEventContent == Takes("required", {"body", "replacement_room"})

RoomTopicEventContent == Takes("required", {"topic"})

ToDeviceRoomKeyEventContent == Takes("required", {"algorithm", "room_id", "session_id",
                                     "session_key"})

ToDeviceRoomKeyRequestEventContent ==
  Takes("required", {"action", "requesting_device_id", "request_id"})
  \cup Takes("nullable", {"body"})

RequestedKeyInfo == Takes("required", {"algorithm", "room_id", "sender_key", "session_id"})

ToDeviceSecretRequestEventContent ==
  Takes("required", {"action", "requesting_device_id", "request_id"})

ToDeviceSecretSendEventContent ==
  Takes("required", {"request_id", "secret"})

SpaceChildEventContent == Has("optional", {"via", "order", "suggested"})

SpaceParentEventContent == Takes("required", {"canonical"}) \cup Has("optional", {"via"})

StickerEventContent == Takes("required", {"body", "info", "url"})

TagEventContent == Takes("required", {"tags"})

TagInfo == Has("optional", {"order"})

TypingEventContent == Takes("required", {"user_ids"})

Unsigned == Has("optional", {"age", "transaction_id", "m.relations"})

RedactedUnsigned == Takes("optional", {"redacted_because"})

EventObjectTypes ==
  {SessionDescription, CallAnswerEventContent, CallCandidatesEventContent, Candidate,
   CallHangupEventContent, CallInviteEventContent, OlmV1Keys,
   ToDeviceForwardedRoomKeyEventContent, FullyReadEventContent, IgnoredUserListEventContent,
   verification_Relation, ToDeviceKeyVerificationAcceptEventContent,
   KeyVerificationAcceptEventContent, accept_CustomContent, accept_SasV1Content,
   ToDeviceKeyVerificationCancelEventContent, KeyVerificationCancelEventContent,
   ToDeviceKeyVerificationDoneEventContent, KeyVerificationDoneEventContent,
   ToDeviceKeyVerificationKeyEventContent, KeyVerificationKeyEventContent,
   ToDeviceKeyVerificationMacEventContent, KeyVerificationMacEventContent,
   ToDeviceKeyVerificationReadyEventContent, KeyVerificationReadyEventContent,
   ToDeviceKeyVerificationRequestEventContent, ToDeviceKeyVerificationStartEventContent,
   KeyVerificationStartEventContent, start_CustomContent, ReciprocateV1Content,
   start_SasV1Content, RoomV1Pdu, RoomV3Pdu, EventHash, PolicyRuleEventContent,
   PresenceEventContent, PushRulesEventContent, ReactionEventContent, reaction_Relation, Receipt,
   BundledReaction, AnnotationChunk, Relations, room_ImageInfo, ThumbnailInfo, EncryptedFile,
   JsonWebKey, RoomAliasesEventContent, RedactedRoomAliasesEventContent, RoomAvatarEventContent,
   avatar_ImageInfo, RoomCanonicalAliasEventContent, RoomCreateEventContent, PreviousRoom,
   RoomEncryptedEventContent, ToDeviceRoomEncryptedEventContent, Replacement, Reference,
   Annotation, OlmV1Curve25519AesSha2Content, CiphertextInfo, MegolmV1AesSha2Content,
   RoomEncryptionEventContent, RoomGuestAccessEventContent, RoomHistoryVisibilityEventContent,
   Restricted, RoomMembership, CustomAllowRule, RoomMemberEventContent,
   RedactedRoomMemberEventContent, member_ThirdPartyInvite, SignedContent, InReplyTo,
   AudioMessageEventContent, AudioInfo, EmoteMessageEventContent, FileMessageEventContent,
   FileInfo, ImageMessageEventContent, LocationMessageEventContent, LocationInfo,
   NoticeMessageEventContent, ServerNoticeMessageEventContent, FormattedBody,
   TextMessageEventContent, VideoMessageEventContent, VideoInfo,
   KeyVerificationRequestEventContent, CustomEventContent, RoomMessageFeedbackEventContent,
   ReplacementJsonRepr, RoomNameEventContent, RoomPinnedEventsEventContent,
   RoomPowerLevelsEventContent, RoomRedactionEventContent, RoomServerAclEventContent,
   RoomThirdPartyInviteEventContent, PublicKey, RoomTombstoneEventContent, RoomTopicEventContent,
   ToDeviceRoomKeyEventContent, ToDeviceRoomKeyRequestEventContent, RequestedKeyInfo,
   ToDeviceSecretRequestEventContent, ToDeviceSecretSendEventContent, SpaceChildEventContent,
   SpaceParentEventContent, StickerEventContent, TagEventContent, TagInfo, TypingEventContent,
   Unsigned, RedactedUnsigned}
=============================================================================
