----------------------------- MODULE WireNames ------------------------------
(***************************************************************************)
(* The names that values of an enum have on the wire: the string enums     *)
(* (ruma-serde-macros) with their rename rules applied, and the enums      *)
(* whose serde tag or variant name is written.  Each definition maps a     *)
(* variant to its name; the variant for any other string, where there is   *)
(* one, is _Custom.  The variants are those of a build with the feature    *)
(* unstable-pre-spec.                                                      *)
(***************************************************************************)
EXTENDS Naturals

ErrCode == [Forbidden |-> "M_FORBIDDEN", UnknownToken |-> "M_UNKNOWN_TOKEN",
            MissingToken |-> "M_MISSING_TOKEN", BadJson |-> "M_BAD_JSON",
            NotJson |-> "M_NOT_JSON", NotFound |-> "M_NOT_FOUND",
            LimitExceeded |-> "M_LIMIT_EXCEEDED", Unknown |-> "M_UNKNOWN",
            Unrecognized |-> "M_UNRECOGNIZED", Unauthorized |-> "M_UNAUTHORIZED",
            UserDeactivated |-> "M_USER_DEACTIVATED", UserInUse |-> "M_USER_IN_USE",
            InvalidUsername |-> "M_INVALID_USERNAME", RoomInUse |-> "M_ROOM_IN_USE",
            InvalidRoomState |-> "M_INVALID_ROOM_STATE", ThreepidInUse |-> "M_THREEPID_IN_USE",
            ThreepidNotFound |-> "M_THREEPID_NOT_FOUND",
            ThreepidAuthFailed |-> "M_THREEPID_AUTH_FAILED",
            ThreepidDenied |-> "M_THREEPID_DENIED", ServerNotTrusted |-> "M_SERVER_NOT_TRUSTED",
            UnsupportedRoomVersion |-> "M_UNSUPPORTED_ROOM_VERSION",
            IncompatibleRoomVersion |-> "M_INCOMPATIBLE_ROOM_VERSION", BadState |-> "M_BAD_STATE",
            GuestAccessForbidden |-> "M_GUEST_ACCESS_FORBIDDEN",
            CaptchaNeeded |-> "M_CAPTCHA_NEEDED", CaptchaInvalid |-> "M_CAPTCHA_INVALID",
            MissingParam |-> "M_MISSING_PARAM", InvalidParam |-> "M_INVALID_PARAM",
            TooLarge |-> "M_TOO_LARGE", Exclusive |-> "M_EXCLUSIVE",
            ResourceLimitExceeded |-> "M_RESOURCE_LIMIT_EXCEEDED",
            CannotLeaveServerNoticeRoom |-> "M_CANNOT_LEAVE_SERVER_NOTICE_ROOM", _Custom |-> ""]

ThirdPartyIdRemovalStatus == [NoSupport |-> "no-support", Success |-> "success", _Custom |-> ""]

RegistrationKind == [Guest |-> "guest", User |-> "user"]

register_LoginType == [ApplicationService |-> "m.login.application_service"]

BackupAlgorithm == [MegolmBackupV1Curve25519AesSha2 |-> "m.megolm_backup.v1.curve25519-aes-sha2"]

RoomVersionStability == [Stable |-> "stable", Unstable |-> "unstable", _Custom |-> ""]

EventFormat == [Client |-> "client", Federation |-> "federation", _Custom |-> ""]

Method == [Crop |-> "crop", Scale |-> "scale", _Custom |-> ""]

MembershipEventFilter == [Join |-> "join", Invite |-> "invite", Leave |-> "leave", Ban |-> "ban",
                          _Custom |-> ""]

Direction == [Backward |-> "b", Forward |-> "f"]

RuleKind == [Override |-> "override", Underride |-> "underride", Sender |-> "sender",
             Room |-> "room", Content |-> "content", _Custom |-> ""]

PusherKind == [Http |-> "http", Email |-> "email", _Custom |-> ""]

Visibility == [Public |-> "public", Private |-> "private", _Custom |-> ""]

RoomPreset == [PrivateChat |-> "private_chat", PublicChat |-> "public_chat",
               TrustedPrivateChat |-> "trusted_private_chat", _Custom |-> ""]

GroupingKey == [RoomId |-> "room_id", Sender |-> "sender", _Custom |-> ""]

SearchKeys == [ContentBody |-> "content.body", ContentName |-> "content.name",
               ContentTopic |-> "content.topic", _Custom |-> ""]

OrderBy == [Recent |-> "recent", Rank |-> "rank", _Custom |-> ""]

IdentityProviderBrand == [Apple |-> "org.matrix.apple", Facebook |-> "org.matrix.facebook",
                          GitHub |-> "org.matrix.github", GitLab |-> "org.matrix.gitlab",
                          Google |-> "org.matrix.google", Twitter |-> "org.matrix.twitter",
                          _Custom |-> ""]

AuthType == [Password |-> "m.login.password", ReCaptcha |-> "m.login.recaptcha",
             Token |-> "m.login.token", OAuth2 |-> "m.login.oauth2",
             EmailIdentity |-> "m.login.email.identity", Msisdn |-> "m.login.msisdn",
             Sso |-> "m.login.sso", Dummy |-> "m.login.dummy",
             RegistrationToken |-> "org.matrix.msc3231.login.registration_token", _Custom |-> ""]

UserIdentifier == [MatrixId |-> "m.id.user", ThirdPartyId |-> "m.id.thirdparty",
                   PhoneNumber |-> "m.id.phone"]

ProfileField == [DisplayName |-> "displayname", AvatarUrl |-> "avatar_url", _Custom |-> ""]

IdentifierHashingAlgorithm == [Sha256 |-> "sha256", None |-> "none", _Custom |-> ""]

NotificationPriority == [High |-> "high", Low |-> "low", _Custom |-> ""]

TokenType == [Bearer |-> "Bearer", _Custom |-> ""]

KeyUsage == [Master |-> "master", SelfSigning |-> "self_signing", UserSigning |-> "user_signing"]

PresenceState == [Offline |-> "offline", Online |-> "online", Unavailable |-> "unavailable",
                  _Custom |-> ""]

PushFormat == [EventIdOnly |-> "event_id_only", _Custom |-> ""]

PushCondition == [EventMatch |-> "event_match", ContainsDisplayName |-> "contains_display_name",
                  RoomMemberCount |-> "room_member_count",
                  SenderNotificationPermission |-> "sender_notification_permission"]

ReceiptType == [Read |-> "m.read", _Custom |-> ""]

Medium == [Email |-> "email", Msisdn |-> "msisdn", _Custom |-> ""]

SessionDescriptionType == [Answer |-> "answer", Offer |-> "offer", _Custom |-> ""]

Reason == [IceFailed |-> "ice_failed", InviteTimeout |-> "invite_timeout", _Custom |-> ""]

HashAlgorithm == [Sha256 |-> "sha256", _Custom |-> ""]

KeyAgreementProtocol == [Curve25519 |-> "curve25519",
                         Curve25519HkdfSha256 |-> "curve25519-hkdf-sha256", _Custom |-> ""]

MessageAuthenticationCode == [HkdfHmacSha256 |-> "hkdf-hmac-sha256", HmacSha256 |-> "hmac-sha256",
                              _Custom |-> ""]

ShortAuthenticationString == [Decimal |-> "decimal", Emoji |-> "emoji", _Custom |-> ""]

VerificationMethod == [SasV1 |-> "m.sas.v1", QrCodeScanV1 |-> "m.qr_code.scan.v1",
                       QrCodeShowV1 |-> "m.qr_code.show.v1", ReciprocateV1 |-> "m.reciprocate.v1",
                       _Custom |-> ""]

CancelCode == [User |-> "m.user", Timeout |-> "m.timeout",
               UnknownTransaction |-> "m.unknown_transaction",
               UnknownMethod |-> "m.unknown_method", UnexpectedMessage |-> "m.unexpected_message",
               KeyMismatch |-> "m.key_mismatch", UserMismatch |-> "m.user_mismatch",
               InvalidMessage |-> "m.invalid_message", Accepted |-> "m.accepted", _Custom |-> ""]

Recommendation == [Ban |-> "m.ban", _Custom |-> ""]

BundledAnnotation == [Reaction |-> "m.reaction"]

RoomType == [Space |-> "m.space", _Custom |-> ""]

EncryptedEventScheme == [OlmV1Curve25519AesSha2 |-> "m.olm.v1.curve25519-aes-sha2",
                         MegolmV1AesSha2 |-> "m.megolm.v1.aes-sha2"]

GuestAccess == [CanJoin |-> "can_join", Forbidden |-> "forbidden", _Custom |-> ""]

HistoryVisibility == [Invited |-> "invited", Joined |-> "joined", Shared |-> "shared",
                      WorldReadable |-> "world_readable", _Custom |-> ""]

MembershipState == [Ban |-> "ban", Invite |-> "invite", Join |-> "join", Knock |-> "knock",
                    Leave |-> "leave", _Custom |-> ""]

ServerNoticeType == [UsageLimitReached |-> "m.server_notice.usage_limit_reached", _Custom |-> ""]

LimitType == [MonthlyActiveUser |-> "monthly_active_user", _Custom |-> ""]

MessageFormat == [Html |-> "org.matrix.custom.html", _Custom |-> ""]

FeedbackType == [Delivered |-> "delivered", Read |-> "read", _Custom |-> ""]

Action == [Request |-> "request", CancelRequest |-> "request_cancellation", _Custom |-> ""]

SecretName == [CrossSigningMasterKey |-> "m.cross_signing.master",
               CrossSigningUserSigningKey |-> "m.cross_signing.user_signing",
               CrossSigningSelfSigningKey |-> "m.cross_signing.self_signing",
               RecoveryKey |-> "m.megolm_backup.v1", _Custom |-> ""]

DeviceKeyAlgorithm == [Ed25519 |-> "ed25519", Curve25519 |-> "curve25519",
                       SignedCurve25519 |-> "signed_curve25519", _Custom |-> ""]

SigningKeyAlgorithm == [Ed25519 |-> "ed25519", _Custom |-> ""]

EventEncryptionAlgorithm == [OlmV1Curve25519AesSha2 |-> "m.olm.v1.curve25519-aes-sha2",
                             MegolmV1AesSha2 |-> "m.megolm.v1.aes-sha2", _Custom |-> ""]

\* AsRef<str> for ErrorKind, what is written as errcode
ErrorKindCode == [Forbidden |-> "M_FORBIDDEN", UnknownToken |-> "M_UNKNOWN_TOKEN",
                  MissingToken |-> "M_MISSING_TOKEN", BadJson |-> "M_BAD_JSON",
                  NotJson |-> "M_NOT_JSON", NotFound |-> "M_NOT_FOUND",
                  LimitExceeded |-> "M_LIMIT_EXCEEDED", Unknown |-> "M_UNKNOWN",
                  Unrecognized |-> "M_UNRECOGNIZED", Unauthorized |-> "M_UNAUTHORIZED",
                  UserDeactivated |-> "M_USER_DEACTIVATED", UserInUse |-> "M_USER_IN_USE",
                  InvalidUsername |-> "M_INVALID_USERNAME", RoomInUse |-> "M_ROOM_IN_USE",
                  InvalidRoomState |-> "M_INVALID_ROOM_STATE",
                  ThreepidInUse |-> "M_THREEPID_IN_USE",
                  ThreepidNotFound |-> "M_THREEPID_NOT_FOUND",
                  ThreepidAuthFailed |-> "M_THREEPID_AUTH_FAILED",
                  ThreepidDenied |-> "M_THREEPID_DENIED",
                  ServerNotTrusted |-> "M_SERVER_NOT_TRUSTED",
                  UnsupportedRoomVersion |-> "M_UNSUPPORTED_ROOM_VERSION",
                  IncompatibleRoomVersion |-> "M_INCOMPATIBLE_ROOM_VERSION",
                  BadState |-> "M_BAD_STATE", GuestAccessForbidden |-> "M_GUEST_ACCESS_FORBIDDEN",
                  CaptchaNeeded |-> "M_CAPTCHA_NEEDED", CaptchaInvalid |-> "M_CAPTCHA_INVALID",
                  MissingParam |-> "M_MISSING_PARAM", InvalidParam |-> "M_INVALID_PARAM",
                  TooLarge |-> "M_TOO_LARGE", Exclusive |-> "M_EXCLUSIVE",
                  ResourceLimitExceeded |-> "M_RESOURCE_LIMIT_EXCEEDED",
                  CannotLeaveServerNoticeRoom |-> "M_CANNOT_LEAVE_SERVER_NOTICE_ROOM",
                  _Custom |-> ""]

NamedTypes ==
  {ErrCode, ThirdPartyIdRemovalStatus, RegistrationKind, register_LoginType, BackupAlgorithm,
   RoomVersionStability, EventFormat, Method, MembershipEventFilter, Direction, RuleKind,
   PusherKind, Visibility, RoomPreset, GroupingKey, SearchKeys, OrderBy, IdentityProviderBrand,
   AuthType, UserIdentifier, ProfileField, IdentifierHashingAlgorithm, NotificationPriority,
   TokenType, KeyUsage, PresenceState, PushFormat, PushCondition, ReceiptType, Medium,
   SessionDescriptionType, Reason, HashAlgorithm, KeyAgreementProtocol, MessageAuthenticationCode,
   ShortAuthenticationString, VerificationMethod, CancelCode, Recommendation, BundledAnnotation,
   RoomType, EncryptedEventScheme, GuestAccess, HistoryVisibility, MembershipState,
   ServerNoticeType, LimitType, MessageFormat, FeedbackType, Action, SecretName,
   DeviceKeyAlgorithm, SigningKeyAlgorithm, EventEncryptionAlgorithm}
=============================================================================
