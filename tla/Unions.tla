------------------------------- MODULE Unions -------------------------------
(***************************************************************************)
(* The enums whose variants are JSON objects of their own.  Each is the    *)
(* sequence of its variants in the order in which a reader tries them, a   *)
(* variant being the field that makes the reader choose it and its object. *)
(* The field is the tag with the value of the variant, the bare tag for    *)
(* the variant of any other value, or "" where the reader does not look at *)
(* a tag (an untagged enum, or the variant for a missing tag).  The        *)
(* variants are those of a build with the feature unstable-pre-spec.       *)
(***************************************************************************)
EXTENDS ApiObjects, EventObjects

LoginType ==
  <<<<"type: m.login.password", PasswordLoginType>>, <<"type: m.login.token", TokenLoginType>>,
    <<"type: m.login.sso", SsoLoginType>>, <<"type", CustomLoginType>>>>

CustomLoginInfo == Takes("required", {"type"}) \cup Takes("lenient", {"extra"})
LoginInfo ==
  <<<<"type: m.login.password", login_Password>>, <<"type: m.login.token", login_Token>>,
    <<"type", CustomLoginInfo>>>>

CustomAuthData == Takes("required", {"type"}) \cup Takes("nullable", {"session"}) \cup Takes("lenient", {"extra"})
AuthData ==
  <<<<"type: m.login.password", uiaa_Password>>, <<"type: m.login.recaptcha", ReCaptcha>>,
    <<"type: m.login.token", uiaa_Token>>, <<"type: m.login.oauth2", OAuth2>>,
    <<"type: m.login.email.identity", EmailIdentity>>, <<"type: m.login.msisdn", Msisdn>>,
    <<"type: m.login.dummy", Dummy>>,
    <<"type: org.matrix.msc3231.login.registration_token", RegistrationToken>>,
    <<"type", CustomAuthData>>, <<"", FallbackAcknowledgement>>>>

UserIdentifierVariants ==
  <<<<"type: m.id.user", Takes("required", {"type: m.id.user", "user"})>>,
    <<"type: m.id.thirdparty", Takes("required", {"type: m.id.thirdparty", "medium", "address"})>>,
    <<"type: m.id.phone", Takes("required", {"type: m.id.phone", "country", "phone"})>>>>

InvitationRecipient == <<<<"", Takes("required", {"user_id"})>>, <<"", Invite3pid>>>>

MessageType ==
  <<<<"msgtype: m.audio", AudioMessageEventContent>>, <<"msgtype: m.emote", EmoteMessageEventContent>>,
    <<"msgtype: m.file", FileMessageEventContent>>, <<"msgtype: m.image", ImageMessageEventContent>>,
    <<"msgtype: m.location", LocationMessageEventContent>>,
    <<"msgtype: m.notice", NoticeMessageEventContent>>,
    <<"msgtype: m.server_notice", ServerNoticeMessageEventContent>>,
    <<"msgtype: m.text", TextMessageEventContent>>, <<"msgtype: m.video", VideoMessageEventContent>>,
    <<"msgtype: m.key.verification.request", KeyVerificationRequestEventContent>>,
    <<"msgtype", CustomEventContent>>>>

\* serde writes the tag of a struct and does not look at it when reading
StartMethod  == <<<<"", start_SasV1Content>>, <<"", ReciprocateV1Content>>, <<"", start_CustomContent>>>>
AcceptMethod == <<<<"", accept_SasV1Content>>, <<"", accept_CustomContent>>>>

UnionTypes == {LoginType, LoginInfo, AuthData, UserIdentifierVariants, InvitationRecipient,
               MessageType, StartMethod, AcceptMethod}
=============================================================================
