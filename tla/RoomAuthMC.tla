----------------------------- MODULE RoomAuthMC -----------------------------
(***************************************************************************)
(* A small instance of RoomAuth: three users, one token, and power levels  *)
(* contents that move one or two users, a default, an event type, the      *)
(* notification level or a required level at a time.                       *)
(***************************************************************************)
EXTENDS RoomAuth, TLC

CONSTANTS alice, bob, carol, here, elsewhere, token

MCVersion6 == VersionFlags(6)

MCServerName == alice :> here @@ bob :> here @@ carol :> elsewhere

MCLevels(users, named) == [DefaultLevels EXCEPT !.users = users, !.named = named]

Nobody == [u \in {} |-> 0]

MCContent ==
  {MCLevels(users, "invite" :> 50) :
     users \in {alice :> 100 @@ bob :> 50, alice :> 100 @@ bob :> 100, alice :> 50 @@ bob :> 100, bob :> 100}}
  \cup {MCLevels(alice :> 100 @@ bob :> 50, named) :
          named \in {Nobody, "users_default" :> 50, "users_default" :> 100, "kick" :> 0 @@ "ban" :> 0}}
  \cup {[DefaultLevels EXCEPT !.users = alice :> 100 @@ bob :> 50,
                              !.events = "message" :> 100, !.notifications_room = 100],
        [DefaultLevels EXCEPT !.valid = FALSE, !.users_valid = FALSE],
        [MCLevels(alice :> 100 @@ bob :> 50, "invite" :> 0) EXCEPT !.valid = FALSE]}

MCEventOf(type, state_keys, contents) ==
  [type : {type}, sender : User, state_key : state_keys, content : contents]

(* Event ids name a server in room versions 1 and 2 only.                  *)
MCIdServer == IF RoomVersion.extra_redaction_checks THEN {NoKey} ELSE {here, elsewhere}

NoContent == {[empty |-> TRUE]}

MCEvent ==
  UNION {
    MCEventOf("create", {""},
      [has_prev_events : BOOLEAN, room_version_readable : BOOLEAN, has_creator : BOOLEAN, creator : {alice}]),
    MCEventOf("member", User \cup {NoKey},
      [membership : Membership \cup {"absent"}, third_party_invite : {{}}]),
    MCEventOf("member", User,
      [membership : {"invite"}, third_party_invite : {{[mxid |-> u, token |-> token]} : u \in {bob, carol}}]),
    MCEventOf("power_levels", {""}, MCContent),
    MCEventOf("join_rules", {""}, [join_rule : {"public", "invite", "knock", "unreadable"}]),
    MCEventOf("third_party_invite", {token}, [public_keys : {{}, {token}}]),
    MCEventOf("aliases", {here}, NoContent),
    MCEventOf("redaction", {NoKey}, [id_server : MCIdServer, redacts_server : MCIdServer]),
    MCEventOf("message", {NoKey}, NoContent)}
=============================================================================
