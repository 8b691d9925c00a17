------------------------------ MODULE EventAuth ------------------------------
(***************************************************************************)
(* The authorization rules of ruma-state-res (src/event_auth.rs): what     *)
(* auth_check answers for an event, given the state of the room.           *)
(*                                                                         *)
(* An event is a record of its type, sender, state_key and content; the    *)
(* content is a record of the fields that the rules read, after            *)
(* deserialization.  `st` is what fetch_state answers, as a record:        *)
(*   created, creator   the m.room.create event                            *)
(*   members            user -> membership; "leave" also if the user has   *)
(*                      no member event (the rules treat both alike), and  *)
(*                      "absent" if the event has no membership field      *)
(*   levels             the m.room.power_levels content, or NoLevels       *)
(*   join_rule          the join rule, "none" without a join rules event,  *)
(*                      "unreadable" if its content has no join_rule       *)
(*   invites            token -> m.room.third_party_invite event           *)
(* A verdict is "allow" (Ok(true)), "reject" (Ok(false)), "error" (Err) or *)
(* "panic".                                                                *)
(***************************************************************************)
EXTENDS Integers, FiniteSets

CONSTANTS
  User,           \* the users
  Token,          \* tokens of third party invites, also used as public keys
  ServerName,     \* user -> server
  RoomServer,     \* the server in the room id
  RoomVersion,    \* the flags of the room version
  NoKey,          \* the state_key of an event that is not a state event
  NoLevels        \* no m.room.power_levels event in the state

ASSUME RoomVersionAssumption ==
  RoomVersion \in [special_case_aliases_auth : BOOLEAN,
                   limit_notifications_power_levels : BOOLEAN,
                   extra_redaction_checks : BOOLEAN]

(* The constants of room_version.rs, as far as auth_check reads them.      *)
VersionFlags(v) ==
  [special_case_aliases_auth        |-> v < 6,
   limit_notifications_power_levels |-> v >= 6,
   extra_redaction_checks           |-> v >= 3]

-----------------------------------------------------------------------------
(* Power levels contents.  The code reads them into three kinds of struct: *)
(* the whole content (it is `valid` then), users and users_default only    *)
(* (`users_valid`), or one of the levels.  `named` holds the levels that   *)
(* are in the JSON as integers; deserialization fills in the defaults.     *)

LevelName == {"users_default", "events_default", "state_default",
              "ban", "redact", "kick", "invite"}

DefaultLevel(name) == IF name \in {"users_default", "events_default"} THEN 0 ELSE 50

LevelOf(content, name) ==
  IF name \in DOMAIN content.named THEN content.named[name] ELSE DefaultLevel(name)

(* RoomPowerLevelsEventContent::default().                                 *)
DefaultLevels ==
  [valid |-> TRUE, users_valid |-> TRUE, users |-> [u \in {} |-> 0], events |-> [t \in {} |-> 0],
   named |-> [n \in {} |-> 0], notifications_room |-> 50]

(* The level of the sender in auth_check.                                  *)
UserLevel(st, user) ==
  IF st.levels = NoLevels
  THEN IF st.creator = user THEN 100 ELSE 0
  ELSE IF ~st.levels.users_valid
       THEN 0
       ELSE IF user \in DOMAIN st.levels.users
            THEN st.levels.users[user]
            ELSE LevelOf(st.levels, "users_default")

-----------------------------------------------------------------------------
(* valid_membership_change.  sender_power and target_power are Options,    *)
(* here sets of at most one level; None is less than any level.            *)

OptionAtMost(a, b) == \A x \in a : \E y \in b : x <= y
OptionLess(a, b) == b # {} /\ \A x \in a, y \in b : x < y

AtLeast(power, required) == \E p \in power : p >= required

(* verify_third_party_invite, against the invite with the same token: the  *)
(* state key is the token already.  The code looks for the token among the *)
(* public keys.                                                            *)
ThirdPartyInviteOK(st, ev, signed) ==
  /\ ev.state_key = signed.mxid
  /\ signed.token \in DOMAIN st.invites
  /\ st.invites[signed.token].sender = ev.sender
  /\ signed.token \in st.invites[signed.token].public_keys

(* The rules for each target membership, after the early returns.          *)
JoinAnyone(st, ev) ==
  /\ st.members[ev.state_key] # "ban"
  /\ st.members[ev.state_key] \in {"join", "invite"} \/ st.join_rule = "public"

JoinDespiteBan(st, ev) ==
  /\ ev.sender = ev.state_key
  /\ st.members[ev.state_key] \in {"join", "invite"} \/ st.join_rule = "public"

JoinOK(st, ev) ==
  /\ ev.sender = ev.state_key
  /\ st.members[ev.state_key] # "ban"
  /\ \/ st.join_rule \in {"none", "invite"} /\ st.members[ev.state_key] \in {"join", "invite"}
     \/ st.join_rule = "public"

InviteOK(st, ev, levels, sender_power) ==
  \/ \E signed \in ev.content.third_party_invite :
       st.members[ev.state_key] # "ban" /\ ThirdPartyInviteOK(st, ev, signed)
  \/ /\ ev.content.third_party_invite = {}
     /\ st.members[ev.sender] = "join"
     /\ st.members[ev.state_key] \notin {"join", "ban"}
     /\ AtLeast(sender_power, LevelOf(levels, "invite"))

LeaveOK(st, ev, levels, sender_power, target_power) ==
  IF ev.sender = ev.state_key
  THEN st.members[ev.state_key] \in {"join", "invite"}
  ELSE /\ st.members[ev.sender] = "join"
       /\ st.members[ev.state_key] = "ban" => AtLeast(sender_power, LevelOf(levels, "ban"))
       /\ AtLeast(sender_power, LevelOf(levels, "kick"))
       /\ OptionLess(target_power, sender_power)

BanOK(st, ev, levels, sender_power, target_power) ==
  /\ st.members[ev.sender] = "join"
  /\ AtLeast(sender_power, LevelOf(levels, "ban"))
  /\ OptionLess(target_power, sender_power)

(* The event before this one is an m.room.create event, without previous   *)
(* events of its own: the member event is allowed whatever it says.        *)
AfterCreate(prev) == prev.first

MembershipChangeOK(st, ev, prev) ==
  LET levels == IF st.levels = NoLevels THEN DefaultLevels ELSE st.levels
      listed(user) == {levels.users[u] : u \in DOMAIN levels.users \cap {user}}
      by_default(condition) == IF condition THEN {LevelOf(levels, "users_default")} ELSE {}
      sender_power == IF listed(ev.sender) # {} THEN listed(ev.sender)
                      ELSE by_default(st.members[ev.sender] = "join")
      target_power == IF listed(ev.state_key) # {} THEN listed(ev.state_key)
                      ELSE by_default(ev.content.membership = "join")
  IN \/ AfterCreate(prev)
     \/ ev.content.membership = "join" /\ JoinOK(st, ev)
     \/ ev.content.membership = "invite" /\ InviteOK(st, ev, levels, sender_power)
     \/ ev.content.membership = "leave" /\ LeaveOK(st, ev, levels, sender_power, target_power)
     \/ ev.content.membership = "ban" /\ BanOK(st, ev, levels, sender_power, target_power)

(* The m.room.member branch of auth_check.                                 *)
AnyContent(ev) == TRUE
ContentHasMembership(ev) == ev.content.membership # "absent"

MemberVerdictWithoutDefault(st, ev, prev) ==
  IF st.levels # NoLevels /\ "invite" \notin DOMAIN st.levels.named
  THEN "error"
  ELSE IF MembershipChangeOK(st, ev, prev) THEN "allow" ELSE "reject"

MemberVerdict(st, ev, prev) ==
  IF ev.state_key = NoKey \/ ~ContentHasMembership(ev)
  THEN "reject"
  ELSE IF \/ ev.state_key \notin User
          \/ "absent" \in {st.members[ev.sender], st.members[ev.state_key]}
          \/ st.levels # NoLevels /\ ~st.levels.valid
          \/ st.join_rule = "unreadable"
       THEN "error"
       ELSE IF MembershipChangeOK(st, ev, prev) THEN "allow" ELSE "reject"

-----------------------------------------------------------------------------
(* can_send_event and get_send_level.                                      *)
SendLevel(st, ev) ==
  IF st.levels = NoLevels \/ ~st.levels.valid
  THEN IF ev.state_key # NoKey THEN 50 ELSE 0
  ELSE IF ev.type \in DOMAIN st.levels.events
       THEN st.levels.events[ev.type]
       ELSE LevelOf(st.levels, IF ev.state_key # NoKey THEN "state_default" ELSE "events_default")

CanSend(st, ev) ==
  /\ UserLevel(st, ev.sender) >= SendLevel(st, ev)
  /\ ev.state_key \in User => ev.state_key = ev.sender

-----------------------------------------------------------------------------
(* check_power_levels.                                                     *)

(* The entry of one user or event type in the old and the new map: it is   *)
(* the same, or neither exceeds the sender's level.                        *)
EntryUnchanged(old, new, k) == k \in DOMAIN old /\ k \in DOMAIN new /\ old[k] = new[k]

OldEntryWithin(old, new, k, level) == k \in DOMAIN old => old[k] <= level

EntryWithin(old, new, k, level) ==
  /\ k \in DOMAIN old => old[k] <= level
  /\ k \in DOMAIN new => new[k] <= level

UsersOK(old, new, sender, level) ==
  \A u \in DOMAIN old \cup DOMAIN new :
    EntryUnchanged(old, new, u) \/
      (EntryWithin(old, new, u, level) /\ (u # sender /\ u \in DOMAIN old => old[u] # level))

EventsOK(old, new, level) ==
  \A t \in DOMAIN old \cup DOMAIN new :
    EntryUnchanged(old, new, t) \/ EntryWithin(old, new, t, level)

NotificationsOK(old, new, level) ==
  \/ ~RoomVersion.limit_notifications_power_levels
  \/ old.notifications_room = new.notifications_room
  \/ old.notifications_room <= level /\ new.notifications_room <= level

(* get_deserialize_levels reads the levels from the serialized contents,   *)
(* where a level that has its default value is left out: the level is then *)
(* not compared at all.                                                    *)
Serialized(content, name) == LevelOf(content, name) # DefaultLevel(name)

NamedLevelsOK(old, new, level) ==
  \A name \in LevelName :
    Serialized(old, name) /\ Serialized(new, name)
      => LevelOf(old, name) <= level /\ LevelOf(new, name) <= level

PowerLevelsVerdict(st, ev, level) ==
  IF ev.state_key # "" THEN "reject"
  ELSE IF st.levels = NoLevels THEN "allow"
  ELSE IF ~ev.content.valid \/ ~st.levels.valid THEN "panic"
  ELSE IF /\ UsersOK(st.levels.users, ev.content.users, ev.sender, level)
          /\ EventsOK(st.levels.events, ev.content.events, level)
          /\ NotificationsOK(st.levels, ev.content, level)
          /\ NamedLevelsOK(st.levels, ev.content, level)
       THEN "allow" ELSE "reject"

-----------------------------------------------------------------------------
(* The m.room.third_party_invite rule reads `invite` without a default.    *)
InviteLevelMissing(st) ==
  st.levels # NoLevels /\ "invite" \notin DOMAIN st.levels.named

InviteLevel(st) == IF st.levels = NoLevels THEN 50 ELSE st.levels.named["invite"]

(* check_redaction: by power, or if the two event ids name the same        *)
(* server, or both name none, as in room version 3 and later.              *)
RedactionOK(st, ev) ==
  \/ ~RoomVersion.extra_redaction_checks
  \/ UserLevel(st, ev.sender) >=
       (IF st.levels = NoLevels THEN 50 ELSE LevelOf(st.levels, "redact"))
  \/ ev.content.id_server = ev.content.redacts_server

(* The m.room.create branch.                                               *)
CreateOK(ev) ==
  /\ ~ev.content.has_prev_events
  /\ ServerName[ev.sender] = RoomServer
  /\ ev.content.room_version_readable
  /\ ev.content.has_creator

(* auth_check, one early return after the other.                           *)
Verdict(st, ev, prev) ==
  IF ev.type = "create"
  THEN IF CreateOK(ev) THEN "allow" ELSE "reject"
  ELSE IF ~st.created
  THEN "reject"
  ELSE IF ev.type = "aliases" /\ RoomVersion.special_case_aliases_auth
  THEN IF ev.state_key = ServerName[ev.sender] THEN "allow" ELSE "reject"
  ELSE IF ev.type = "member"
  THEN MemberVerdict(st, ev, prev)
  ELSE IF st.members[ev.sender] = "absent"
  THEN "panic"
  ELSE IF st.members[ev.sender] # "join"
  THEN "reject"
  ELSE IF ev.type = "third_party_invite" /\ InviteLevelMissing(st)
  THEN "error"
  ELSE IF \/ ev.type = "third_party_invite" /\ UserLevel(st, ev.sender) < InviteLevel(st)
          \/ ~CanSend(st, ev)
  THEN "reject"
  ELSE IF ev.type = "power_levels"
  THEN PowerLevelsVerdict(st, ev, UserLevel(st, ev.sender))
  ELSE IF ev.type = "redaction" /\ ~RedactionOK(st, ev)
  THEN "reject"
  ELSE "allow"
=============================================================================
