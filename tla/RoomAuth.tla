------------------------------ MODULE RoomAuth ------------------------------
(***************************************************************************)
(* A room whose events form one chain, as a homeserver keeps it (the       *)
(* server is not part of ruma): it passes every event to auth_check        *)
(* (module EventAuth) with the current state, the event before it and the  *)
(* third party invite of the same token, and adds it to the state if it is *)
(* allowed, the way iterative_auth_check (src/lib.rs) adds an event to     *)
(* resolved_state.                                                         *)
(***************************************************************************)
EXTENDS EventAuth

CONSTANT Event      \* the events that users may try to send

Membership == {"join", "invite", "leave", "ban", "knock"}

(* What deserialization gives: users are users, and levels are numbers.    *)
ASSUME EventAssumption ==
  \A ev \in Event :
    /\ ev.sender \in User
    /\ ev.type = "create" => ev.content.creator \in User
    /\ ev.type = "member" => ev.content.membership \in Membership \cup {"absent"}
    /\ ev.type = "third_party_invite" => ev.state_key \in Token
    /\ ev.type = "power_levels" =>
         /\ ev.content # NoLevels
         /\ ev.content.valid \in BOOLEAN
         /\ ev.content.valid => ev.content.users_valid
         /\ DOMAIN ev.content.users \subseteq User
         /\ \A u \in DOMAIN ev.content.users : ev.content.users[u] \in Int
         /\ \A name \in DOMAIN ev.content.named : ev.content.named[name] \in Int

VARIABLES
  st,         \* the current state of the room
  last,       \* the last event: its sender, and whether it is the m.room.create event
  crashed     \* whether auth_check has panicked

vars == <<st, last, crashed>>

NoInvites == [t \in {} |-> [sender |-> NoKey, public_keys |-> {}]]

Init ==
  /\ st = [created |-> FALSE, creator |-> NoKey, members |-> [u \in User |-> "leave"],
           levels |-> NoLevels, join_rule |-> "none", invites |-> NoInvites]
  /\ last = [first |-> FALSE, sender |-> NoKey]
  /\ crashed = FALSE

(* An event that is sent to the room names the last event as previous, so  *)
(* only the first event has none.                                          *)
Sent(ev) ==
  /\ ~crashed
  /\ ev.type = "create" => ev.content.has_prev_events = st.created

(* resolved_state.insert((event_type, state_key), event_id).               *)
Applied(ev) ==
  [created   |-> st.created \/ ev.type = "create",
   creator   |-> IF ev.type = "create" THEN ev.content.creator ELSE st.creator,
   members   |-> IF ev.type = "member"
                 THEN [st.members EXCEPT ![ev.state_key] = ev.content.membership]
                 ELSE st.members,
   levels    |-> IF ev.type = "power_levels" THEN ev.content ELSE st.levels,
   join_rule |-> IF ev.type = "join_rules" THEN ev.content.join_rule ELSE st.join_rule,
   invites   |-> IF ev.type = "third_party_invite"
                 THEN [t \in DOMAIN st.invites \cup {ev.state_key} |->
                         IF t = ev.state_key
                         THEN [sender |-> ev.sender, public_keys |-> ev.content.public_keys]
                         ELSE st.invites[t]]
                 ELSE st.invites]

Allow(ev) ==
  /\ Sent(ev)
  /\ Verdict(st, ev, last) = "allow"
  /\ st' = Applied(ev)
  /\ last' = [first |-> ev.type = "create", sender |-> ev.sender]
  /\ UNCHANGED crashed

(* Ok(false) and Err leave the room as it is.                              *)
Refuse(ev) ==
  /\ Sent(ev)
  /\ Verdict(st, ev, last) \in {"reject", "error"}
  /\ UNCHANGED vars

Panic(ev) ==
  /\ Sent(ev)
  /\ Verdict(st, ev, last) = "panic"
  /\ crashed' = TRUE
  /\ UNCHANGED <<st, last>>

Next ==
  \/ \E ev \in Event : Allow(ev)
  \/ \E ev \in Event : Refuse(ev)
  \/ \E ev \in Event : Panic(ev)

Spec == Init /\ [][Next]_vars

-----------------------------------------------------------------------------
TypeOK ==
  /\ st.created \in BOOLEAN
  /\ st.creator \in User \cup {NoKey}
  /\ st.members \in [User -> Membership]
  /\ st.levels \in {NoLevels} \cup {ev.content : ev \in {e \in Event : e.type = "power_levels"}}
  /\ DOMAIN st.invites \subseteq Token
  /\ last.sender \in User \cup {NoKey}
  /\ crashed \in BOOLEAN

Joined(u) == st.members[u] = "join"

ReadableLevels == st.levels # NoLevels /\ st.levels.valid

(* auth_check panics only between two m.room.power_levels events of which  *)
(* one is malformed.  The `expect("we should test before that this field   *)
(* exists")` on the sender's membership never fails: a member event that   *)
(* has none is not let into the state, not even after m.room.create.       *)
ExpectedMembershipExists ==
  \A ev \in Event :
    Verdict(st, ev, last) = "panic" =>
      /\ ev.type = "power_levels" /\ st.levels # NoLevels
      /\ ~ev.content.valid \/ ~st.levels.valid

(* A ban ends only when another, joined user who has the levels to ban and *)
(* to kick lifts it, and the user is then out of the room: no join, invite *)
(* or third party invite gets around a ban.                                *)
BansHold ==
  [][\A u \in User : st.members[u] = "ban" /\ st'.members[u] # "ban" =>
       /\ st'.members[u] = "leave"
       /\ last'.sender # u
       /\ Joined(last'.sender)
       /\ ReadableLevels =>
            /\ UserLevel(st, last'.sender) >= LevelOf(st.levels, "ban")
            /\ UserLevel(st, last'.sender) >= LevelOf(st.levels, "kick")]_vars

(* Nobody enters the room except by an own join event, and that only if    *)
(* the room is public or the user is invited; the event after              *)
(* m.room.create is exempt.                                                *)
JoinsAreConsented ==
  [][\A u \in User : ~Joined(u) /\ st'.members[u] = "join" =>
       \/ last.first
       \/ last'.sender = u /\ (st.join_rule = "public" \/ st.members[u] = "invite")]_vars

(* A third party invite can be turned into an invite only by the user who  *)
(* sent it, but also after that user has left; any other invite needs a    *)
(* joined sender who has the level to invite.                              *)
InvitesAreEntitled ==
  [][\A u \in User : st.members[u] # "invite" /\ st'.members[u] = "invite" =>
       \/ last.first
       \/ \E t \in DOMAIN st.invites :
            st.invites[t].sender = last'.sender /\ t \in st.invites[t].public_keys
       \/ /\ Joined(last'.sender)
          /\ ReadableLevels
          /\ UserLevel(st, last'.sender) >= LevelOf(st.levels, "invite")]_vars

(* Both ways into a room, an own join and an invite, are entitled by the   *)
(* state they are judged under.                                            *)
EntryIsEntitled == JoinsAreConsented /\ InvitesAreEntitled

(* A joined user whom the power levels list, at no less than anyone else   *)
(* in the room has, can be neither kicked, banned nor changed in level by  *)
(* others.  One thing others can do: a third party invite that its sender  *)
(* turns into an invite for a user who has joined already takes the user   *)
(* out of the room again, whatever the levels.                             *)
TopUserIsSafe ==
  [][\A u \in User :
       /\ Joined(u) /\ ReadableLevels /\ u \in DOMAIN st.levels.users
       /\ \A v \in User \ {u} : Joined(v) => UserLevel(st, v) <= UserLevel(st, u)
       /\ last'.sender # u
       => /\ \/ st'.members[u] = "join"
             \/ /\ st'.members[u] = "invite"
                /\ \E t \in DOMAIN st.invites :
                     st.invites[t].sender = last'.sender /\ t \in st.invites[t].public_keys
          /\ UserLevel(st', u) = UserLevel(st, u)]_vars

(* A user is listed at a new level only by a joined user who has at least  *)
(* that level.                                                             *)
ListedLevelsAreBounded ==
  [][ReadableLevels /\ st'.levels # st.levels =>
       \A u \in DOMAIN st'.levels.users :
         \/ u \in DOMAIN st.levels.users /\ st.levels.users[u] = st'.levels.users[u]
         \/ /\ Joined(last'.sender)
            /\ st'.levels.users[u] <= UserLevel(st, last'.sender)]_vars

=============================================================================
