--------------------------- MODULE RoomAuthProofs ---------------------------
(***************************************************************************)
(* Proofs about RoomAuth: what the authorization rules keep, in a room of  *)
(* any number of users, for any events they may send.                      *)
(***************************************************************************)
EXTENDS RoomAuth, TLAPS

(* Until the event after m.room.create there is neither a member nor a     *)
(* level, so that its exemption from the rules harms nobody.               *)
Untouched ==
  ~st.created \/ last.first =>
    st.levels = NoLevels /\ \A u \in User : st.members[u] = "leave"

(* The inductive invariant.                                                *)
RoomInv == TypeOK /\ Untouched

LevelsTyped(levels) ==
  /\ levels.valid \in BOOLEAN
  /\ levels.valid => levels.users_valid
  /\ DOMAIN levels.users \subseteq User
  /\ \A u \in DOMAIN levels.users : levels.users[u] \in Int
  /\ \A name \in DOMAIN levels.named : levels.named[name] \in Int

-----------------------------------------------------------------------------
(* A room's levels are those of an event.                                  *)
LEMMA StateLevelsTyped ==
  ASSUME TypeOK, st.levels # NoLevels
  PROVE  LevelsTyped(st.levels)
  BY EventAssumption DEF TypeOK, LevelsTyped

(* Levels, named or not, are numbers.                                      *)
LEMMA LevelsAreNumbers ==
  ASSUME TypeOK, ReadableLevels
  PROVE  /\ \A name : LevelOf(st.levels, name) \in Int
         /\ \A u \in User : UserLevel(st, u) \in Int
  <1>1. LevelsTyped(st.levels)
    BY StateLevelsTyped DEF ReadableLevels
  <1>2. \A name : LevelOf(st.levels, name) \in Int
    BY <1>1 DEF LevelsTyped, LevelOf, DefaultLevel
  <1>3. QED
    BY <1>1, <1>2 DEF LevelsTyped, UserLevel, ReadableLevels

(* Where the whole content can be read, so can the users.                  *)
LEMMA UsersReadable ==
  ASSUME TypeOK, ReadableLevels
  PROVE  st.levels.users_valid
  BY StateLevelsTyped DEF ReadableLevels, LevelsTyped

(* What auth_check has made sure of before it allows a member event.       *)
LEMMA AllowedMember ==
  ASSUME NEW ev, ev.type = "member", Verdict(st, ev, last) = "allow"
  PROVE  /\ st.created
         /\ ev.state_key \in User /\ ev.content.membership # "absent"
         /\ st.levels # NoLevels => ReadableLevels
         /\ MembershipChangeOK(st, ev, last)
  BY DEF Verdict, MemberVerdict, ContentHasMembership, ReadableLevels

(* ... and before it allows a power levels event.                          *)
LEMMA AllowedLevels ==
  ASSUME NEW ev, ev.type = "power_levels", Verdict(st, ev, last) = "allow", ReadableLevels
  PROVE  /\ st.created /\ Joined(ev.sender)
         /\ ev.content.valid
         /\ UsersOK(st.levels.users, ev.content.users, ev.sender, UserLevel(st, ev.sender))
  BY DEF Verdict, PowerLevelsVerdict, ReadableLevels, Joined

(* Nothing but m.room.create is allowed before it, and it only once.       *)
LEMMA AllowedCreate ==
  ASSUME NEW ev, Sent(ev), Verdict(st, ev, last) = "allow"
  PROVE  IF ev.type = "create" THEN ~st.created ELSE st.created
  BY DEF Verdict, CreateOK, Sent

(* The power of the sender and of the target in valid_membership_change is *)
(* their level, where the rules ask for it.                                *)
LEMMA MemberRules ==
  ASSUME RoomInv, NEW ev \in Event, ev.type = "member", Verdict(st, ev, last) = "allow",
         ~last.first
  PROVE  /\ ev.content.membership \in {"join", "invite", "leave", "ban"}
         /\ ev.content.membership = "join" => JoinOK(st, ev)
         /\ ev.content.membership = "invite" =>
              /\ st.members[ev.state_key] # "ban"
              /\ \/ \E t \in DOMAIN st.invites :
                      st.invites[t].sender = ev.sender /\ t \in st.invites[t].public_keys
                 \/ /\ Joined(ev.sender) /\ ~Joined(ev.state_key)
                    /\ ReadableLevels
                    /\ UserLevel(st, ev.sender) >= LevelOf(st.levels, "invite")
         /\ ev.content.membership \in {"leave", "ban"} =>
              \/ /\ ev.content.membership = "leave" /\ ev.sender = ev.state_key
                 /\ st.members[ev.state_key] # "ban"
              \/ /\ Joined(ev.sender)
                 /\ ev.content.membership = "leave" => ev.sender # ev.state_key
                 /\ ReadableLevels =>
                      /\ ev.content.membership = "leave" =>
                           UserLevel(st, ev.sender) >= LevelOf(st.levels, "kick")
                      /\ ev.content.membership = "ban" \/ st.members[ev.state_key] = "ban" =>
                           UserLevel(st, ev.sender) >= LevelOf(st.levels, "ban")
                      /\ ev.state_key \in DOMAIN st.levels.users =>
                           UserLevel(st, ev.state_key) < UserLevel(st, ev.sender)
  <1> DEFINE levels == IF st.levels = NoLevels THEN DefaultLevels ELSE st.levels
             listed(user) == {levels.users[u] : u \in DOMAIN levels.users \cap {user}}
             by_default(condition) == IF condition THEN {LevelOf(levels, "users_default")} ELSE {}
             sender_power == IF listed(ev.sender) # {} THEN listed(ev.sender)
                             ELSE by_default(st.members[ev.sender] = "join")
             target_power == IF listed(ev.state_key) # {} THEN listed(ev.state_key)
                             ELSE by_default(ev.content.membership = "join")
  <1>1. /\ ev.state_key \in User /\ ev.sender \in User
        /\ st.levels # NoLevels => ReadableLevels
        /\ TypeOK
    BY AllowedMember, EventAssumption DEF RoomInv
  <1>2. \/ ev.content.membership = "join" /\ JoinOK(st, ev)
        \/ ev.content.membership = "invite" /\ InviteOK(st, ev, levels, sender_power)
        \/ ev.content.membership = "leave" /\ LeaveOK(st, ev, levels, sender_power, target_power)
        \/ ev.content.membership = "ban" /\ BanOK(st, ev, levels, sender_power, target_power)
    BY AllowedMember DEF MembershipChangeOK, AfterCreate
  <1>3. ASSUME ReadableLevels, Joined(ev.sender)
        PROVE  sender_power = {UserLevel(st, ev.sender)} /\ levels = st.levels
    BY <1>3, UsersReadable DEF ReadableLevels, Joined, UserLevel, RoomInv
  <1>4. ASSUME ReadableLevels, ev.state_key \in DOMAIN st.levels.users
        PROVE  target_power = {UserLevel(st, ev.state_key)}
    BY <1>4, UsersReadable DEF ReadableLevels, UserLevel, RoomInv
  <1>5. ASSUME st.levels = NoLevels, Joined(ev.sender)
        PROVE  sender_power = {0} /\ LevelOf(levels, "invite") = 50
    BY <1>5 DEF Joined, DefaultLevels, LevelOf, DefaultLevel
  <1> HIDE DEF levels, sender_power, target_power
  <1>6. CASE ev.content.membership = "join"
    BY <1>2, <1>6
  <1>7. CASE ev.content.membership = "invite"
    <2>1. InviteOK(st, ev, levels, sender_power)
      BY <1>2, <1>7
    <2>2. CASE ev.content.third_party_invite # {}
      BY <1>7, <2>1, <2>2 DEF InviteOK, ThirdPartyInviteOK
    <2>3. CASE ev.content.third_party_invite = {}
      <3>1. /\ Joined(ev.sender) /\ ~Joined(ev.state_key) /\ st.members[ev.state_key] # "ban"
            /\ AtLeast(sender_power, LevelOf(levels, "invite"))
        BY <2>1, <2>3 DEF InviteOK, Joined
      <3>2. st.levels # NoLevels
        BY <1>5, <3>1 DEF AtLeast
      <3>3. QED
        BY <1>1, <1>3, <1>7, <3>1, <3>2 DEF AtLeast
    <2>4. QED
      BY <2>2, <2>3
  <1>8. CASE ev.content.membership = "leave"
    <2>1. LeaveOK(st, ev, levels, sender_power, target_power)
      BY <1>2, <1>8
    <2>2. CASE ev.sender = ev.state_key
      BY <1>8, <2>1, <2>2 DEF LeaveOK
    <2>3. CASE ev.sender # ev.state_key
      <3>1. /\ Joined(ev.sender)
            /\ st.members[ev.state_key] = "ban" => AtLeast(sender_power, LevelOf(levels, "ban"))
            /\ AtLeast(sender_power, LevelOf(levels, "kick"))
            /\ OptionLess(target_power, sender_power)
        BY <2>1, <2>3 DEF LeaveOK, Joined
      <3>2. QED
        BY <1>3, <1>4, <1>8, <2>3, <3>1 DEF AtLeast, OptionLess
    <2>4. QED
      BY <2>2, <2>3
  <1>9. CASE ev.content.membership = "ban"
    <2>1. BanOK(st, ev, levels, sender_power, target_power)
      BY <1>2, <1>9
    <2>2. QED
      BY <1>3, <1>4, <1>9, <2>1 DEF BanOK, AtLeast, OptionLess, Joined
  <1>10. QED
    BY <1>2, <1>6, <1>7, <1>8, <1>9

(* What an allowed event changes.                                          *)
LEMMA AllowChanges ==
  ASSUME NEW ev, Allow(ev)
  PROVE  /\ st'.created = (st.created \/ ev.type = "create")
         /\ st'.creator = IF ev.type = "create" THEN ev.content.creator ELSE st.creator
         /\ st'.members = IF ev.type = "member"
                          THEN [st.members EXCEPT ![ev.state_key] = ev.content.membership]
                          ELSE st.members
         /\ st'.levels = IF ev.type = "power_levels" THEN ev.content ELSE st.levels
         /\ DOMAIN st'.invites = IF ev.type = "third_party_invite"
                                 THEN DOMAIN st.invites \cup {ev.state_key} ELSE DOMAIN st.invites
         /\ last'.first = (ev.type = "create") /\ last'.sender = ev.sender
         /\ crashed' = crashed
         /\ Sent(ev) /\ Verdict(st, ev, last) = "allow"
  <1>1. st' = Applied(ev) /\ last' = [first |-> ev.type = "create", sender |-> ev.sender]
    BY DEF Allow
  <1>2. DOMAIN Applied(ev).invites = IF ev.type = "third_party_invite"
                                     THEN DOMAIN st.invites \cup {ev.state_key} ELSE DOMAIN st.invites
    BY DEF Applied
  <1>3. QED
    BY <1>1, <1>2 DEF Allow, Applied

(* A membership changes by a member event for that user.                   *)
LEMMA MemberChange ==
  ASSUME TypeOK, NEW ev, Allow(ev), NEW u \in User, st'.members[u] # st.members[u]
  PROVE  /\ ev.type = "member" /\ ev.state_key = u /\ last'.sender = ev.sender
         /\ st'.members[u] = ev.content.membership
         /\ Verdict(st, ev, last) = "allow"
  <1>1. /\ ev.type = "member" /\ last'.sender = ev.sender /\ Verdict(st, ev, last) = "allow"
        /\ st'.members = [st.members EXCEPT ![ev.state_key] = ev.content.membership]
    BY AllowChanges
  <1>2. st.members \in [User -> Membership]
    BY DEF TypeOK
  <1>3. QED
    BY <1>1, <1>2

(* The invariant holds in an empty room ...                                *)
LEMMA InvInit == Init => RoomInv
  <1> SUFFICES ASSUME Init PROVE RoomInv
    OBVIOUS
  <1>1. /\ st.created = FALSE /\ st.creator = NoKey /\ st.levels = NoLevels
        /\ st.members = [u \in User |-> "leave"] /\ st.invites = NoInvites
        /\ last.sender = NoKey /\ crashed = FALSE
    BY DEF Init
  <1>2. DOMAIN st.invites = {}
    BY <1>1 DEF NoInvites
  <1>3. QED
    BY <1>1, <1>2 DEF RoomInv, TypeOK, Untouched, Membership

(* ... and every event, allowed or not, keeps it.                          *)
LEMMA InvStep == RoomInv /\ [Next]_vars => RoomInv'
  <1> SUFFICES ASSUME RoomInv, [Next]_vars PROVE RoomInv'
    OBVIOUS
  <1>1. ASSUME NEW ev \in Event, Allow(ev) PROVE RoomInv'
    <2>1. TypeOK'
      <3>1. st'.members \in [User -> Membership]
        <4>1. CASE ev.type = "member"
          <5>1. ev.content.membership \in Membership
            BY <1>1, <4>1, AllowChanges, AllowedMember, EventAssumption
          <5>2. st'.members = [st.members EXCEPT ![ev.state_key] = ev.content.membership]
            BY <1>1, <4>1, AllowChanges
          <5>3. QED
            BY <5>1, <5>2 DEF RoomInv, TypeOK
        <4>2. CASE ev.type # "member"
          BY <1>1, <4>2, AllowChanges DEF RoomInv, TypeOK
        <4>3. QED
          BY <4>1, <4>2
      <3>2. st'.levels \in {NoLevels} \cup {e.content : e \in {f \in Event : f.type = "power_levels"}}
        <4> DEFINE L == {NoLevels} \cup {e.content : e \in {f \in Event : f.type = "power_levels"}}
        <4>1. st.levels \in L
          BY DEF RoomInv, TypeOK
        <4>2. ev.type = "power_levels" => ev.content \in L
          OBVIOUS
        <4>3. (st'.levels = ev.content /\ ev.type = "power_levels") \/ st'.levels = st.levels
          BY <1>1, AllowChanges
        <4> HIDE DEF L
        <4>4. st'.levels \in L
          BY <4>1, <4>2, <4>3
        <4>5. QED
          BY <4>4 DEF L
      <3>3. DOMAIN st'.invites \subseteq Token
        <4>1. DOMAIN st.invites \subseteq Token
          BY DEF RoomInv, TypeOK
        <4>2. ev.type = "third_party_invite" => ev.state_key \in Token
          BY EventAssumption
        <4>3. DOMAIN st'.invites = IF ev.type = "third_party_invite"
                                  THEN DOMAIN st.invites \cup {ev.state_key} ELSE DOMAIN st.invites
          BY <1>1, AllowChanges
        <4>4. CASE ev.type = "third_party_invite"
          BY <4>1, <4>2, <4>3, <4>4
        <4>5. CASE ev.type # "third_party_invite"
          BY <4>1, <4>3, <4>5
        <4>6. QED
          BY <4>4, <4>5
      <3>4. st'.created \in BOOLEAN /\ st'.creator \in User \cup {NoKey}
        BY <1>1, AllowChanges, EventAssumption DEF RoomInv, TypeOK
      <3>5. last'.sender \in User \cup {NoKey} /\ crashed' \in BOOLEAN
        BY <1>1, AllowChanges, EventAssumption DEF RoomInv, TypeOK
      <3>6. QED
        BY <3>1, <3>2, <3>3, <3>4, <3>5 DEF TypeOK
    <2>2. Untouched'
      BY <1>1, AllowChanges, AllowedCreate DEF RoomInv, Untouched
    <2>3. QED
      BY <2>1, <2>2 DEF RoomInv
  <1>2. ASSUME NEW ev \in Event, Refuse(ev) PROVE RoomInv'
    BY <1>2 DEF Refuse, vars, RoomInv, TypeOK, Untouched
  <1>3. ASSUME NEW ev \in Event, Panic(ev) PROVE RoomInv'
    BY <1>3 DEF Panic, RoomInv, TypeOK, Untouched
  <1>4. CASE UNCHANGED vars
    BY <1>4 DEF vars, RoomInv, TypeOK, Untouched
  <1>5. QED
    BY <1>1, <1>2, <1>3, <1>4 DEF Next

-----------------------------------------------------------------------------
(* No event that auth_check allows takes the room out of its types, nor    *)
(* gives it members or levels ahead of the first event after m.room.create.*)
THEOREM RoomInvariant == Spec => []RoomInv
  BY InvInit, InvStep, PTL DEF Spec

(* The `expect` on the sender's membership in auth_check never fails: the  *)
(* rules let no member event without membership into the state, whatever   *)
(* events are sent in whatever order.                                      *)
THEOREM MembershipAlwaysExists == Spec => []ExpectedMembershipExists
  <1>1. RoomInv => ExpectedMembershipExists
    <2> SUFFICES ASSUME RoomInv, NEW ev \in Event, Verdict(st, ev, last) = "panic"
                 PROVE  /\ ev.type = "power_levels" /\ st.levels # NoLevels
                        /\ ~ev.content.valid \/ ~st.levels.valid
      BY DEF ExpectedMembershipExists
    <2>1. st.members[ev.sender] # "absent"
      BY EventAssumption DEF RoomInv, TypeOK, Membership
    <2>2. QED
      BY <2>1 DEF Verdict, MemberVerdict, PowerLevelsVerdict
  <1>2. QED
    BY <1>1, RoomInvariant, PTL

(* A step that changes a member or the levels is an allowed event, and     *)
(* not the one after m.room.create if there was something to change.       *)
LEMMA ChangeIsAllowed ==
  ASSUME RoomInv, [Next]_vars, st' # st
  PROVE  \E ev \in Event : Allow(ev)
  BY DEF Next, vars, Refuse, Panic

(* Only a joined user who has the levels to ban and to kick lifts a ban,   *)
(* and then the user is out of the room.                                   *)
THEOREM BansStayInForce == Spec => BansHold
  <1>1. ASSUME RoomInv, [Next]_vars, NEW u \in User,
               st.members[u] = "ban", st'.members[u] # "ban"
        PROVE  /\ st'.members[u] = "leave"
               /\ last'.sender # u
               /\ Joined(last'.sender)
               /\ ReadableLevels =>
                    /\ UserLevel(st, last'.sender) >= LevelOf(st.levels, "ban")
                    /\ UserLevel(st, last'.sender) >= LevelOf(st.levels, "kick")
    <2>1. PICK ev \in Event : Allow(ev)
      BY <1>1, ChangeIsAllowed
    <2>2. /\ ev.type = "member" /\ ev.state_key = u /\ last'.sender = ev.sender
          /\ st'.members[u] = ev.content.membership
          /\ Verdict(st, ev, last) = "allow"
      BY <1>1, <2>1, MemberChange DEF RoomInv
    <2>3. ~last.first
      BY <1>1 DEF RoomInv, Untouched
    <2>4. ev.content.membership # "ban" /\ ev.content.membership # "join"
      BY <1>1, <2>2, <2>3, MemberRules DEF JoinOK
    <2>5. QED
      BY <1>1, <2>2, <2>3, <2>4, MemberRules
  <1>2. RoomInv /\ [Next]_vars =>
          [\A u \in User : st.members[u] = "ban" /\ st'.members[u] # "ban" =>
             /\ st'.members[u] = "leave"
             /\ last'.sender # u
             /\ Joined(last'.sender)
             /\ ReadableLevels =>
                  /\ UserLevel(st, last'.sender) >= LevelOf(st.levels, "ban")
                  /\ UserLevel(st, last'.sender) >= LevelOf(st.levels, "kick")]_vars
    BY <1>1
  <1>3. QED
    BY <1>2, RoomInvariant, PTL DEF Spec, BansHold

(* The rules for joins and invites: nobody is made to join, and an invite  *)
(* is sent by a joined user who has the level, or completes the sender's   *)
(* own third party invite.                                                 *)
THEOREM EntryStaysEntitled == Spec => EntryIsEntitled
  <1>1. ASSUME RoomInv, [Next]_vars, NEW u \in User, ~Joined(u), st'.members[u] = "join"
        PROVE  \/ last.first
               \/ last'.sender = u /\ (st.join_rule = "public" \/ st.members[u] = "invite")
    <2> SUFFICES ASSUME ~last.first
                 PROVE  last'.sender = u /\ (st.join_rule = "public" \/ st.members[u] = "invite")
      OBVIOUS
    <2>1. PICK ev \in Event : Allow(ev)
      BY <1>1, ChangeIsAllowed DEF Joined
    <2>2. /\ ev.type = "member" /\ ev.state_key = u /\ last'.sender = ev.sender
          /\ ev.content.membership = "join"
          /\ Verdict(st, ev, last) = "allow"
      BY <1>1, <2>1, MemberChange DEF RoomInv, Joined
    <2>3. JoinOK(st, ev)
      BY <1>1, <2>2, MemberRules
    <2>4. QED
      BY <1>1, <2>2, <2>3 DEF JoinOK, Joined
  <1>2. ASSUME RoomInv, [Next]_vars, NEW u \in User,
               st.members[u] # "invite", st'.members[u] = "invite"
        PROVE  \/ last.first
               \/ \E t \in DOMAIN st.invites :
                    st.invites[t].sender = last'.sender /\ t \in st.invites[t].public_keys
               \/ /\ Joined(last'.sender)
                  /\ ReadableLevels
                  /\ UserLevel(st, last'.sender) >= LevelOf(st.levels, "invite")
    <2>1. PICK ev \in Event : Allow(ev)
      BY <1>2, ChangeIsAllowed
    <2>2. /\ ev.type = "member" /\ ev.state_key = u /\ last'.sender = ev.sender
          /\ ev.content.membership = "invite"
          /\ Verdict(st, ev, last) = "allow"
      BY <1>2, <2>1, MemberChange DEF RoomInv
    <2>3. QED
      BY <1>2, <2>2, MemberRules
  <1>3. RoomInv /\ [Next]_vars =>
          [\A u \in User : ~Joined(u) /\ st'.members[u] = "join" =>
             \/ last.first
             \/ last'.sender = u /\ (st.join_rule = "public" \/ st.members[u] = "invite")]_vars
    BY <1>1
  <1>4. RoomInv /\ [Next]_vars =>
          [\A u \in User : st.members[u] # "invite" /\ st'.members[u] = "invite" =>
             \/ last.first
             \/ \E t \in DOMAIN st.invites :
                  st.invites[t].sender = last'.sender /\ t \in st.invites[t].public_keys
             \/ /\ Joined(last'.sender)
                /\ ReadableLevels
                /\ UserLevel(st, last'.sender) >= LevelOf(st.levels, "invite")]_vars
    BY <1>2
  <1>5. QED
    BY <1>3, <1>4, RoomInvariant, PTL DEF Spec, EntryIsEntitled, JoinsAreConsented, InvitesAreEntitled

(* valid_membership_change and check_power_levels protect the user at the  *)
(* top: a level equal to the sender's own is out of the sender's reach.    *)
THEOREM TopUserStaysSafe == Spec => TopUserIsSafe
  <1>1. ASSUME RoomInv, [Next]_vars, NEW u \in User,
               Joined(u), ReadableLevels, u \in DOMAIN st.levels.users,
               \A v \in User \ {u} : Joined(v) => UserLevel(st, v) <= UserLevel(st, u),
               last'.sender # u
        PROVE  /\ \/ st'.members[u] = "join"
                  \/ /\ st'.members[u] = "invite"
                     /\ \E t \in DOMAIN st.invites :
                          st.invites[t].sender = last'.sender /\ t \in st.invites[t].public_keys
               /\ UserLevel(st', u) = UserLevel(st, u)
    <2>1. CASE st' = st
      BY <1>1, <2>1 DEF Joined
    <2>2. CASE st' # st
      <3>1. PICK ev \in Event : Allow(ev)
        BY <1>1, <2>2, ChangeIsAllowed
      <3>2. /\ ~last.first /\ TypeOK /\ UserLevel(st, u) \in Int
            /\ ev.sender \in User \ {u} /\ UserLevel(st, ev.sender) \in Int
            /\ last'.sender = ev.sender
        BY <1>1, <3>1, AllowChanges, LevelsAreNumbers, EventAssumption
           DEF RoomInv, Untouched, ReadableLevels
      <3>3. ASSUME st'.members[u] # "join"
            PROVE  /\ st'.members[u] = "invite"
                   /\ \E t \in DOMAIN st.invites :
                        st.invites[t].sender = last'.sender /\ t \in st.invites[t].public_keys
        <4>1. /\ ev.type = "member" /\ ev.state_key = u
              /\ st'.members[u] = ev.content.membership
              /\ Verdict(st, ev, last) = "allow"
          BY <1>1, <3>1, <3>2, <3>3, MemberChange DEF Joined
        <4>2. ev.content.membership \notin {"leave", "ban"}
          <5> SUFFICES ASSUME ev.content.membership \in {"leave", "ban"} PROVE FALSE
            OBVIOUS
          <5>1. Joined(ev.sender) /\ UserLevel(st, u) < UserLevel(st, ev.sender)
            BY <1>1, <3>2, <4>1, MemberRules
          <5>2. QED
            BY <1>1, <3>2, <5>1
        <4>3. QED
          BY <1>1, <3>2, <3>3, <4>1, <4>2, MemberRules
      <3>4. UserLevel(st', u) = UserLevel(st, u)
        <4>1. CASE ev.type = "power_levels"
          <5>1. /\ Joined(ev.sender) /\ ev.content.valid
                /\ UsersOK(st.levels.users, ev.content.users, ev.sender, UserLevel(st, ev.sender))
                /\ st'.levels = ev.content
            BY <1>1, <3>1, <4>1, AllowChanges, AllowedLevels
          <5>2. UserLevel(st, u) = st.levels.users[u] /\ UserLevel(st, ev.sender) <= UserLevel(st, u)
            BY <1>1, <3>2, <5>1, UsersReadable DEF UserLevel, ReadableLevels, RoomInv
          <5>3. EntryUnchanged(st.levels.users, ev.content.users, u)
            BY <1>1, <3>2, <5>1, <5>2 DEF UsersOK, EntryWithin
          <5>4. QED
            BY <4>1, <5>1, <5>2, <5>3, EventAssumption DEF EntryUnchanged, UserLevel
        <4>2. CASE ev.type # "power_levels"
          BY <1>1, <3>1, <4>2, AllowChanges DEF UserLevel, ReadableLevels
        <4>3. QED
          BY <4>1, <4>2
      <3>5. QED
        BY <3>3, <3>4
    <2>3. QED
      BY <2>1, <2>2
  <1>2. RoomInv /\ [Next]_vars =>
          [\A u \in User :
             /\ Joined(u) /\ ReadableLevels /\ u \in DOMAIN st.levels.users
             /\ \A v \in User \ {u} : Joined(v) => UserLevel(st, v) <= UserLevel(st, u)
             /\ last'.sender # u
             => /\ \/ st'.members[u] = "join"
                   \/ /\ st'.members[u] = "invite"
                      /\ \E t \in DOMAIN st.invites :
                           st.invites[t].sender = last'.sender /\ t \in st.invites[t].public_keys
                /\ UserLevel(st', u) = UserLevel(st, u)]_vars
    BY <1>1
  <1>3. QED
    BY <1>2, RoomInvariant, PTL DEF Spec, TopUserIsSafe

(* check_power_levels lets nobody hand out a level above the own one.      *)
THEOREM ListedLevelsStayBounded == Spec => ListedLevelsAreBounded
  <1>1. ASSUME RoomInv, [Next]_vars, ReadableLevels, st'.levels # st.levels,
               NEW u \in DOMAIN st'.levels.users
        PROVE  \/ u \in DOMAIN st.levels.users /\ st.levels.users[u] = st'.levels.users[u]
               \/ /\ Joined(last'.sender)
                  /\ st'.levels.users[u] <= UserLevel(st, last'.sender)
    <2>1. PICK ev \in Event : Allow(ev)
      BY <1>1, ChangeIsAllowed
    <2>2. /\ ev.type = "power_levels" /\ st'.levels = ev.content /\ last'.sender = ev.sender
          /\ Verdict(st, ev, last) = "allow"
      BY <1>1, <2>1, AllowChanges
    <2>3. /\ Joined(ev.sender)
          /\ UsersOK(st.levels.users, ev.content.users, ev.sender, UserLevel(st, ev.sender))
      BY <1>1, <2>2, AllowedLevels
    <2>4. QED
      BY <1>1, <2>2, <2>3 DEF UsersOK, EntryUnchanged, EntryWithin
  <1>2. RoomInv /\ [Next]_vars =>
          [ReadableLevels /\ st'.levels # st.levels =>
             \A u \in DOMAIN st'.levels.users :
               \/ u \in DOMAIN st.levels.users /\ st.levels.users[u] = st'.levels.users[u]
               \/ /\ Joined(last'.sender)
                  /\ st'.levels.users[u] <= UserLevel(st, last'.sender)]_vars
    BY <1>1
  <1>3. QED
    BY <1>2, RoomInvariant, PTL DEF Spec, ListedLevelsAreBounded
=============================================================================
