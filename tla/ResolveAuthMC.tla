---------------------------- MODULE ResolveAuthMC ----------------------------
(***************************************************************************)
(* A small instance of ResolveAuth: alice (level 100), bob (50) and carol  *)
(* (0) are in an invite-only room; at most two events are sent on one fork *)
(* and one or two on the other.                                            *)
(***************************************************************************)
EXTENDS ResolveAuth, TLC

CONSTANTS alice, bob, carol, here, token

MCVersion6 == VersionFlags(6)
MCServerName == [u \in User |-> here]

Ev(type, sender, state_key, content) ==
  [type |-> type, sender |-> sender, state_key |-> state_key, content |-> content]

MemberEv(sender, target, membership) ==
  Ev("member", sender, target, [membership |-> membership, third_party_invite |-> {}])

Nobody == [u \in {} |-> 0]

LevelsEv(sender, users, named) ==
  Ev("power_levels", sender, "", [DefaultLevels EXCEPT !.users = users, !.named = named])

JoinRules(sender, rule) == Ev("join_rules", sender, "", [join_rule |-> rule])

Topic(sender) == Ev("topic", sender, "", [empty |-> TRUE])

MCHistory ==
  << Ev("create", alice, "", [has_prev_events |-> FALSE, room_version_readable |-> TRUE,
                              has_creator |-> TRUE, creator |-> alice]),
     MemberEv(alice, alice, "join"),
     LevelsEv(alice, alice :> 100 @@ bob :> 50, "invite" :> 50),
     JoinRules(alice, "public"),
     MemberEv(bob, bob, "join"),
     MemberEv(carol, carol, "join"),
     JoinRules(alice, "invite") >>

MCMenu ==
  { MemberEv(alice, bob, "ban"), MemberEv(alice, bob, "leave"), MemberEv(alice, alice, "leave"),
    MemberEv(bob, bob, "join"),
    MemberEv(bob, carol, "ban"), MemberEv(bob, carol, "invite"),
    MemberEv(carol, carol, "join"),
    LevelsEv(alice, alice :> 100, "invite" :> 50),
    LevelsEv(alice, alice :> 100 @@ bob :> 50 @@ carol :> 50, Nobody),
    LevelsEv(bob, alice :> 100 @@ bob :> 50 @@ carol :> 50, "invite" :> 50),
    JoinRules(alice, "public"), JoinRules(alice, "unreadable"),
    Ev("third_party_invite", bob, token, [public_keys |-> {token}]),
    Ev("member", bob, carol,
       [membership |-> "invite", third_party_invite |-> {[mxid |-> carol, token |-> token]}]),
    Topic(bob), Topic(carol) }

MCMaxSent == <<2, 1>>

MCKey ==
  {<<"create", "">>, <<"power_levels", "">>, <<"join_rules", "">>, <<"topic", "">>,
   <<"third_party_invite", token>>} \cup {<<"member", u>> : u \in User}
=============================================================================
