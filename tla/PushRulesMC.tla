----------------------------- MODULE PushRulesMC ----------------------------
(***************************************************************************)
(* PushRules with every text of up to four characters out of a letter, its *)
(* capital and one that belongs to no word, and a few longer ones.         *)
(***************************************************************************)
EXTENDS PushRules, TLC

MCMe == <<"@me">>
MCLocalPart == <<"a">>
MCUserId == {MCMe, <<"@you">>}
MCRoomPing == <<"@", "A">>
MCCapital == "A" :> "a"
MCWordChar == {"a", "A"}

\* JSON maps are sorted by key: content, then a top-level "content.body", sender, state_key, type
Leaf(path, value) == [path |-> path, scalar |-> TRUE, value |-> value]
Message(type, content) == content \o <<Leaf("sender", <<"@you">>), Leaf("type", <<type>>)>>
Text(body) == Message("m.room.message", <<Leaf("content.body", body), Leaf("content.msgtype", <<"m.text">>)>>)
Notice(body) == Message("m.room.message", <<Leaf("content.body", body), Leaf("content.msgtype", <<"m.notice">>)>>)
Member(membership, user) ==
  <<Leaf("content.body", <<"a">>), Leaf("content.membership", <<membership>>), Leaf("sender", <<"@you">>),
    Leaf("state_key", user), Leaf("type", <<"m.room.member">>)>>
Texts ==
  UNION {[1 .. n -> {"a", "A", "@"}] : n \in 0 .. 4}
    \cup {<<"@", "a", "a", "@", "a">>, <<"a", "a", "@", "@", "a">>, <<"A", "@", "a", "a", "@", "A">>}

MCEvent ==
  {Text(body) : body \in Texts} \cup {Notice(body) : body \in {<<>>, <<"a">>, <<"@", "a">>}}
    \cup {Member(m, user) : m \in {"invite", "join"}, user \in MCUserId}
    \cup {Message(type, <<>>) : type \in {"m.room.encrypted", "m.call.invite", "m.reaction"}}
    \cup {<<>>,
          <<Leaf("content.body", <<"a", "a">>), Leaf("content.body", <<"@">>), Leaf("sender", <<"nobody">>)>>,
          <<[path |-> "content.body", scalar |-> FALSE, value |-> <<>>], Leaf("type", <<"m.room.message">>)>>,
          <<Leaf("content.body", <<"@", "a">>), Leaf("sender", <<"nobody">>)>>,
          <<Leaf("state_key", <<>>), Leaf("type", <<"m.room.tombstone">>)>>}

Ctx(name, count, levels) ==
  [room_id |-> <<"!r">>, member_count |-> count, user_display_name |-> name, users_power_levels |-> levels,
   default_power_level |-> 0, notification_power_level |-> 50]
MCContext ==
  {Ctx(<<"A", "a">>, 2, <<"@you">> :> 50), Ctx(<<"a", "@">>, 3, <<"@me">> :> 50), Ctx(<<"@", "a">>, 2, <<>>),
   Ctx(<<>>, 1, <<"@you">> :> 100)}

Simple(kind, id, enabled, actions) == [kind |-> kind, rule_id |-> id, enabled |-> enabled, actions |-> actions]
Content(id, enabled, pattern) ==
  [kind |-> "content", rule_id |-> <<id>>, enabled |-> enabled, pattern |-> pattern, actions |-> {"notify", id}]
Few(prefix, n) == <<[kind |-> "room_member_count", is |-> [prefix |-> prefix, count |-> n]]>>
MCUserRule ==
  {Override("master", FALSE, <<>>, {"dont_notify"}), Override("all", TRUE, <<>>, {"coalesce"}),
   Override("all", FALSE, <<>>, {"notify"}),
   Override("crowd", TRUE, Few(">", 2), {"dont_notify"}), Override("few", TRUE, Few("<=", 2), {"notify"}),
   Content("contains_user_name", TRUE, <<"@">>), Content("pair", TRUE, <<"a", "@", "a">>),
   Content("pair", FALSE, <<"a", "a">>), Content("end", TRUE, <<"@", "@", "a">>),
   Simple("room", <<"!r">>, TRUE, {"dont_notify"}), Simple("room", <<"*">>, TRUE, {"notify", "every_room"}),
   Simple("sender", <<"@you">>, TRUE, {"dont_notify"}), Simple("sender", <<"@me">>, TRUE, {"notify"}),
   Underride("large", Few(">=", 3), {"notify", "large"}), Underride("alone", Few("<", 2), {"notify", "alone"})}
=============================================================================
