------------------------------ MODULE PushRules -----------------------------
(***************************************************************************)
(* The push rules of ruma-common: a Ruleset to which rules are added, and  *)
(* the rule of it that decides what becomes of an event.                   *)
(*                                                                         *)
(* A string is a sequence of characters.  Only the text of a message and   *)
(* what is looked for in it need real characters; a name or an identifier  *)
(* is a sequence of one token.  A rule is a record with its kind.          *)
(***************************************************************************)
EXTENDS Naturals, Sequences, FiniteSets, FiniteSetsExt

CONSTANTS
  Me,          \* the user's ID
  LocalPart,   \* its local part
  UserId,      \* the strings that are user IDs
  RoomPing,    \* the text "@room"
  Capital,     \* the upper case characters |-> their lower case
  WordChar,    \* alphanumeric characters and '_'
  Event, Context, UserRule,
  PreSpec,     \* the feature unstable-pre-spec
  MaxRules     \* how many rules are added at most

ASSUME TokensAreWords == \A c \in DOMAIN Capital : c \in WordChar <=> Capital[c] \in WordChar

\* Texts are sequences of characters.  No character has `*' for its lower case, and `*' is no user.
ASSUME TextAssumption ==
  /\ {Me, LocalPart, RoomPing} \subseteq Seq(STRING)
  /\ \A c \in DOMAIN Capital : Capital[c] \in STRING \ {"*"}
  /\ Me # <<"*">>

ASSUME EventAssumption ==
  /\ \A e \in Event : e \in Seq([path : STRING, scalar : BOOLEAN, value : Seq(STRING)])
  /\ \A ctx \in Context : ctx.user_display_name \in Seq(STRING)

\* what the type of a rule says, as far as it matters for which rule comes first
ASSUME RuleAssumption ==
  \A rule \in UserRule :
    /\ rule.kind \in {"override", "content", "room", "sender", "underride"}
    /\ rule.kind = "content" => rule.pattern \in Seq(STRING)

VARIABLES
  ruleset,   \* kind |-> the rules of that kind, in the order of the IndexSet
  event,     \* the event's leaves in the order of the JSON map, as records path, scalar, value
  context    \* the room the event is in

varsPR == <<ruleset, event, context>>

-----------------------------------------------------------------------------
(***************************************************************************)
(* Matching strings                                                        *)
(***************************************************************************)
IsWordChar(c) == c \in WordChar
Lowercase(s)  == [i \in DOMAIN s |-> IF s[i] \in DOMAIN Capital THEN Capital[s[i]] ELSE s[i]]

\* where p occurs in s
Find(s, p) == {i \in DOMAIN s : i + Len(p) - 1 <= Len(s) /\ SubSeq(s, i, i + Len(p) - 1) = p}

BoundaryStart(s, i) == ~IsWordChar(s[i]) \/ i = 1 \/ ~IsWordChar(s[i - 1])
BoundaryEnd(s, i)   == i = Len(s) \/ ~IsWordChar(s[i]) \/ ~IsWordChar(s[i + 1])

NextAfterMatch(s, start) == SubSeq(s, start + 1, Len(s))

\* the rest of s from the next word on, where the match at `start' failed
NextWord(s, start) ==
  LET gaps  == {i \in start .. Len(s) : ~IsWordChar(s[i])}
      words == {i \in start .. Len(s) : IsWordChar(s[i]) /\ \E g \in gaps : g < i}
  IN  IF words = {} THEN <<>> ELSE SubSeq(s, Min(words), Len(s))

\* matches_word calls itself on the last n characters of s
MatchesWord(s, p) ==
  LET matches_word[n \in 0 .. Len(s)] ==
        LET t == SubSeq(s, Len(s) - n + 1, Len(s))
        IN  \/ t = p
            \/ /\ p # <<>> /\ Find(t, p) # {}
               /\ LET start == Min(Find(t, p))
                  IN  \/ BoundaryStart(t, start) /\ BoundaryEnd(t, start + Len(p) - 1)
                      \/ matches_word[Len(NextWord(t, start))]
  IN  matches_word[Len(s)]

\* WildMatch, of which the model needs `*' alone and patterns without wildcards
WildMatches(s, p) == p = <<"*">> \/ s = p

MatchesPattern(s, p, matchWords) ==
  IF matchWords THEN MatchesWord(Lowercase(s), Lowercase(p)) ELSE WildMatches(Lowercase(s), Lowercase(p))

-----------------------------------------------------------------------------
(***************************************************************************)
(* Conditions                                                              *)
(***************************************************************************)

\* FlattenedJson: numbers, booleans and strings by their path; the last one with a path stays
FlattenedJson(e) ==
  LET at(p) == {i \in DOMAIN e : e[i].path = p /\ e[i].scalar}
  IN  [p \in {e[i].path : i \in {j \in DOMAIN e : e[j].scalar}} |-> e[Max(at(p))].value]

CheckEventMatch(flat, key, pattern, ctx) ==
  \/ key = "room_id" /\ MatchesPattern(ctx.room_id, pattern, FALSE)
  \/ key # "room_id" /\ key \in DOMAIN flat /\ MatchesPattern(flat[key], pattern, key = "content.body")

InRange(is, count) ==
  CASE is.prefix = "==" -> count = is.count
    [] is.prefix = "<"  -> count < is.count
    [] is.prefix = ">"  -> count > is.count
    [] is.prefix = ">=" -> count >= is.count
    [] is.prefix = "<=" -> count <= is.count

SenderLevel(sender, ctx) ==
  IF sender \in DOMAIN ctx.users_power_levels THEN ctx.users_power_levels[sender] ELSE ctx.default_power_level

ConditionApplies(cond, flat, ctx) ==
  \/ cond.kind = "event_match" /\ CheckEventMatch(flat, cond.key, cond.pattern, ctx)
  \/ /\ cond.kind = "contains_display_name" /\ "content.body" \in DOMAIN flat
     /\ MatchesPattern(flat["content.body"], ctx.user_display_name, TRUE)
  \/ cond.kind = "room_member_count" /\ InRange(cond.is, ctx.member_count)
  \/ /\ cond.kind = "sender_notification_permission" /\ "sender" \in DOMAIN flat
     /\ flat["sender"] \in UserId
     /\ cond.key = "room"
     /\ SenderLevel(flat["sender"], ctx) >= ctx.notification_power_level

-----------------------------------------------------------------------------
(***************************************************************************)
(* Rules                                                                   *)
(***************************************************************************)
Kind == {"override", "content", "room", "sender", "underride"}

Applies(rule, flat, ctx) ==
  /\ rule.enabled
  /\ CASE rule.kind \in {"override", "underride"} ->
            \A i \in DOMAIN rule.conditions : ConditionApplies(rule.conditions[i], flat, ctx)
       [] rule.kind = "content" -> CheckEventMatch(flat, "content.body", rule.pattern, ctx)
       [] rule.kind = "room"    -> CheckEventMatch(flat, "room_id", rule.rule_id, ctx)
       [] rule.kind = "sender"  -> CheckEventMatch(flat, "sender", rule.rule_id, ctx)

\* RulesetIter
IterContentFirst(rs) == rs["content"] \o rs["override"] \o rs["room"] \o rs["sender"] \o rs["underride"]
Iter(rs) == rs["override"] \o rs["content"] \o rs["room"] \o rs["sender"] \o rs["underride"]

NoRule == [kind |-> "none"]
GetMatch(rs, e, ctx) ==
  LET flat == FlattenedJson(e)
      rules == Iter(rs)
      matching == {i \in DOMAIN rules : Applies(rules[i], flat, ctx)}
  IN  IF matching = {} THEN NoRule ELSE rules[Min(matching)]
GetActions(rs, e, ctx) ==
  LET rule == GetMatch(rs, e, ctx) IN IF rule = NoRule THEN {} ELSE rule.actions

\* IndexSet::insert: a rule that is there stays as it is
HasId(rules, rule) == \E i \in DOMAIN rules : rules[i].rule_id = rule.rule_id
InsertReplacing(rules, rule) ==
  IF HasId(rules, rule) THEN [i \in DOMAIN rules |-> IF rules[i].rule_id = rule.rule_id THEN rule ELSE rules[i]]
  ELSE Append(rules, rule)
Insert(rules, rule) == IF HasId(rules, rule) THEN rules ELSE Append(rules, rule)

-----------------------------------------------------------------------------
(***************************************************************************)
(* The predefined rules                                                    *)
(***************************************************************************)
EventMatch(key, pattern) == [kind |-> "event_match", key |-> key, pattern |-> pattern]
Conditional(kind, id, enabled, conditions, actions) ==
  [kind |-> kind, rule_id |-> <<id>>, enabled |-> enabled, conditions |-> conditions, actions |-> actions]
Override(id, enabled, conditions, actions) == Conditional("override", id, enabled, conditions, actions)
Underride(id, conditions, actions) == Conditional("underride", id, TRUE, conditions, actions)

OfType(type) == EventMatch("type", <<type>>)
OneToOne == [kind |-> "room_member_count", is |-> [prefix |-> "==", count |-> 2]]

Master(enabled) == Override("master", enabled, <<>>, {"dont_notify"})
SuppressNotices == Override("suppress_notices", TRUE, <<EventMatch("content.msgtype", <<"m.notice">>)>>, {"dont_notify"})
InviteForMe ==
  Override("invite_for_me", TRUE,
           <<OfType("m.room.member"), EventMatch("content.membership", <<"invite">>), EventMatch("state_key", Me)>>,
           {"notify", "sound"})
MemberEvent == Override("member_event", TRUE, <<OfType("m.room.member")>>, {"dont_notify"})
ContainsDisplayName ==
  Override("contains_display_name", TRUE, <<[kind |-> "contains_display_name"]>>, {"notify", "sound", "highlight"})
Tombstone ==
  Override("tombstone", FALSE, <<OfType("m.room.tombstone"), EventMatch("state_key", <<>>)>>, {"notify", "highlight"})
Roomnotif ==
  Override("roomnotif", TRUE,
           <<EventMatch("content.body", RoomPing), [kind |-> "sender_notification_permission", key |-> "room"]>>,
           {"notify", "highlight"})
Reaction == Override("reaction", TRUE, <<OfType("m.reaction")>>, {"dont_notify"})

DefaultOverride(master) ==
  <<Master(master), SuppressNotices, InviteForMe, MemberEvent, ContainsDisplayName, Tombstone, Roomnotif>>
    \o (IF PreSpec THEN <<Reaction>> ELSE <<>>)

ContainsUserName ==
  [kind |-> "content", rule_id |-> <<"contains_user_name">>, enabled |-> TRUE, pattern |-> LocalPart,
   actions |-> {"notify", "sound", "highlight"}]
DefaultContent == <<ContainsUserName>>

CallInvite    == Underride("call", <<OfType("m.call.invite")>>, {"notify", "ring"})
EncryptedRoomOneToOne ==
  Underride("encrypted_room_one_to_one", <<OneToOne, OfType("m.room.encrypted")>>, {"notify", "sound"})
RoomOneToOne  == Underride("room_one_to_one", <<OneToOne, OfType("m.room.message")>>, {"notify", "sound"})
RoomMessage   == Underride("message", <<OfType("m.room.message")>>, {"notify"})
RoomEncrypted == Underride("encrypted", <<OfType("m.room.encrypted")>>, {"notify"})
DefaultUnderride == <<CallInvite, EncryptedRoomOneToOne, RoomOneToOne, RoomMessage, RoomEncrypted>>

\* the user may have enabled the master rule
ServerDefault(master) ==
  [kind \in Kind |-> CASE kind = "override"  -> DefaultOverride(master)
                       [] kind = "content"   -> DefaultContent
                       [] kind = "underride" -> DefaultUnderride
                       [] OTHER              -> <<>>]

-----------------------------------------------------------------------------
InitPR ==
  /\ ruleset \in {ServerDefault(master) : master \in BOOLEAN}
  /\ event \in Event
  /\ context \in Context

\* Ruleset::add
Predefined == Len(Iter(ServerDefault(FALSE)))
Add(rule) ==
  /\ Len(Iter(ruleset)) < Predefined + MaxRules \/ HasId(ruleset[rule.kind], rule)
  /\ ruleset' = [ruleset EXCEPT ![rule.kind] = Insert(@, rule)]
  /\ UNCHANGED <<event, context>>

NextPR == \E rule \in UserRule : Add(rule)

SpecPR == InitPR /\ [][NextPR]_varsPR

-----------------------------------------------------------------------------
(***************************************************************************)
(* Properties                                                              *)
(***************************************************************************)

\* "These user-configured rules are given the highest priority" and so on (struct Ruleset)
Rank(kind) ==
  CASE kind = "override" -> 1 [] kind = "content" -> 2 [] kind = "room" -> 3 [] kind = "sender" -> 4
    [] kind = "underride" -> 5 [] OTHER -> 6

\* Adding a rule changes what becomes of an event only if the new rule matches it and is of a kind with
\* a higher priority than the rule that decided before; it never changes, hides or moves a rule
\* that is there, one with the same ID included (Ruleset::add, get_match).
FirstMatchStands ==
  [][LET before == GetMatch(ruleset, event, context)
         after  == GetMatch(ruleset', event', context')
     IN  after # before => \E rule \in UserRule :
           Add(rule) /\ after = rule /\ Rank(rule.kind) < Rank(before.kind)]_varsPR

\* s has p somewhere, with no word going on at either end
HasWords(s, p) ==
  s = p \/ /\ p # <<>>
           /\ \E i \in Find(s, p) : BoundaryStart(s, i) /\ BoundaryEnd(s, i + Len(p) - 1)

\* matches_word, which looks at the first place where the pattern occurs and goes on with the next
\* word, finds the pattern if it stands anywhere in the text with word boundaries and only then,
\* for the display name, "@room" and the patterns of the content rules.
WordMatchIsReference ==
  LET flat == FlattenedJson(event)
      wanted == {context.user_display_name, RoomPing}
                  \cup {ruleset["content"][i].pattern : i \in DOMAIN ruleset["content"]}
  IN  "content.body" \in DOMAIN flat =>
        \A p \in wanted : MatchesPattern(flat["content.body"], p, TRUE)
                            <=> HasWords(Lowercase(flat["content.body"]), Lowercase(p))

\* the override rules that the user added
UserOverrides == {ruleset["override"][i] : i \in Len(DefaultOverride(TRUE)) + 1 .. Len(ruleset["override"])}

\* What a predefined override rule decides stays so whatever rules of any kind are added, with the
\* enabled master rule whatever rules but overrides: with it nothing notifies; without it notices and
\* the memberships of others never do, an invite does, and a message with the user's display name, or
\* with "@room" from a sender who may write it, is highlighted (Ruleset::add, server_default).
DefaultsPrevail ==
  LET flat == FlattenedJson(event)
      actions == GetActions(ruleset, event, context)
      is(key, value) == key \in DOMAIN flat /\ Lowercase(flat[key]) = Lowercase(value)
      says(p) == "content.body" \in DOMAIN flat /\ HasWords(Lowercase(flat["content.body"]), Lowercase(p))
      notice == is("content.msgtype", <<"m.notice">>)
      member == is("type", <<"m.room.member">>)
      invited == is("content.membership", <<"invite">>) /\ is("state_key", Me)
      loud == /\ "sender" \in DOMAIN flat /\ flat["sender"] \in UserId
              /\ SenderLevel(flat["sender"], context) >= context.notification_power_level
  IN  IF ruleset["override"][1].enabled THEN UserOverrides = {} => actions = {"dont_notify"}
      ELSE /\ notice \/ (member /\ ~invited) => actions = {"dont_notify"}
           /\ member /\ invited /\ ~notice => "notify" \in actions
           /\ ~notice /\ ~member /\ (says(context.user_display_name) \/ (says(RoomPing) /\ loud)) =>
                {"notify", "highlight"} \subseteq actions

=============================================================================
