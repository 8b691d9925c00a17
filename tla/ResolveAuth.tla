----------------------------- MODULE ResolveAuth -----------------------------
(***************************************************************************)
(* State resolution with the real authorization rules: the loop of         *)
(* iterative_auth_check (ruma-state-res, src/lib.rs) asks auth_check       *)
(* (module EventAuth) about every conflicted event, against a state put    *)
(* together from the auth events the event names itself and from what has  *)
(* been resolved so far.  Module StateRes is the rest of resolve.          *)
(*                                                                         *)
(* The room forks after a common history.  On each fork events are sent    *)
(* one after the other; a server lets an event in if auth_check allows it  *)
(* against the state of its own fork, and the event names the state that   *)
(* auth_types_for_event selects.  At any time resolve may merge the forks. *)
(***************************************************************************)
EXTENDS EventAuth, Sequences, Functions

CONSTANTS
  EventId,     \* the event ids, 1 .. n
  Key,         \* the (event type, state key) pairs
  History,     \* the events before the fork, a sequence
  Menu,        \* the events that may be sent on the forks
  MaxSent      \* how many events are sent on each of the two forks at most

ASSUME HistoryAssumption == History \in Seq(Range(History))
ASSUME IdAssumption == IsFiniteSet(EventId)
ASSUME BoundAssumption ==
  /\ MaxSent \in [1 .. 2 -> Nat]
  /\ 1 .. (Len(History) + MaxSent[1] + MaxSent[2]) \subseteq EventId
ASSUME SentAssumption ==
  \A ev \in Menu \cup Range(History) : ev.sender \in User /\ ev.content # NoLevels
ASSUME ContentAssumption ==
  \A ev \in Menu \cup Range(History) :
    ev.type = "power_levels" => (ev.content.valid => ev.content.users_valid)
ASSUME KnownVersion == \E v \in 1 .. 6 : RoomVersion = VersionFlags(v)

VARIABLES
  events,      \* the events of the room: event id -> event, with auth events,
               \* auth chain and previous events
  forks,       \* the state at the end of each fork: key -> event id
  last,        \* the last event of each fork, or 0
  clean, all_conflicted, control, queue, checked, resolved, pc   \* as in StateRes

room == <<events, forks, last>>
resolution == <<clean, all_conflicted, control, queue, checked, resolved, pc>>
vars == <<room, resolution>>

-----------------------------------------------------------------------------
KeyOf(ev) == <<ev.type, ev.state_key>>

ASSUME KnownKeys == \A ev \in Menu \cup Range(History) : KeyOf(ev) \in Key

Levels == <<"power_levels", "">>
ASSUME LevelsKey == Levels \in Key /\ NoKey \notin Key

Member(u) == <<"member", u>>

(* auth_types_for_event: the keys of the state an event is checked         *)
(* against.  Every membership brings in the target's member event, also    *)
(* leave and ban.                                                          *)
AuthTypes(ev) ==
  IF ev.type = "create"
  THEN {}
  ELSE {Levels, Member(ev.sender), <<"create", "">>}
       \cup {k \in {Member(ev.state_key)} : ev.type = "member"}
       \cup {k \in {<<"join_rules", "">>} :
               ev.type = "member" /\ ev.content.membership \in {"join", "invite"}}
       \cup {<<"third_party_invite", signed.token>> :
               signed \in IF ev.type = "member" /\ ev.content.membership = "invite"
                          THEN ev.content.third_party_invite ELSE {}}

(* What fetch_state answers when `state` (key -> event) is the auth state. *)
StateRec(state) ==
  LET has(k) == k \in DOMAIN state
  IN [created   |-> has(<<"create", "">>),
      creator   |-> IF has(<<"create", "">>) THEN state[<<"create", "">>].content.creator ELSE NoKey,
      members   |-> [u \in User |-> IF has(Member(u)) THEN state[Member(u)].content.membership ELSE "leave"],
      levels    |-> IF has(Levels) THEN state[Levels].content ELSE NoLevels,
      join_rule |-> IF has(<<"join_rules", "">>) THEN state[<<"join_rules", "">>].content.join_rule ELSE "none",
      invites   |-> [t \in {x \in Token : has(<<"third_party_invite", x>>)} |->
                       [sender      |-> state[<<"third_party_invite", t>>].sender,
                        public_keys |-> state[<<"third_party_invite", t>>].content.public_keys]]]

(* HashMap::insert, and extend with another map.                           *)
Put(state, k, e) == [x \in DOMAIN state \cup {k} |-> IF x = k THEN e ELSE state[x]]

Extend(state, more) ==
  [x \in DOMAIN state \cup DOMAIN more |-> IF x \in DOMAIN more THEN more[x] ELSE state[x]]

PrevRec(prev) ==
  [first |-> prev # {} /\ \A p \in prev : events[p].type = "create" /\ events[p].prev = {}]

-----------------------------------------------------------------------------
Init ==
  /\ events = <<>>
  /\ forks = <<<<>>, <<>>>>
  /\ last = <<0, 0>>
  /\ clean = <<>> /\ all_conflicted = {} /\ control = {} /\ queue = <<>>
  /\ checked = <<>> /\ resolved = <<>> /\ pc = "start"

(* A server sends an event on a fork, or on both before they part.         *)
Send(S, ev) ==
  LET f     == CHOOSE i \in S : TRUE
      own   == AuthTypes(ev) \cap DOMAIN forks[f]
      auth  == {forks[f][k] : k \in own}
      id    == Len(events) + 1
      new   == [type |-> ev.type, sender |-> ev.sender, state_key |-> ev.state_key,
                content |-> ev.content, auth |-> auth, prev |-> {last[f]} \ {0},
                chain |-> auth \cup UNION {events[a].chain : a \in auth}]
  IN /\ pc = "start"
     /\ Verdict(StateRec([k \in own |-> events[forks[f][k]]]), new, PrevRec(new.prev)) = "allow"
     /\ events' = Append(events, new)
     /\ forks' = [i \in 1 .. 2 |-> IF i \in S THEN Put(forks[i], KeyOf(ev), id) ELSE forks[i]]
     /\ last' = [i \in 1 .. 2 |-> IF i \in S THEN id ELSE last[i]]
     /\ UNCHANGED resolution

SendHistory == Len(events) < Len(History) /\ Send({1, 2}, History[Len(events) + 1])

(* The ids do not matter: the first fork is extended before the second.    *)
SendOnFirst(ev) ==
  /\ Len(History) <= last[1] /\ last[1] < Len(History) + MaxSent[1]
  /\ last[2] = Len(History)
  /\ Send({1}, ev)

SendOnSecond(ev) ==
  /\ Len(History) <= last[1]
  /\ Len(events) < last[1] + MaxSent[2]
  /\ Send({2}, ev)

-----------------------------------------------------------------------------
(* is_power_event.                                                         *)
IsPower(ev) ==
  \/ ev.type \in {"power_levels", "join_rules", "create"} /\ ev.state_key = ""
  \/ ev.type = "member" /\ ev.content.membership \in {"leave", "ban"} /\ ev.sender # ev.state_key

(* get_power_level_for_sender reads the users of the power levels event    *)
(* that the event names.                                                   *)
LevelsReadable(ev) ==
  \A a \in ev.auth : KeyOf(events[a]) = Levels => events[a].content.users_valid

Outline(ev) ==
  [key |-> KeyOf(ev), power |-> IsPower(ev), levels_readable |-> LevelsReadable(ev), auth_events |-> ev.auth]

(* The auth chain of a fork is that of the events in its state.            *)
AuthChains == [i \in 1 .. 2 |-> UNION {events[e].chain : e \in Range(forks[i])}]

Res == INSTANCE StateRes WITH
  PowerLevels     <- Levels,
  Event           <- {ev \in [key : Key, power : BOOLEAN, levels_readable : BOOLEAN, auth_events : SUBSET EventId] :
                        ev.key = Levels => ev.power},
  store           <- [e \in DOMAIN events |-> Outline(events[e])],
  state_sets      <- forks,
  auth_chain_sets <- AuthChains,
  version_known   <- (\E v \in 1 .. 6 : RoomVersion = VersionFlags(v))

(* The auth events of e, replaced by the resolved ones for the keys that   *)
(* auth_types_for_event selects.                                           *)
OwnAuth(e) == [k \in {KeyOf(events[a]) : a \in events[e].auth} |->
                 CHOOSE a \in events[e].auth : KeyOf(events[a]) = k]

ResolvedAuth(e) == [k \in AuthTypes(events[e]) \cap DOMAIN resolved |-> resolved[k]]

OwnStateFirst(e) == Extend(ResolvedAuth(e), OwnAuth(e))
OwnStateOnly(e) == OwnAuth(e)
AuthState(e) == Extend(OwnAuth(e), ResolvedAuth(e))

Answer(e) ==
  LET state == AuthState(e)
  IN Verdict(StateRec([k \in DOMAIN state |-> events[state[k]]]), events[e],
             PrevRec(events[e].prev))

(* resolve may be called once the common history is complete; before the   *)
(* first event on a fork there is no conflict.                             *)
HistoryComplete == Len(events) >= Len(History)

NoConflict == HistoryComplete /\ UNCHANGED room /\ Res!NoConflict
SortControl == HistoryComplete /\ UNCHANGED room /\ Res!SortControl

CheckEvent ==
  /\ UNCHANGED room
  /\ queue # <<>>
  /\ Answer(Head(queue)) \in {"allow", "reject"}
  /\ Res!Check(Answer(Head(queue)) = "allow")

CheckFails ==
  /\ UNCHANGED room
  /\ queue # <<>>
  /\ Answer(Head(queue)) \in {"error", "panic"}
  /\ Res!CheckFails

SortRest == UNCHANGED room /\ Res!SortRest
Finish == UNCHANGED room /\ Res!Finish

Resolve == NoConflict \/ SortControl \/ CheckEvent \/ CheckFails \/ SortRest \/ Finish

Next ==
  \/ SendHistory
  \/ \E ev \in Menu : SendOnFirst(ev)
  \/ \E ev \in Menu : SendOnSecond(ev)
  \/ Resolve

Spec == Init /\ [][Next]_vars

-----------------------------------------------------------------------------
(* The states and the queue of resolve hold events of the room, each under *)
(* its own key.                                                            *)
TypeOK ==
  /\ DOMAIN events \subseteq EventId
  /\ \A state \in {forks[1], forks[2], clean, resolved} :
       DOMAIN state \subseteq Key /\ \A k \in DOMAIN state : KeyOf(events[state[k]]) = k
  /\ queue \in Seq(all_conflicted)
  /\ checked \in Seq([id : all_conflicted, allowed : BOOLEAN])
  /\ pc \in {"start", "control", "rest", "done", "error"}

(* The membership of u in the result, and the event that set it.           *)
Result(k) == {events[resolved[k]] : x \in {k} \cap DOMAIN resolved}

RemovedByAnother(ev) == ev.content.membership \in {"leave", "ban"} /\ ev.sender # ev.state_key

Conflicted == DOMAIN resolved \ Res!Agreed

(* The events in the result that were decided in the second pass.          *)
Rest == {events[resolved[k]] : k \in {x \in Conflicted : resolved[x] \notin control}}

(* Some events are allowed without a look at the sender's membership or    *)
(* level.                                                                  *)
NotAsked(ev) == ev.type = "create" \/ (ev.type = "aliases" /\ RoomVersion.special_case_aliases_auth)

RedeemsInvite(ev) == ev.content.membership = "invite" /\ ev.content.third_party_invite # {}

(* A user who was kicked or banned on one fork changes nothing by what he  *)
(* did on the other one: if the removal is in the result, no conflicted    *)
(* event of his is, other than power events and what they rest on.  Member *)
(* events are excepted that follow the m.room.create event directly or     *)
(* redeem a third party invite, for which the rules do not ask whether the *)
(* sender is in the room.                                                  *)
RemovedUsersChangeNothing ==
  pc = "done" =>
    \A u \in User : (\E ev \in Result(Member(u)) : RemovedByAnother(ev)) =>
      \A ev \in Rest :
        \/ ev.sender # u
        \/ NotAsked(ev)
        \/ ev.type = "member" /\ (RedeemsInvite(ev) \/ AfterCreate(PrevRec(ev.prev)))

(* What was decided in the second pass is covered by the power levels in   *)
(* the result, also if its sender had more power on his own fork.          *)
RestIsEntitled ==
  pc = "done" =>
    \A ev \in Rest, levels \in Result(Levels) :
      LET st == [StateRec([k \in {Levels} |-> levels]) EXCEPT !.creator = NoKey]
      IN \/ ev.type = "member" \/ NotAsked(ev)
         \/ UserLevel(st, ev.sender) >= SendLevel(st, ev)

(* A removal on a fork is in the result, whatever the removed user did on  *)
(* the other one, if                                                       *)
(*   - the power levels and the join rules are not in question and the     *)
(*     room is not public,                                                 *)
(*   - of the user who ordered it, only joins are decided with it,         *)
(*   - all other decisions about the removed user are his own, to join or  *)
(*     to leave, and he does not come in as the room's creator then.       *)
Removals ==
  {e \in all_conflicted : e > Len(History) /\ events[e].type = "member" /\ RemovedByAnother(events[e])}

ConflictedKeys == {KeyOf(events[e]) : e \in all_conflicted}

About(S, u) == {x \in S : KeyOf(events[x]) = Member(u)}

Undisputed(e) ==
  /\ {Levels, <<"join_rules", "">>} \cap ConflictedKeys = {}
  /\ events[forks[1][<<"join_rules", "">>]].content.join_rule # "public"
  /\ \A x \in About(control, events[e].sender) : events[x].content.membership = "join"
  /\ \A x \in About(all_conflicted \ {e}, events[e].state_key) :
       /\ events[x].sender = events[x].state_key
       /\ events[x].content.membership \in {"join", "leave"}
       /\ AfterCreate(PrevRec(events[x].prev)) => x \in events[e].auth

RemovalsHold ==
  pc = "done" =>
    \A e \in Removals : Undisputed(e) =>
      \E ev \in Result(Member(events[e].state_key)) : RemovedByAnother(ev)

(* Removals win over what the removed user did meanwhile.                  *)
RemovalsWin == RemovedUsersChangeNothing /\ RemovalsHold

(* Merging two forks that servers accepted, in a room whose power levels   *)
(* events can all be read, fails in two cases only, both by Err:           *)
(*   - an m.room.third_party_invite event meets power levels that do not   *)
(*     name the level for invites;                                         *)
(*   - a join or an invite meets join rules whose content cannot be read,  *)
(*     and which it does not name itself: such an m.room.join_rules event  *)
(*     is accepted without a look at its content.                          *)
(* auth_check never panics here.                                           *)
MeetsUnreadableRules(e) ==
  /\ events[e].type = "member" /\ events[e].content.membership \in {"join", "invite"}
  /\ \E x \in Range(AuthState(e)) \ events[e].auth :
       events[x].type = "join_rules" /\ events[x].content.join_rule = "unreadable"

MergeFailuresKnown ==
  /\ pc = "error"
  /\ \A e \in DOMAIN events : events[e].type = "power_levels" => events[e].content.valid
  => /\ Answer(Head(queue)) = "error"
     /\ events[Head(queue)].type = "third_party_invite" \/ MeetsUnreadableRules(Head(queue))
=============================================================================
