------------------------------ MODULE StateRes ------------------------------
(***************************************************************************)
(* resolve of ruma-state-res (src/lib.rs): separates the state that all    *)
(* forks of a room agree on from the conflicted rest, sorts and checks the *)
(* power events, then the other conflicted events, and puts the agreed     *)
(* state on top.                                                           *)
(*                                                                         *)
(* The two sorts appear by what they promise: the order that PowerSort     *)
(* returns (GraphIsAuthChains, AuthEventsFirst) and the events that        *)
(* MainlineSort may leave out or fail on (LeftOutOnlyIfMissing,            *)
(* FailsOnlyIfMissing).  Module EventAuth says what auth_check answers;    *)
(* here it may allow or refuse any event, or fail.                         *)
(***************************************************************************)
EXTENDS Integers, Sequences, FiniteSets, Functions

CONSTANTS
  EventId,      \* the event ids that may occur
  Key,          \* (event type, state key) pairs
  PowerLevels,  \* the key of m.room.power_levels, in Key
  NoKey,        \* the key of an event that has no state_key
  Event         \* the events that may occur, a set of event records

ASSUME EventIdAssumption == IsFiniteSet(EventId)
ASSUME KeyAssumption == PowerLevels \in Key /\ NoKey \notin Key
ASSUME EventAssumption ==
  Event \subseteq [key : Key \cup {NoKey},
                   power : BOOLEAN,            \* is_power_event
                   levels_readable : BOOLEAN,  \* get_power_level_for_sender succeeds
                   auth_events : SUBSET EventId]
ASSUME PowerAssumption == \A ev \in Event : ev.key = PowerLevels => ev.power

VARIABLES
  store,           \* input: fetch_event, partial: event id -> event record
  state_sets,      \* input: the forks, a sequence of partial maps Key -> EventId
  auth_chain_sets, \* input: a set of event ids for each fork
  version_known,   \* input: RoomVersion::new(room_version) succeeds
  clean,           \* the unconflicted state
  all_conflicted,  \* the full conflicted set
  control,         \* deduped_power_ev
  queue,           \* events_to_check that iterative_auth_check has not seen
  checked,         \* the events it has seen, in order, with its verdict
  resolved,        \* resolved_state
  pc               \* "start", "control", "rest", "done" (Ok) or "error" (Err)

inputs == <<store, state_sets, auth_chain_sets, version_known>>
vars == <<inputs, clean, all_conflicted, control, queue, checked, resolved, pc>>

-----------------------------------------------------------------------------
PartialMap(D, R) == UNION {[ks -> R] : ks \in SUBSET D}

(* separate: the keys for which every fork has the same event.             *)
Keys == UNION {DOMAIN state_sets[i] : i \in DOMAIN state_sets}

Agreed ==
  {k \in Keys : \A i, j \in DOMAIN state_sets :
     /\ k \in DOMAIN state_sets[i]
     /\ state_sets[i][k] = state_sets[j][k]}

Conflicting ==
  UNION {{state_sets[i][k] : k \in DOMAIN state_sets[i] \ Agreed} : i \in DOMAIN state_sets}

(* get_auth_chain_diff: the events in some auth chains but not in all.     *)
AuthChainDiff ==
  (UNION Range(auth_chain_sets)) \
    {e \in EventId : \A i \in DOMAIN auth_chain_sets : e \in auth_chain_sets[i]}

(* "Don't honor events we cannot verify".                                  *)
FullConflictedSet == (AuthChainDiff \cup Conflicting) \cap DOMAIN store

-----------------------------------------------------------------------------
(* What reverse_topological_power_sort returns: the conflicted auth chains *)
(* of the power events, every event after its conflicted auth events.      *)
AuthWithin(conflicted, e) == store[e].auth_events \cap conflicted

AuthClosed(conflicted, S) ==
  /\ {p \in conflicted : store[p].power} \subseteq S
  /\ \A e \in S : AuthWithin(conflicted, e) \subseteq S

ControlEvents(conflicted) ==
  {e \in conflicted : \A S \in SUBSET conflicted : AuthClosed(conflicted, S) => e \in S}

(* The vectors that hold each element of S once.                           *)
Orders(S) == {s \in [1 .. Cardinality(S) -> S] : Range(s) = S /\ IsInjective(s)}

PowerOrders(conflicted) ==
  {s \in Orders(ControlEvents(conflicted)) :
     \A i \in DOMAIN s : AuthWithin(conflicted, s[i]) \subseteq {s[j] : j \in 1 .. (i - 1)}}

(* The events whose auth chain is known to the last event.                 *)
ChainKnown(e) ==
  \E S \in SUBSET DOMAIN store : e \in S /\ \A s \in S : store[s].auth_events \subseteq S

-----------------------------------------------------------------------------
Init ==
  /\ \E known \in SUBSET EventId : store \in [known -> Event]
  /\ {S \in SUBSET DOMAIN store : \A e \in S : store[e].auth_events \cap S # {}} = {{}}
  /\ state_sets \in Seq(PartialMap(Key, EventId))
  /\ \A i \in DOMAIN state_sets : \A k \in DOMAIN state_sets[i] :
       state_sets[i][k] \in DOMAIN store => store[state_sets[i][k]].key = k
  /\ auth_chain_sets \in Seq(SUBSET EventId)
  /\ version_known \in BOOLEAN
  /\ clean = <<>>
  /\ all_conflicted = {}
  /\ control = {}
  /\ queue = <<>>
  /\ checked = <<>>
  /\ resolved = <<>>
  /\ pc = "start"

Separated == clean' = [k \in Agreed |-> state_sets[1][k]]

(* Nothing conflicts.                                                      *)
NoConflict ==
  /\ pc = "start"
  /\ Keys = Agreed
  /\ Separated
  /\ resolved' = clean'
  /\ pc' = "done"
  /\ UNCHANGED <<inputs, all_conflicted, control, queue, checked>>

(* The power events are sorted, to be checked on top of the clean state.   *)
SortControl ==
  /\ pc = "start"
  /\ Keys # Agreed
  /\ Separated
  /\ all_conflicted' = FullConflictedSet
  /\ control' = ControlEvents(FullConflictedSet)
  /\ resolved' = clean'
  /\ IF version_known /\ \A e \in control' : store[e].levels_readable
     THEN queue' \in PowerOrders(FullConflictedSet) /\ pc' = "control"
     ELSE queue' = <<>> /\ pc' = "error"
  /\ UNCHANGED <<inputs, checked>>

NoStateEvent(e) ==
  \E a \in {e} \cup (store[e].auth_events \cap DOMAIN store) : store[a].key = NoKey

Insert(state, e) ==
  [k \in DOMAIN state \cup {store[e].key} |-> IF k = store[e].key THEN e ELSE state[k]]

InsertAnyway(allowed) == resolved' = Insert(resolved, Head(queue))
InsertIfAllowed(allowed) ==
  resolved' = IF allowed THEN Insert(resolved, Head(queue)) ELSE resolved

Check(allowed) ==
  /\ pc \in {"control", "rest"}
  /\ queue # <<>>
  /\ ~NoStateEvent(Head(queue))
  /\ InsertIfAllowed(allowed)
  /\ queue' = Tail(queue)
  /\ checked' = Append(checked, [id |-> Head(queue), allowed |-> allowed])
  /\ UNCHANGED <<inputs, clean, all_conflicted, control, pc>>

CheckFails ==
  /\ pc \in {"control", "rest"}
  /\ queue # <<>>
  /\ pc' = "error"
  /\ UNCHANGED <<inputs, clean, all_conflicted, control, queue, checked, resolved>>

(* The other conflicted events are sorted by the mainline of the resolved  *)
(* power levels event.                                                     *)
AllConflicted == all_conflicted
EventsToResolve == all_conflicted \ control

MainlineFails ==
  /\ EventsToResolve # {}
  /\ PowerLevels \in DOMAIN resolved
  /\ ~ChainKnown(resolved[PowerLevels])

SortRest ==
  /\ pc = "control"
  /\ queue = <<>>
  /\ \E T \in SUBSET EventsToResolve :
       /\ \A e \in EventsToResolve \ T : ~ChainKnown(e)
       /\ queue' \in Orders(T)
  /\ pc' = "rest"
  /\ UNCHANGED <<inputs, clean, all_conflicted, control, checked, resolved>>

SortRestFails ==
  /\ pc = "control"
  /\ queue = <<>>
  /\ MainlineFails
  /\ pc' = "error"
  /\ UNCHANGED <<inputs, clean, all_conflicted, control, queue, checked, resolved>>

(* resolved_state.extend(clean).                                           *)
NotExtended == resolved
Extended ==
  [k \in DOMAIN resolved \cup DOMAIN clean |-> IF k \in DOMAIN clean THEN clean[k] ELSE resolved[k]]

Finish ==
  /\ pc = "rest"
  /\ queue = <<>>
  /\ resolved' = Extended
  /\ pc' = "done"
  /\ UNCHANGED <<inputs, clean, all_conflicted, control, queue, checked>>

Next ==
  \/ NoConflict
  \/ SortControl
  \/ \E allowed \in BOOLEAN : Check(allowed)
  \/ CheckFails
  \/ SortRest
  \/ SortRestFails
  \/ Finish

Spec == Init /\ [][Next]_vars

-----------------------------------------------------------------------------
TypeOK ==
  /\ all_conflicted \subseteq DOMAIN store
  /\ control \subseteq all_conflicted
  /\ clean \in PartialMap(Key, EventId)
  /\ resolved \in PartialMap(Key, EventId)
  /\ queue \in Seq(all_conflicted)
  /\ checked \in Seq([id : all_conflicted, allowed : BOOLEAN])
  /\ pc \in {"start", "control", "rest", "done", "error"}

(* What every fork of the room agrees on is in the result unchanged, even  *)
(* if an event of the auth chains has the same key and was allowed.        *)
UnconflictedStateKept ==
  pc = "done" =>
    \A k \in Agreed : k \in DOMAIN resolved /\ resolved[k] = state_sets[1][k]

(* The last allowed event of the conflicted ones wins its key; a key whose *)
(* events were all refused has no event; nothing else enters the result.   *)
IsLastAllowed(e, k) ==
  \E i \in DOMAIN checked :
    /\ checked[i] = [id |-> e, allowed |-> TRUE]
    /\ store[e].key = k
    /\ \A j \in (i + 1) .. Len(checked) : checked[j].allowed => store[checked[j].id].key # k

LastAllowedWins ==
  pc = "done" =>
    /\ \A k \in DOMAIN resolved \ Agreed : IsLastAllowed(resolved[k], k)
    /\ \A i \in DOMAIN checked : checked[i].allowed => store[checked[i].id].key \in DOMAIN resolved

(* Every conflicted event is checked once at most, and an event with a     *)
(* known auth chain is never passed over.                                  *)
EachCheckedOnce ==
  /\ \A i, j \in DOMAIN checked : i # j => checked[i].id # checked[j].id
  /\ pc = "done" =>
       \A e \in all_conflicted : ChainKnown(e) => \E i \in DOMAIN checked : checked[i].id = e

(* The power levels event whose mainline orders the remaining events stays *)
(* the resolved one while those are checked.                               *)
PowerLevelsOf(state) == {state[k] : k \in DOMAIN state \cap {PowerLevels}}

PowerLevelsSettled ==
  [][pc = "rest" /\ pc' = "rest" => PowerLevelsOf(resolved') = PowerLevelsOf(resolved)]_vars

=============================================================================
