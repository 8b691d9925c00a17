------------------------------ MODULE PowerSort ------------------------------
(***************************************************************************)
(* reverse_topological_power_sort of ruma-state-res (src/lib.rs): builds   *)
(* the graph of the conflicted power events and the part of their auth     *)
(* chains that lies in the full conflicted set, looks up the power level   *)
(* of every sender, and hands both to lexicographical_topological_sort     *)
(* (module LexTopoSort, whose state and steps this module extends).        *)
(*                                                                         *)
(* `store` is what the caller's fetch_event answers: it has no value for   *)
(* an event the server does not have.  The arguments are the ones that     *)
(* resolve passes: auth_diff is its set of all conflicted events, which it *)
(* has filtered to those that can be fetched, and the events to sort are   *)
(* the power events among them.                                            *)
(***************************************************************************)
EXTENDS LexTopoSort

CONSTANTS
  User,     \* the users that send events
  Event,    \* the events that may occur, a set of event records
  NoEvent   \* not an event: eid before its first assignment

PowerLevelsContent ==
  [well_formed   : BOOLEAN,      \* whether the JSON deserializes
   users         : UNION {[us -> Level] : us \in SUBSET User},
   users_default : Level]

ASSUME NoEventAssumption == NoEvent \notin EventId
ASSUME ZeroAssumption == 0 \in Level
ASSUME EventAssumption ==
  Event \subseteq
    [kind             : {"power_levels", "control", "other"},
     sender           : User,
     auth_events      : Seq(EventId),
     origin_server_ts : Timestamp,
     content          : PowerLevelsContent]

VARIABLES
  store,       \* input: fetch_event, partial: event id -> event record
  auth_diff,   \* input: all_conflicted of resolve
  todo,        \* events_to_sort that add_event_and_auth_chain_to_graph has not seen
  stack,       \* its vector `state`
  eid,         \* the event its while loop is at
  rest,        \* the auth events of eid that its for loop has not seen
  phase        \* "build" while the graph is built, then "sort"

psVars == <<store, auth_diff, todo, stack, eid, rest, phase>>
allVars == <<vars, psVars>>

-----------------------------------------------------------------------------
Stores == UNION {[known -> Event] : known \in SUBSET EventId}

(* is_power_event: power levels, join rules, create, or somebody removing  *)
(* somebody else.                                                          *)
PowerEvents(ids) == {e \in ids : store[e].kind \in {"power_levels", "control"}}

(* fetch_event(e).map(auth_events), flattened: nothing if e is unknown.    *)
AuthEvents(e) == IF e \in DOMAIN store THEN store[e].auth_events ELSE <<>>

IsPowerLevels(e) == e \in DOMAIN store /\ store[e].kind = "power_levels"

(* get_power_level_for_sender: the level that the first power levels event *)
(* among the auth events gives the sender, 0 if there is none.  Auth       *)
(* events that cannot be fetched are skipped.  The index at which its loop *)
(* breaks, as a set of at most one element:                                *)
BreaksAt(e) ==
  {i \in DOMAIN AuthEvents(e) :
     /\ IsPowerLevels(AuthEvents(e)[i])
     /\ \A j \in 1 .. (i - 1) : ~IsPowerLevels(AuthEvents(e)[j])}

LevelsFor(e) == store[AuthEvents(e)[CHOOSE i \in BreaksAt(e) : TRUE]].content

LevelReadable(e) == BreaksAt(e) # {} => LevelsFor(e).well_formed

SenderLevel(e) ==
  IF BreaksAt(e) = {}
  THEN 0
  ELSE IF e \in DOMAIN store /\ store[e].sender \in DOMAIN LevelsFor(e).users
       THEN LevelsFor(e).users[store[e].sender]
       ELSE LevelsFor(e).users_default

-----------------------------------------------------------------------------
InitPS ==
  /\ store \in Stores
  /\ auth_diff \in SUBSET DOMAIN store
  /\ todo = PowerEvents(auth_diff)
  /\ stack = <<>>
  /\ eid = NoEvent
  /\ rest = <<>>
  /\ phase = "build"
  /\ graph = <<>>
  /\ key = <<>>
  /\ out = <<>>
  /\ heap = {}
  /\ sorted = <<>>
  /\ pc = "start"

(* add_event_and_auth_chain_to_graph is called for the next event.  The    *)
(* vector of events comes from a hash set: its order is arbitrary.         *)
AddEvent(e) ==
  /\ phase = "build" /\ rest = <<>> /\ stack = <<>>
  /\ e \in todo
  /\ todo' = todo \ {e}
  /\ stack' = <<e>>
  /\ UNCHANGED <<store, auth_diff, eid, rest, phase, vars>>

(* state.pop(): the event becomes a node, its auth events are to be seen.  *)
(* A node that is there already keeps its edges.                           *)
AsNode(g, e) == [n \in DOMAIN g \cup {e} |-> IF n \in DOMAIN g THEN g[n] ELSE {}]

PopEvent ==
  /\ phase = "build" /\ rest = <<>> /\ stack # <<>>
  /\ eid' = stack[Len(stack)]
  /\ stack' = SubSeq(stack, 1, Len(stack) - 1)
  /\ graph' = AsNode(graph, eid')
  /\ rest' = AuthEvents(eid')
  /\ UNCHANGED <<store, auth_diff, todo, phase, key, out, heap, sorted, pc>>

Conflicted(aid) == aid \in auth_diff

AlwaysNew(aid) == TRUE
NeverNew(aid) == FALSE
NewNode(aid) == aid \notin DOMAIN graph

EdgesOnlyToNew(aid) == IF NewNode(aid) THEN {aid} ELSE {}
NewEdges(aid) == {aid}

ScanAuthEvent ==
  /\ phase = "build" /\ rest # <<>>
  /\ LET aid == Head(rest) IN
     IF Conflicted(aid)
     THEN /\ stack' = IF NewNode(aid) THEN Append(stack, aid) ELSE stack
          /\ graph' = [graph EXCEPT ![eid] = @ \cup NewEdges(aid)]
     ELSE UNCHANGED <<stack, graph>>
  /\ rest' = Tail(rest)
  /\ UNCHANGED <<store, auth_diff, todo, eid, phase, key, out, heap, sorted, pc>>

GraphComplete == phase = "build" /\ todo = {} /\ stack = <<>> /\ rest = <<>>

EventToPl == DOMAIN graph \cap DOMAIN store

(* Levels that cannot be read end the sort; otherwise the sort starts.     *)
LookUpLevels ==
  /\ GraphComplete
  /\ \A n \in DOMAIN graph : LevelReadable(n)
  /\ key' = [n \in EventToPl |-> <<SenderLevel(n), store[n].origin_server_ts>>]
  /\ phase' = "sort"
  /\ UNCHANGED <<store, auth_diff, todo, stack, eid, rest, graph, out, heap, sorted, pc>>

LookUpFails ==
  /\ GraphComplete
  /\ \E n \in DOMAIN graph : ~LevelReadable(n)
  /\ phase' = "sort"
  /\ pc' = "error"
  /\ UNCHANGED <<store, auth_diff, todo, stack, eid, rest, graph, key, out, heap, sorted>>

SortStep ==
  /\ phase = "sort"
  /\ Next
  /\ UNCHANGED psVars

NextPS ==
  \/ \E e \in todo : AddEvent(e)
  \/ PopEvent
  \/ ScanAuthEvent
  \/ LookUpLevels
  \/ LookUpFails
  \/ SortStep

SpecPS == InitPS /\ [][NextPS]_allVars /\ WF_allVars(NextPS)

-----------------------------------------------------------------------------
TypeOKPS ==
  /\ store \in Stores
  /\ auth_diff \subseteq DOMAIN store
  /\ todo \subseteq auth_diff
  /\ stack \in Seq(auth_diff)
  /\ eid \in auth_diff \cup {NoEvent}
  /\ rest \in Seq(EventId)
  /\ phase \in {"build", "sort"}
  /\ graph \in [DOMAIN graph -> SUBSET auth_diff] /\ DOMAIN graph \subseteq auth_diff
  /\ key \in Keys
  /\ pc \in {"start", "loop", "done", "error"}

(* The auth events of e within the full conflicted set.                    *)
AuthInDiff(e) == Range(AuthEvents(e)) \cap auth_diff

(* A set of events that contains the power events and, with an event, its  *)
(* conflicted auth events.                                                 *)
IsAuthClosed(S) ==
  /\ PowerEvents(auth_diff) \subseteq S
  /\ \A e \in S \cap auth_diff : AuthInDiff(e) \subseteq S

(* The graph that is sorted has exactly the conflicted auth chains of the  *)
(* power events as nodes (it is auth closed, and no smaller set is), and   *)
(* exactly their auth relation as edges, however the events are visited.   *)
GraphIsAuthChains ==
  phase = "sort" =>
    /\ \A n \in DOMAIN graph : graph[n] = AuthInDiff(n)
    /\ IsAuthClosed(DOMAIN graph)
    /\ \A S \in SUBSET EventId : IsAuthClosed(S) => DOMAIN graph \subseteq S

(* No power event of the conflicted set is missing from a sort, unless the *)
(* auth events form a cycle.                                               *)
PowerEventsAllSorted ==
  pc = "done" /\ WellFounded(graph) => PowerEvents(auth_diff) \subseteq Range(sorted)

(* An event is sorted after each of its auth events that is in conflict:   *)
(* iterative_auth_check then finds the outcome of those already decided.   *)
AuthEventsFirst ==
  \A i \in DOMAIN sorted : AuthInDiff(sorted[i]) \subseteq Emitted(i)

(* The sort fails for one reason only: a power levels event that does not  *)
(* deserialize.  In particular the sort's key function always answers.     *)
FailsOnlyOnBadLevels ==
  pc = "error" => \E n \in DOMAIN graph : ~LevelReadable(n)

(* The sort ends, even when auth events form a cycle.                      *)
TerminatesPS == <>(pc \in {"done", "error"})

(* While the graph grows: an edge leads to a node or to an event that is   *)
(* still on the stack, and a node other than the one being looked at has   *)
(* all its edges.                                                          *)
Unseen == IF rest = <<>> THEN {} ELSE {eid}

BuildConsistent ==
  phase = "build" =>
    /\ pc = "start" /\ sorted = <<>> /\ heap = {}
    /\ Unseen \subseteq DOMAIN graph
    /\ \A n \in DOMAIN graph : graph[n] \subseteq DOMAIN graph \cup Range(stack)
    /\ \A n \in DOMAIN graph \ Unseen : graph[n] = AuthInDiff(n)
    /\ rest # <<>> => graph[eid] \cup (Range(rest) \cap auth_diff) = AuthInDiff(eid)
    /\ PowerEvents(auth_diff) \subseteq DOMAIN graph \cup Range(stack) \cup todo
    /\ \A S \in SUBSET EventId : IsAuthClosed(S) =>
         DOMAIN graph \cup Range(stack) \cup todo \subseteq S
=============================================================================
