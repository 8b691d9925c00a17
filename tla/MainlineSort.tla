---------------------------- MODULE MainlineSort ----------------------------
(***************************************************************************)
(* mainline_sort and get_mainline_depth of ruma-state-res (src/lib.rs).    *)
(* The mainline is the chain of power levels events that starts at the     *)
(* resolved one and follows auth events; every other event is sorted by    *)
(* the mainline event that its own chain of power levels events meets      *)
(* first, then by timestamp and id.                                        *)
(*                                                                         *)
(* `store` is what fetch_event answers.  The arguments are the ones that   *)
(* resolve passes: it keeps only events that can be fetched in to_sort,    *)
(* and takes the power events out, power levels among them, but the        *)
(* resolved power levels event may be one that cannot be fetched.  Auth    *)
(* events never form a cycle: an event names existing events by their      *)
(* hash.                                                                   *)
(***************************************************************************)
EXTENDS Integers, Sequences, FiniteSets, Functions

CONSTANTS
  EventId,      \* the event ids that may occur, a set of integers
  Event,        \* the events that may occur, a set of event records
  NoEvent       \* not an event: the None of an Option

ASSUME EventIdAssumption == EventId \subseteq Int /\ IsFiniteSet(EventId)
ASSUME NoEventAssumption == NoEvent \notin EventId
ASSUME EventAssumption ==
  Event \subseteq [power_levels : BOOLEAN,     \* is_type_and_key(m.room.power_levels, "")
                   auth_events : Seq(EventId),
                   origin_server_ts : Int]

VARIABLES
  store,       \* input: fetch_event, partial: event id -> event record
  to_sort,     \* input: the events to sort
  resolved,    \* input: resolved_power_level
  mainline,    \* the mainline so far, the newest event first
  pl,          \* the event the mainline continues with, or NoEvent
  todo,        \* the events of to_sort that have not been looked at
  ev_id,       \* the event whose depth is looked for, or NoEvent
  event,       \* the event the search for its depth has reached
  order_map,   \* event -> depth, for the events whose depth was found
  sorted,      \* the vector that is returned
  pc           \* "start", "mainline", "depths", "done" (Ok) or "error" (Err)

vars == <<store, to_sort, resolved, mainline, pl, todo, ev_id, event, order_map, sorted, pc>>
inputs == <<store, to_sort, resolved>>

-----------------------------------------------------------------------------
StoreType == \E known \in SUBSET EventId : store \in [known -> Event]

(* Auth events form no cycle: no events all name one of themselves.        *)
Acyclic ==
  {S \in SUBSET DOMAIN store :
     \A e \in S : Range(store[e].auth_events) \cap S # {}} = {{}}

(* Both walks read the auth events of a fetched event in order.  They stop *)
(* at the first one that cannot be fetched, with an error, or that is a    *)
(* power levels event, which they go on with.  The index at which event e  *)
(* stops them, as a set of at most one element:                            *)
Stops(a) == a \notin DOMAIN store \/ store[a].power_levels

StopsAt(e) ==
  {i \in DOMAIN store[e].auth_events :
     /\ Stops(store[e].auth_events[i])
     /\ \A j \in 1 .. (i - 1) : ~Stops(store[e].auth_events[j])}

StopsWith(e) == {store[e].auth_events[i] : i \in StopsAt(e)}

Fails(e) == ~(StopsWith(e) \subseteq DOMAIN store)

Parent(e) == IF StopsWith(e) = {} THEN NoEvent ELSE CHOOSE p \in StopsWith(e) : TRUE

-----------------------------------------------------------------------------
Init ==
  /\ StoreType
  /\ Acyclic
  /\ to_sort \in SUBSET {e \in DOMAIN store : ~store[e].power_levels}
  /\ resolved \in EventId \cup {NoEvent}
  /\ resolved \in DOMAIN store => store[resolved].power_levels
  /\ mainline = <<>>
  /\ pl = NoEvent
  /\ todo = {}
  /\ ev_id = NoEvent
  /\ event = NoEvent
  /\ order_map = <<>>
  /\ sorted = <<>>
  /\ pc = "start"

(* There is nothing to sort.                                               *)
Bail ==
  /\ pc = "start"
  /\ to_sort = {}
  /\ pc' = "done"
  /\ UNCHANGED <<inputs, mainline, pl, todo, ev_id, event, order_map, sorted>>

Begin ==
  /\ pc = "start"
  /\ to_sort # {}
  /\ pl' = resolved
  /\ pc' = "mainline"
  /\ UNCHANGED <<inputs, mainline, todo, ev_id, event, order_map, sorted>>

Extend ==
  /\ pc = "mainline"
  /\ pl # NoEvent
  /\ mainline' = Append(mainline, pl)
  /\ IF pl \in DOMAIN store /\ ~Fails(pl)
     THEN pl' = Parent(pl) /\ pc' = pc
     ELSE pl' = pl /\ pc' = "error"
  /\ UNCHANGED <<inputs, todo, ev_id, event, order_map, sorted>>

MainlineComplete ==
  /\ pc = "mainline"
  /\ pl = NoEvent
  /\ todo' = to_sort
  /\ pc' = "depths"
  /\ UNCHANGED <<inputs, mainline, pl, ev_id, event, order_map, sorted>>

(* mainline_map: the position counted from the oldest event, which has 0.  *)
FromNewest(m) == (CHOOSE i \in DOMAIN mainline : mainline[i] = m) - 1
MainlineDepth(m) == Len(mainline) - (CHOOSE i \in DOMAIN mainline : mainline[i] = m)

NextEvent(e) ==
  /\ pc = "depths"
  /\ ev_id = NoEvent
  /\ e \in todo
  /\ todo' = todo \ {e}
  /\ ev_id' = e
  /\ event' = e
  /\ UNCHANGED <<inputs, mainline, pl, order_map, sorted, pc>>

(* get_mainline_depth answers; the for loop notes the depth.               *)
NoteDepth(depth) ==
  /\ order_map' = [e \in DOMAIN order_map \cup {ev_id} |->
                     IF e = ev_id THEN depth ELSE order_map[e]]
  /\ ev_id' = NoEvent
  /\ event' = NoEvent
  /\ UNCHANGED <<inputs, mainline, pl, todo, sorted, pc>>

MeetsMainline ==
  /\ pc = "depths"
  /\ event \in Range(mainline)
  /\ NoteDepth(MainlineDepth(event))

FollowPastMainline ==
  /\ pc = "depths" /\ event \in DOMAIN store /\ ~Fails(event) /\ Parent(event) # NoEvent
  /\ event' = Parent(event)
  /\ UNCHANGED <<inputs, mainline, pl, todo, ev_id, order_map, sorted, pc>>

FollowParent ==
  /\ pc = "depths"
  /\ event \in DOMAIN store \ Range(mainline)
  /\ ~Fails(event)
  /\ Parent(event) # NoEvent
  /\ event' = Parent(event)
  /\ UNCHANGED <<inputs, mainline, pl, todo, ev_id, order_map, sorted, pc>>

NoPowerLevelsLeftOut ==
  /\ pc = "depths" /\ event \in DOMAIN store \ Range(mainline) /\ Parent(event) = NoEvent
  /\ ev_id' = NoEvent /\ event' = NoEvent
  /\ UNCHANGED <<inputs, mainline, pl, todo, order_map, sorted, pc>>

NoPowerLevels ==
  /\ pc = "depths"
  /\ event \in DOMAIN store \ Range(mainline)
  /\ Parent(event) = NoEvent
  /\ NoteDepth(0)

(* get_mainline_depth fails: the event is left out of order_map.           *)
LeaveOut ==
  /\ pc = "depths"
  /\ event \in DOMAIN store \ Range(mainline)
  /\ Fails(event)
  /\ ev_id' = NoEvent
  /\ event' = NoEvent
  /\ UNCHANGED <<inputs, mainline, pl, todo, order_map, sorted, pc>>

(* The order of sort_by_key: depth, timestamp, id.                         *)
Precedes(a, b) ==
  \/ order_map[a] < order_map[b]
  \/ /\ order_map[a] = order_map[b]
     /\ \/ store[a].origin_server_ts < store[b].origin_server_ts
        \/ store[a].origin_server_ts = store[b].origin_server_ts /\ a < b

Return ==
  /\ pc = "depths"
  /\ ev_id = NoEvent
  /\ todo = {}
  /\ \E s \in [1 .. Cardinality(DOMAIN order_map) -> DOMAIN order_map] :
       /\ \A i, j \in DOMAIN s : i < j => Precedes(s[i], s[j])
       /\ sorted' = s
  /\ pc' = "done"
  /\ UNCHANGED <<inputs, mainline, pl, todo, ev_id, event, order_map>>

Next ==
  \/ Bail
  \/ Begin
  \/ Extend
  \/ MainlineComplete
  \/ \E e \in todo : NextEvent(e)
  \/ MeetsMainline
  \/ FollowParent
  \/ NoPowerLevels
  \/ LeaveOut
  \/ Return

Spec == Init /\ [][Next]_vars /\ WF_vars(Next)

-----------------------------------------------------------------------------
TypeOK ==
  /\ StoreType
  /\ to_sort \subseteq DOMAIN store
  /\ resolved \in EventId \cup {NoEvent}
  /\ mainline \in Seq(EventId)
  /\ pl \in EventId \cup {NoEvent}
  /\ todo \subseteq to_sort
  /\ ev_id \in to_sort \cup {NoEvent}
  /\ event \in DOMAIN store \cup {NoEvent}
  /\ DOMAIN order_map \subseteq to_sort
  /\ \A e \in DOMAIN order_map : order_map[e] \in Nat
  /\ sorted \in Seq(to_sort)
  /\ pc \in {"start", "mainline", "depths", "done", "error"}

(* The events that a walk along power levels events visits from e until it *)
(* meets the mainline, fails or finds no more: the least set that holds e  *)
(* and, with an event the walk goes on from, the one it goes on to.        *)
GoesOn(f) == f \in DOMAIN store \ Range(mainline) /\ ~Fails(f) /\ Parent(f) # NoEvent

ClosedWalk(S) == \A f \in S : GoesOn(f) => Parent(f) \in S

Visited(e) ==
  {f \in EventId : \A S \in SUBSET EventId : e \in S /\ ClosedWalk(S) => f \in S}

(* The mainline event that the walk from e meets first, if it meets one.   *)
Nearest(e) == Visited(e) \cap Range(mainline)

(* The mainline is one unbroken chain of power levels events from the      *)
(* resolved one, and reaches back to an event that names none.             *)
MainlineIsChain ==
  /\ mainline # <<>> => mainline[1] = resolved
  /\ \A i \in 1 .. (Len(mainline) - 1) : mainline[i + 1] = Parent(mainline[i])
  /\ pc = "depths" /\ mainline # <<>> => Parent(mainline[Len(mainline)]) = NoEvent
  /\ pc = "depths" /\ resolved # NoEvent => mainline # <<>>

(* get_mainline_depth computes what it should: the depth of the nearest    *)
(* mainline event, 0 for an event without one.                             *)
DepthIsNearest ==
  \A e \in DOMAIN order_map :
    \/ \E m \in Nearest(e) : order_map[e] = MainlineDepth(m)
    \/ Nearest(e) = {} /\ order_map[e] = 0

(* The mainline and the depths are those the events define, whatever order *)
(* the events are walked in.                                               *)
DepthsAreRight == MainlineIsChain /\ DepthIsNearest

(* An event is missing from the result only if its chain of power levels   *)
(* events leads to an auth event that cannot be fetched.                   *)
LeftOutOnlyIfMissing ==
  pc = "done" =>
    \A e \in to_sort \ Range(sorted) :
      Nearest(e) = {} /\ \E f \in Visited(e) : Fails(f)

(* Events under older power levels are returned before events under newer  *)
(* ones: if a later event is under mainline[n] and an earlier one under    *)
(* mainline[m], which names the power levels it replaces after itself,     *)
(* then mainline[m] is not the newer of the two.                           *)
OlderLevelsFirst ==
  \A i, j \in DOMAIN sorted : \A m, n \in DOMAIN mainline :
    /\ i < j
    /\ mainline[m] \in Nearest(sorted[i])
    /\ mainline[n] \in Nearest(sorted[j])
    => m >= n

(* The whole resolution fails here for one reason only: an event of the    *)
(* mainline, or an auth event that it names, cannot be fetched.            *)
FailsOnlyIfMissing ==
  pc = "error" =>
    LET last == mainline[Len(mainline)] IN
    last \notin DOMAIN store \/ Fails(last)

(* Nothing is lost, and the resolution does not fail, over anything but    *)
(* events that cannot be fetched: neither a missing chain of power levels  *)
(* events nor an event without any counts as an error.                     *)
LossOnlyIfMissing == LeftOutOnlyIfMissing /\ FailsOnlyIfMissing
=============================================================================
