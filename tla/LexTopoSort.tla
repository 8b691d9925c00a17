----------------------------- MODULE LexTopoSort -----------------------------
(***************************************************************************)
(* lexicographical_topological_sort of ruma-state-res (src/lib.rs): Kahn's *)
(* algorithm over a graph whose edges point from an event to the events it *)
(* depends on, with a heap that breaks ties by (negated power level, age,  *)
(* event id).                                                              *)
(*                                                                         *)
(* Event ids are integers, their order standing for the lexicographic      *)
(* order of the real ids.  The input (`graph` and what `key_fn` answers)   *)
(* is chosen in Init and never changes; `key` is `key_fn`: it has no value *)
(* for an event whose key cannot be computed (key_fn returns Err).         *)
(***************************************************************************)
EXTENDS Integers, Sequences, FiniteSets, Functions

CONSTANTS
  EventId,      \* the event ids that may occur, a set of integers
  Level,        \* the power levels that may occur, a set of integers
  Timestamp     \* the origin_server_ts values that may occur

ASSUME EventIdAssumption == EventId \subseteq Int
ASSUME LevelAssumption == Level \subseteq Int
ASSUME TimestampAssumption == Timestamp \subseteq Int

VARIABLES
  graph,    \* input: event -> the set of events it refers to
  key,      \* input: key_fn, partial: event -> <<power level, age>>
  out,      \* outdegree_map: the edges of each node not yet cleared
  heap,     \* the BinaryHeap, as the set of its TieBreaker items
  sorted,   \* the vector that is returned
  pc        \* "start", "loop", "done" (Ok) or "error" (Err)

vars == <<graph, key, out, heap, sorted, pc>>

-----------------------------------------------------------------------------
(* Inputs.  The function is public: edges may dangle or form cycles.       *)

Graphs == UNION {[nodes -> SUBSET EventId] : nodes \in SUBSET EventId}
Keys == UNION {[known -> Level \X Timestamp] : known \in SUBSET EventId}

TieBreaker(e, k) == [inv_power_level |-> -key[k][1], age |-> key[k][2], event_id |-> e]

(* The derived Ord of TieBreaker: field by field, in declaration order.    *)
Before(a, b) ==
  \/ a.inv_power_level < b.inv_power_level
  \/ /\ a.inv_power_level = b.inv_power_level
     /\ \/ a.age < b.age
        \/ a.age = b.age /\ a.event_id < b.event_id

(* reverse_graph[e]: the nodes that have an edge to e.                     *)
Parents(e) == {p \in DOMAIN graph : e \in graph[p]}

-----------------------------------------------------------------------------
Init ==
  /\ graph \in Graphs
  /\ key \in Keys
  /\ out = <<>>
  /\ heap = {}
  /\ sorted = <<>>
  /\ pc = "start"

AllNodes == DOMAIN graph
Leaves == {n \in DOMAIN graph : graph[n] = {}}

(* The first loop: nodes without edges go on the heap under their own key. *)
Setup ==
  /\ pc = "start"
  /\ Leaves \subseteq DOMAIN key
  /\ out' = graph
  /\ heap' = {TieBreaker(n, n) : n \in Leaves}
  /\ pc' = "loop"
  /\ UNCHANGED <<graph, key, sorted>>

SetupFails ==
  /\ pc = "start"
  /\ ~(Leaves \subseteq DOMAIN key)
  /\ pc' = "error"
  /\ UNCHANGED <<graph, key, out, heap, sorted>>

(* The parents of e that have no other edge left: popping e releases them. *)
ReleasedByAnyEdge(e) == Parents(e)
ReleasedTooLate(e) == {p \in Parents(e) : out[p] = {}}
Released(e) == {p \in Parents(e) : out[p] \ {e} = {}}

(* heap.pop() answers the smallest item.                                   *)
AnyItem(item) == item \in heap
IsNext(item) == item \in heap /\ \A other \in heap \ {item} : Before(item, other)

(* One round of the `while let` loop.  The smallest item is popped, its    *)
(* edge removed from every parent, and each released parent is pushed.     *)
(* The key of the pushed item is key_fn(node): the key of the node just    *)
(* popped, not that of the parent.                                         *)
PopNode(item) ==
  LET node == item.event_id IN
  /\ pc = "loop"
  /\ IsNext(item)
  /\ Released(node) # {} => node \in DOMAIN key
  /\ out' = [p \in DOMAIN graph |-> IF p \in Parents(node) THEN out[p] \ {node} ELSE out[p]]
  /\ heap' = (heap \ {item}) \cup {TieBreaker(p, node) : p \in Released(node)}
  /\ sorted' = Append(sorted, node)
  /\ UNCHANGED <<graph, key, pc>>

(* key_fn(node) fails while a released parent is being pushed.             *)
PopFails(item) ==
  /\ pc = "loop"
  /\ IsNext(item)
  /\ Released(item.event_id) # {}
  /\ item.event_id \notin DOMAIN key
  /\ pc' = "error"
  /\ UNCHANGED <<graph, key, out, heap, sorted>>

ReturnWhenComplete == pc = "loop" /\ Len(sorted) = Cardinality(DOMAIN graph)
                      /\ pc' = "done" /\ UNCHANGED <<graph, key, out, heap, sorted>>
Return ==
  /\ pc = "loop"
  /\ heap = {}
  /\ pc' = "done"
  /\ UNCHANGED <<graph, key, out, heap, sorted>>

Next ==
  \/ Setup
  \/ SetupFails
  \/ \E item \in heap : PopNode(item)
  \/ \E item \in heap : PopFails(item)
  \/ Return

Fairness == WF_vars(Next)

Spec == Init /\ [][Next]_vars /\ Fairness

-----------------------------------------------------------------------------
TypeOK ==
  /\ graph \in Graphs
  /\ key \in Keys
  /\ pc \in {"start", "loop", "done", "error"}
  /\ pc \in {"loop", "done"} => out \in [DOMAIN graph -> SUBSET EventId]
  /\ heap \subseteq [inv_power_level : {-l : l \in Level},
                     age : Timestamp, event_id : DOMAIN graph]
  /\ sorted \in Seq(DOMAIN graph)

(* No event is placed before an event it refers to.                        *)
TopologicalOrder ==
  \A i \in DOMAIN sorted : \A dep \in graph[sorted[i]] :
    \E j \in 1 .. (i - 1) : sorted[j] = dep

(* No event is returned twice, although it is pushed from within the loop  *)
(* over the parents of other events.                                       *)
NoEventTwice == IsInjective(sorted)

(* The graph has no cycle: every set of nodes has a member without an edge *)
(* into the set.                                                           *)
WellFounded(g) ==
  \A S \in SUBSET DOMAIN g : S # {} => \E n \in S : g[n] \cap S = {}

Closed(g) == \A n \in DOMAIN g : g[n] \subseteq DOMAIN g

(* A sort of an acyclic graph without dangling edges loses no event.       *)
NothingLost ==
  pc = "done" /\ WellFounded(graph) /\ Closed(graph)
    => Range(sorted) = DOMAIN graph

(* What a sort may lose: an event is missing from a returned vector only   *)
(* if one of the events it refers to is missing as well (a dangling edge   *)
(* or a cycle).                                                            *)
LostOnlyIfStuck ==
  pc = "done" => \A n \in DOMAIN graph \ Range(sorted) : ~(graph[n] \subseteq Range(sorted))

(* The inductive invariant behind the safety properties: while the loop    *)
(* runs, the map of remaining edges and the set of heap entries are what   *)
(* the input graph and the vector built so far say they should be.         *)
Ready == {n \in DOMAIN graph \ Range(sorted) : graph[n] \subseteq Range(sorted)}

HeapConsistent ==
  /\ pc = "start" => sorted = <<>> /\ heap = {}
  /\ pc \in {"loop", "done"} =>
       /\ out = [n \in DOMAIN graph |-> graph[n] \ Range(sorted)]
       /\ {item.event_id : item \in heap} = Ready
       /\ \A a, b \in heap : a.event_id = b.event_id => a = b
  /\ pc = "done" => heap = {}

(* The events that had been returned before position i.                    *)
Emitted(i) == {sorted[k] : k \in 1 .. (i - 1)}

(* The event at position j could already have been returned at position i. *)
ReadyAt(j, i) == graph[sorted[j]] \subseteq Emitted(i)

(* The item under which the event at position j went on the heap: its own  *)
(* key if it has no edges, else the key of the last of its edges to clear. *)
PushedAs(j) ==
  IF graph[sorted[j]] = {}
  THEN TieBreaker(sorted[j], sorted[j])
  ELSE LET last == CHOOSE i \in 1 .. (j - 1) :
                     sorted[i] \in graph[sorted[j]] /\ ReadyAt(j, i + 1)
       IN  TieBreaker(sorted[j], sorted[last])

(* The order the code computes: of two events that were both available,    *)
(* the one whose pushed item is smaller comes first.  With                 *)
(* TopologicalOrder it determines the returned vector, so the random       *)
(* iteration order of the hash maps cannot show.                           *)
TieBreakOrder ==
  \A i, j \in DOMAIN sorted :
    i < j /\ ReadyAt(j, i) => Before(PushedAs(i), PushedAs(j))

(* The order the comments of the function promise (src/lib.rs: "`key_fn`   *)
(* is used as to obtain the power level and age of an event for breaking   *)
(* ties"): of two available events the one with the higher power level,    *)
(* then the lower age, then the lower id comes first, each event under     *)
(* its own key.                                                            *)
OwnKeyOrder ==
  \A i, j \in DOMAIN sorted :
    /\ i < j /\ ReadyAt(j, i)
    /\ {sorted[i], sorted[j]} \subseteq DOMAIN key
    => Before(TieBreaker(sorted[i], sorted[i]), TieBreaker(sorted[j], sorted[j]))

(* The sort returns, whatever the graph: cycles do not make it spin.       *)
Terminates == <>(pc \in {"done", "error"})

(* Every step of the sort is a step of TopoOrder, or leaves it unchanged.  *)
Outcome == IF pc = "done" THEN "ok" ELSE IF pc = "error" THEN "error" ELSE "running"
Abstract == INSTANCE TopoOrder WITH outcome <- Outcome
ImplementsTopoOrder == Abstract!Spec
=============================================================================
