---------------------------- MODULE TopoSortProofs ----------------------------
(***************************************************************************)
(* Theorems about LexTopoSort, for every set of event ids, every graph and *)
(* every key function, and about PowerSort, for every set of events,       *)
(* levels and users: the graph handed to the sort is exactly the           *)
(* conflicted auth chains of the power events, the sort's key function     *)
(* never fails, and no power event is lost unless auth events form a       *)
(* cycle.                                                                  *)
(***************************************************************************)
EXTENDS PowerSort, TLAPS

(* Appending adds exactly one element to the range of a sequence.          *)
LEMMA RangeOfAppend ==
  ASSUME NEW S, NEW s \in Seq(S), NEW e \in S
  PROVE  /\ Append(s, e) \in Seq(S)
         /\ Range(Append(s, e)) = Range(s) \cup {e}
<1>1. Append(s, e) \in Seq(S)
  OBVIOUS
<1>2. DOMAIN s = 1 .. Len(s) /\ DOMAIN Append(s, e) = 1 .. (Len(s) + 1)
  OBVIOUS
<1>3. \A i \in 1 .. Len(s) : Append(s, e)[i] = s[i]
  OBVIOUS
<1>4. Append(s, e)[Len(s) + 1] = e /\ Len(s) \in Nat
  OBVIOUS
<1>5. Range(s) \cup {e} \subseteq Range(Append(s, e))
  BY <1>2, <1>3, <1>4 DEF Range
<1>6. Range(Append(s, e)) \subseteq Range(s) \cup {e}
  BY <1>2, <1>3, <1>4 DEF Range
<1>7. QED
  BY <1>1, <1>5, <1>6

(* A graph maps every node to a set of event ids.                          *)
LEMMA GraphFacts ==
  ASSUME graph \in Graphs
  PROVE  /\ DOMAIN graph \subseteq EventId
         /\ graph \in [DOMAIN graph -> SUBSET EventId]
BY DEF Graphs

(* key_fn answers a power level and a timestamp where it answers at all.   *)
LEMMA KeyFacts ==
  ASSUME key \in Keys, NEW k \in DOMAIN key
  PROVE  /\ key[k][1] \in Level
         /\ key[k][2] \in Timestamp
BY DEF Keys

(* The heap item built for a graph node has the type of a heap item.       *)
LEMMA TieBreakerType ==
  ASSUME key \in Keys, NEW k \in DOMAIN key, NEW e \in DOMAIN graph
  PROVE  /\ TieBreaker(e, k) \in [inv_power_level : {-l : l \in Level},
                                  age : Timestamp, event_id : DOMAIN graph]
         /\ TieBreaker(e, k).event_id = e
BY KeyFacts DEF TieBreaker

(* Every step preserves the types of the input, the heap and the vector.   *)
LEMMA TypeStep == TypeOK /\ [Next]_vars => TypeOK'
<1> SUFFICES ASSUME TypeOK, [Next]_vars
             PROVE  TypeOK'
  OBVIOUS
<1> USE DEF TypeOK
<1>1. CASE Setup
  <2>1. heap' \subseteq [inv_power_level : {-l : l \in Level},
                         age : Timestamp, event_id : DOMAIN graph]
    BY <1>1, TieBreakerType DEF Setup, Leaves
  <2>2. out' \in [DOMAIN graph -> SUBSET EventId]
    BY <1>1, GraphFacts DEF Setup
  <2>3. QED
    BY <1>1, <2>1, <2>2 DEF Setup
<1>2. CASE SetupFails
  BY <1>2 DEF SetupFails
<1>3. ASSUME NEW item \in heap, PopNode(item)
      PROVE  TypeOK'
  <2> DEFINE node == item.event_id
  <2>1. node \in DOMAIN graph
    OBVIOUS
  <2>2. heap' \subseteq [inv_power_level : {-l : l \in Level},
                         age : Timestamp, event_id : DOMAIN graph]
    <3>1. \A p \in Released(node) : TieBreaker(p, node) \in
            [inv_power_level : {-l : l \in Level}, age : Timestamp, event_id : DOMAIN graph]
      BY <1>3, TieBreakerType DEF PopNode, IsNext, Released, Parents
    <3>2. QED
      BY <1>3, <3>1 DEF PopNode, IsNext
  <2>3. out' \in [DOMAIN graph -> SUBSET EventId]
    BY <1>3 DEF PopNode, IsNext
  <2>4. sorted' \in Seq(DOMAIN graph)
    BY <1>3, <2>1 DEF PopNode, IsNext
  <2>5. QED
    BY <1>3, <2>2, <2>3, <2>4 DEF PopNode, IsNext
<1>4. ASSUME NEW item \in heap, PopFails(item)
      PROVE  TypeOK'
  BY <1>4 DEF PopFails, IsNext
<1>5. CASE Return
  BY <1>5 DEF Return
<1>6. CASE UNCHANGED vars
  BY <1>6 DEF vars
<1>7. QED
  BY <1>1, <1>2, <1>3, <1>4, <1>5, <1>6 DEF Next

(* Every behaviour of the sort is type correct, whatever the input graph   *)
(* and the keys.                                                           *)
THEOREM TypeCorrect == Spec => []TypeOK
<1>1. Init => TypeOK
  BY DEF Init, TypeOK
<1>2. QED
  BY <1>1, TypeStep, PTL DEF Spec

(***************************************************************************)
(* The safety properties are proved together: HeapConsistent needs the     *)
(* vector built so far to be closed under edges (from TopologicalOrder),   *)
(* and the other two need to know that what is popped is ready and new     *)
(* (from HeapConsistent).                                                  *)
(***************************************************************************)
IInv == TypeOK /\ HeapConsistent /\ TopologicalOrder /\ NoEventTwice

(* What has been returned contains everything it refers to.                *)
LEMMA SortedIsClosed ==
  ASSUME IInv, NEW p \in Range(sorted)
  PROVE  graph[p] \subseteq Range(sorted)
<1>1. PICK i \in DOMAIN sorted : sorted[i] = p
  BY DEF Range
<1>2. DOMAIN sorted = 1 .. Len(sorted) /\ Len(sorted) \in Nat
  BY DEF IInv, TypeOK
<1>3. \A j \in 1 .. (i - 1) : j \in DOMAIN sorted
  BY <1>2
<1>4. QED
  BY <1>1, <1>3 DEF IInv, TopologicalOrder, Range

(* The inductive invariant holds when the sort starts.                     *)
LEMMA InitSafe == Init => IInv
<1>1. Init => TypeOK
  BY DEF Init, TypeOK
<1>2. Init => HeapConsistent /\ TopologicalOrder /\ NoEventTwice
  BY DEF Init, HeapConsistent, TopologicalOrder, NoEventTwice, IsInjective
<1>3. QED
  BY <1>1, <1>2 DEF IInv

(* The first loop establishes the invariant of the heap.                   *)
LEMMA SetupSafe ==
  ASSUME IInv, Setup
  PROVE  HeapConsistent'
<1>1. sorted = <<>> /\ Range(sorted) = {}
  BY DEF Setup, IInv, HeapConsistent, Range
<1>2. /\ pc' = "loop" /\ graph' = graph /\ sorted' = sorted
      /\ heap' = {TieBreaker(n, n) : n \in Leaves} /\ out' = graph
      /\ \A n \in Leaves : TieBreaker(n, n).event_id = n
  BY DEF Setup, TieBreaker
<1>3. out' = [n \in DOMAIN graph |-> graph[n] \ Range(sorted)]
  BY <1>1, <1>2, GraphFacts DEF IInv, TypeOK
<1>4. {item.event_id : item \in heap'} = Leaves
  BY <1>2
<1>5. Ready' = Leaves
  BY <1>1, <1>2 DEF Ready, Leaves
<1>6. \A a, b \in heap' : a.event_id = b.event_id => a = b
  BY <1>2
<1>7. QED
  BY <1>2, <1>3, <1>4, <1>5, <1>6 DEF HeapConsistent

(* What a successful pop does to the vector. *)
LEMMA PopFacts ==
  ASSUME IInv, NEW item \in heap, PopNode(item)
  PROVE  /\ pc = "loop" /\ pc' = pc /\ graph' = graph /\ key' = key
         /\ item.event_id \in Ready
         /\ sorted' = Append(sorted, item.event_id)
         /\ Range(sorted') = Range(sorted) \cup {item.event_id}
<1>1. /\ pc = "loop" /\ pc' = pc /\ graph' = graph /\ key' = key
      /\ sorted' = Append(sorted, item.event_id)
  BY DEF PopNode, IsNext
<1>2. item.event_id \in DOMAIN graph /\ sorted \in Seq(DOMAIN graph)
  BY DEF IInv, TypeOK
<1>3. item.event_id \in Ready
  BY <1>1 DEF IInv, HeapConsistent
<1>4. QED
  BY <1>1, <1>2, <1>3, RangeOfAppend

(* A pop keeps edges, heap and vector in step: the released parents are    *)
(* exactly the nodes that become ready.                                    *)
LEMMA PopKeepsHeapConsistent ==
  ASSUME IInv, NEW item \in heap, PopNode(item)
  PROVE  HeapConsistent'
<1> DEFINE node == item.event_id
<1>1. /\ pc = "loop" /\ pc' = pc /\ graph' = graph /\ key' = key
      /\ node \in Ready
      /\ Range(sorted') = Range(sorted) \cup {node}
  BY PopFacts
<1>2. /\ out = [n \in DOMAIN graph |-> graph[n] \ Range(sorted)]
      /\ {i.event_id : i \in heap} = Ready
      /\ \A a, b \in heap : a.event_id = b.event_id => a = b
  BY <1>1 DEF IInv, HeapConsistent
<1>3. out' = [n \in DOMAIN graph |-> graph[n] \ Range(sorted')]
  <2>1. \A n \in DOMAIN graph : n \notin Parents(node) => node \notin graph[n]
    BY DEF Parents
  <2>2. \A n \in DOMAIN graph : out'[n] = graph[n] \ Range(sorted')
    BY <1>1, <1>2, <2>1 DEF PopNode, IsNext
  <2>3. QED
    BY <2>2 DEF PopNode, IsNext
<1>4. Released(node) =
        {p \in DOMAIN graph : node \in graph[p] /\ graph[p] \subseteq Range(sorted')}
  BY <1>1, <1>2 DEF Released, Parents
<1>5. Ready' = (Ready \ {node}) \cup Released(node)
  <2>1. node \notin Range(sorted) /\ node \notin graph[node]
    BY <1>1 DEF Ready
  <2>2. \A p \in Range(sorted) : node \notin graph[p]
    BY <2>1, SortedIsClosed
  <2>3. QED
    BY <1>1, <1>4, <2>1, <2>2 DEF Ready
<1>6. heap' = (heap \ {item}) \cup {TieBreaker(p, node) : p \in Released(node)}
  BY DEF PopNode, IsNext
<1>7. \A p : TieBreaker(p, node).event_id = p
  BY DEF TieBreaker
<1>8. Released(node) \cap Ready = {}
  BY <1>1, <1>4 DEF Ready
<1>9. {i.event_id : i \in heap \ {item}} = Ready \ {node}
  BY <1>2
<1>10. {i.event_id : i \in heap'} = Ready'
  BY <1>5, <1>6, <1>7, <1>9
<1>11. \A a, b \in heap' : a.event_id = b.event_id => a = b
  BY <1>2, <1>6, <1>7, <1>8
<1>12. QED
  BY <1>1, <1>3, <1>10, <1>11 DEF HeapConsistent

(* A pop appends an event whose edges are all cleared and which is new.    *)
LEMMA PopKeepsOrder ==
  ASSUME IInv, NEW item \in heap, PopNode(item)
  PROVE  TopologicalOrder' /\ NoEventTwice'
<1> DEFINE node == item.event_id
<1>1. /\ graph' = graph /\ node \in Ready /\ sorted' = Append(sorted, node)
  BY PopFacts
<1>2. node \notin Range(sorted) /\ graph[node] \subseteq Range(sorted)
  BY <1>1 DEF Ready
<1>3. sorted \in Seq(DOMAIN graph) /\ node \in DOMAIN graph
  BY DEF IInv, TypeOK
<1>4. /\ Len(sorted) \in Nat
      /\ DOMAIN sorted = 1 .. Len(sorted) /\ DOMAIN sorted' = 1 .. (Len(sorted) + 1)
      /\ \A i \in 1 .. Len(sorted) : sorted'[i] = sorted[i]
      /\ sorted'[Len(sorted) + 1] = node
  BY <1>1, <1>3
<1>5. TopologicalOrder'
  <2> SUFFICES ASSUME NEW i \in DOMAIN sorted', NEW dep \in graph[sorted'[i]]
               PROVE  \E j \in 1 .. (i - 1) : sorted'[j] = dep
    BY <1>1 DEF TopologicalOrder
  <2>1. CASE i \in 1 .. Len(sorted)
    BY <1>4, <2>1 DEF TopologicalOrder, IInv
  <2>2. CASE i = Len(sorted) + 1
    BY <1>2, <1>4, <2>2 DEF Range
  <2>3. QED
    BY <1>4, <2>1, <2>2
<1>6. NoEventTwice'
  <2>1. \A i \in 1 .. Len(sorted) : sorted[i] # node
    BY <1>2, <1>4 DEF Range
  <2>2. \A i, j \in 1 .. Len(sorted) : sorted[i] = sorted[j] => i = j
    BY <1>4 DEF IInv, NoEventTwice, IsInjective
  <2>3. QED
    BY <1>4, <2>1, <2>2 DEF NoEventTwice, IsInjective
<1>7. QED
  BY <1>5, <1>6

(* Every step of the sort preserves the inductive invariant.               *)
LEMMA SafeStep == TypeOK' /\ IInv /\ [Next]_vars => IInv'
<1> SUFFICES ASSUME TypeOK', IInv, [Next]_vars
             PROVE  (HeapConsistent /\ TopologicalOrder /\ NoEventTwice)'
  BY DEF IInv
<1>1. CASE Setup
  <2>1. (TopologicalOrder /\ NoEventTwice)'
    BY <1>1 DEF Setup, IInv, TopologicalOrder, NoEventTwice
  <2>2. QED
    BY <1>1, <2>1, SetupSafe
<1>2. CASE SetupFails
  BY <1>2 DEF SetupFails, IInv, HeapConsistent, TopologicalOrder, NoEventTwice
<1>3. ASSUME NEW item \in heap, PopNode(item)
      PROVE  (HeapConsistent /\ TopologicalOrder /\ NoEventTwice)'
  BY <1>3, PopKeepsHeapConsistent, PopKeepsOrder
<1>4. ASSUME NEW item \in heap, PopFails(item)
      PROVE  (HeapConsistent /\ TopologicalOrder /\ NoEventTwice)'
  BY <1>4 DEF PopFails, IInv, HeapConsistent, TopologicalOrder, NoEventTwice
<1>5. CASE Return
  BY <1>5 DEF Return, IInv, HeapConsistent, TopologicalOrder, NoEventTwice, Ready
<1>6. CASE UNCHANGED vars
  BY <1>6 DEF vars, IInv, HeapConsistent, TopologicalOrder, NoEventTwice, Ready
<1>7. QED
  BY <1>1, <1>2, <1>3, <1>4, <1>5, <1>6 DEF Next

(* The inductive invariant holds throughout every sort.                    *)
LEMMA Safe == Spec => []IInv
BY InitSafe, SafeStep, TypeCorrect, PTL DEF Spec

(* The remaining edges and the heap stay what the input graph and the      *)
(* vector built so far say they should be, through every round of the      *)
(* loop of lexicographical_topological_sort.                               *)
THEOREM HeapStaysConsistent == Spec => []HeapConsistent
<1>1. IInv => HeapConsistent
  BY DEF IInv
<1>2. QED
  BY <1>1, Safe, PTL

(* No event is ever placed before an event it refers to, for every graph.  *)
THEOREM SortIsTopological == Spec => []TopologicalOrder
<1>1. IInv => TopologicalOrder
  BY DEF IInv
<1>2. QED
  BY <1>1, Safe, PTL

(* No event is ever returned twice, for every graph.                       *)
THEOREM SortHasNoDuplicates == Spec => []NoEventTwice
<1>1. IInv => NoEventTwice
  BY DEF IInv
<1>2. QED
  BY <1>1, Safe, PTL

(* A sort that has returned left no event that was ready.                  *)
LEMMA DoneMeansNothingReady ==
  ASSUME IInv, pc = "done"
  PROVE  Ready = {}
BY DEF IInv, HeapConsistent

(* An event is missing from a returned vector only together with one of    *)
(* the events it refers to.                                                *)
THEOREM OnlyStuckEventsAreLost == Spec => []LostOnlyIfStuck
<1>1. IInv => LostOnlyIfStuck
  BY DoneMeansNothingReady DEF LostOnlyIfStuck, Ready
<1>2. QED
  BY <1>1, Safe, PTL

(* A finished sort of an acyclic graph without dangling edges has returned *)
(* every node: the missing nodes, were there any, would include one whose  *)
(* edges are all cleared, and that one would be ready.                     *)
LEMMA DoneMeansComplete == IInv => NothingLost
<1> SUFFICES ASSUME IInv, pc = "done", WellFounded(graph), Closed(graph)
             PROVE  Range(sorted) = DOMAIN graph
  BY DEF NothingLost
<1> DEFINE Missing == DOMAIN graph \ Range(sorted)
<1>1. Range(sorted) \subseteq DOMAIN graph
  <2>1. sorted \in Seq(DOMAIN graph)
    BY DEF IInv, TypeOK
  <2>2. QED
    BY <2>1 DEF Range
<1>2. Missing = {}
  <2> SUFFICES ASSUME Missing # {}
               PROVE  FALSE
    OBVIOUS
  <2>1. PICK n \in Missing : graph[n] \cap Missing = {}
    BY DEF WellFounded
  <2>2. graph[n] \subseteq Range(sorted)
    BY <2>1 DEF Closed
  <2>3. QED
    BY <2>1, <2>2, DoneMeansNothingReady DEF Ready
<1>3. QED
  BY <1>1, <1>2

(* The sort of an acyclic graph without dangling edges returns every node. *)
THEOREM AcyclicGraphsLoseNothing == Spec => []NothingLost
BY DoneMeansComplete, Safe, PTL

(***************************************************************************)
(* The order of ties.  PushedAs says under which item an event of the      *)
(* vector went on the heap; while it is on the heap that is an invariant   *)
(* of the item, and so is that it lost against everything popped since.    *)
(***************************************************************************)
PushedUnder(e, n, item) ==
  IF graph[e] = {}
  THEN item = TieBreaker(e, e)
  ELSE \E i \in 1 .. n : /\ sorted[i] \in graph[e] /\ graph[e] \subseteq Emitted(i + 1)
                         /\ item = TieBreaker(e, sorted[i])

ItemsAreKeyed == \A item \in heap : PushedUnder(item.event_id, Len(sorted), item)

BeatenBy(i, item) == \E a : PushedUnder(sorted[i], i - 1, a) /\ Before(a, item)

ItemsHaveWaited ==
  \A item \in heap, i \in DOMAIN sorted :
    graph[item.event_id] \subseteq Emitted(i) => BeatenBy(i, item)

SortedByItem ==
  \A i, j \in DOMAIN sorted :
    i < j /\ ReadyAt(j, i) => \E b : PushedUnder(sorted[j], j - 1, b) /\ BeatenBy(i, b)

TieInv == ItemsAreKeyed /\ ItemsHaveWaited /\ SortedByItem

(* An event of the vector has been pushed under one item only, for only    *)
(* one of its edges was the last to clear.                                 *)
LEMMA PushedUnderOne ==
  ASSUME IInv, NEW j \in DOMAIN sorted, NEW item, PushedUnder(sorted[j], j - 1, item)
  PROVE  item = PushedAs(j)
<1>1. CASE graph[sorted[j]] = {}
  BY <1>1 DEF PushedUnder, PushedAs
<1>2. CASE graph[sorted[j]] # {}
  <2> DEFINE P(i) == sorted[i] \in graph[sorted[j]] /\ ReadyAt(j, i + 1)
             last == CHOOSE i \in 1 .. (j - 1) : P(i)
  <2>1. PICK i \in 1 .. (j - 1) : P(i) /\ item = TieBreaker(sorted[j], sorted[i])
    BY <1>2 DEF PushedUnder, ReadyAt
  <2>2. last \in 1 .. (j - 1) /\ P(last)
    BY <2>1
  <2>3. DOMAIN sorted = 1 .. Len(sorted) /\ Len(sorted) \in Nat /\ j \in 1 .. Len(sorted)
    BY DEF IInv, TypeOK
  <2>4. \A a, b \in 1 .. (j - 1) : P(a) /\ P(b) => a <= b
    <3> SUFFICES ASSUME NEW a \in 1 .. (j - 1), NEW b \in 1 .. (j - 1), P(a), P(b)
                 PROVE  a <= b
      OBVIOUS
    <3>1. sorted[a] \in Emitted(b + 1)
      BY DEF ReadyAt
    <3>2. PICK c \in 1 .. b : sorted[a] = sorted[c]
      BY <3>1 DEF Emitted
    <3>3. a \in DOMAIN sorted /\ c \in DOMAIN sorted
      BY <2>3
    <3>4. a = c
      BY <3>2, <3>3 DEF IInv, NoEventTwice, IsInjective
    <3>5. QED
      BY <3>4
  <2>5. i = last
    <3> HIDE DEF last, P
    <3>1. i <= last /\ last <= i /\ i \in Int /\ last \in Int
      BY <2>1, <2>2, <2>4
    <3>2. QED
      BY <3>1
  <2>6. PushedAs(j) = TieBreaker(sorted[j], sorted[last])
    BY <1>2 DEF PushedAs
  <2>7. QED
    BY <2>1, <2>5, <2>6
<1>3. QED
  BY <1>1, <1>2

(* So the order of ties is that of the items.                              *)
LEMMA TiesAreBroken == IInv /\ TieInv => TieBreakOrder
<1> SUFFICES ASSUME IInv, TieInv, NEW i \in DOMAIN sorted, NEW j \in DOMAIN sorted,
                    i < j, ReadyAt(j, i)
             PROVE  Before(PushedAs(i), PushedAs(j))
  BY DEF TieBreakOrder
<1>1. PICK b : PushedUnder(sorted[j], j - 1, b) /\ BeatenBy(i, b)
  BY DEF TieInv, SortedByItem
<1>2. PICK a : PushedUnder(sorted[i], i - 1, a) /\ Before(a, b)
  BY <1>1 DEF BeatenBy
<1>3. a = PushedAs(i) /\ b = PushedAs(j)
  BY <1>1, <1>2, PushedUnderOne
<1>4. QED
  BY <1>2, <1>3

(* A pop does not change what has been returned before.                    *)
LEMMA PopKeepsPast ==
  ASSUME IInv, NEW item \in heap, PopNode(item), NEW N, N = Len(sorted)
  PROVE  /\ N \in Nat /\ Len(sorted)' = N + 1
         /\ DOMAIN sorted = 1 .. N
         /\ DOMAIN sorted' = 1 .. (N + 1)
         /\ sorted'[N + 1] = item.event_id
         /\ \A i \in DOMAIN sorted : sorted'[i] = sorted[i]
         /\ \A i \in 1 .. (N + 1) : Emitted(i)' = Emitted(i)
         /\ \A i \in 1 .. (N + 1) : Emitted(i) \subseteq Range(sorted)
         /\ Emitted(N + 2)' = Range(sorted')
         /\ \A e, a : \A n \in 0 .. N : \A m \in n .. (N + 1) :
              PushedUnder(e, n, a) => PushedUnder(e, m, a)'
<1>1. /\ sorted' = Append(sorted, item.event_id) /\ graph' = graph /\ key' = key
      /\ sorted \in Seq(DOMAIN graph) /\ item.event_id \in DOMAIN graph
  BY PopFacts DEF IInv, TypeOK
<1>2. /\ N \in Nat /\ Len(sorted)' = N + 1
      /\ DOMAIN sorted = 1 .. N /\ DOMAIN sorted' = 1 .. (N + 1)
      /\ sorted'[N + 1] = item.event_id
      /\ \A i \in 1 .. N : sorted'[i] = sorted[i]
  BY <1>1
<1>3. \A i \in 1 .. (N + 1) : Emitted(i)' = Emitted(i) /\ Emitted(i) \subseteq Range(sorted)
  <2> SUFFICES ASSUME NEW i \in 1 .. (N + 1)
               PROVE  Emitted(i)' = Emitted(i) /\ Emitted(i) \subseteq Range(sorted)
    OBVIOUS
  <2>1. \A k \in 1 .. (i - 1) : k \in 1 .. N
    BY <1>2
  <2>2. QED
    BY <1>2, <2>1 DEF Emitted, Range
<1>4. Emitted(N + 2)' = Range(sorted')
  <2>1. (N + 2) - 1 = N + 1
    BY <1>2
  <2>2. QED
    BY <1>2, <2>1 DEF Emitted, Range
<1>5. ASSUME NEW e, NEW a, NEW n \in 0 .. N, NEW m \in n .. (N + 1), PushedUnder(e, n, a)
      PROVE  PushedUnder(e, m, a)'
  <2>1. CASE graph[e] = {}
    BY <1>1, <1>5, <2>1 DEF PushedUnder, TieBreaker
  <2>2. CASE graph[e] # {}
    <3>1. PICK i \in 1 .. n : /\ sorted[i] \in graph[e] /\ graph[e] \subseteq Emitted(i + 1)
                              /\ a = TieBreaker(e, sorted[i])
      BY <1>5, <2>2 DEF PushedUnder
    <3>2. i \in 1 .. N /\ i \in 1 .. m /\ i + 1 \in 1 .. (N + 1)
      BY <1>2
    <3>3. sorted'[i] = sorted[i] /\ Emitted(i + 1)' = Emitted(i + 1)
      BY <1>2, <1>3, <3>2
    <3>4. a = TieBreaker(e, sorted[i])'
      BY <1>1, <3>1, <3>3 DEF TieBreaker
    <3>5. QED
      BY <1>1, <2>2, <3>1, <3>2, <3>3, <3>4 DEF PushedUnder
  <2>3. QED
    BY <2>1, <2>2
<1>6. QED
  BY <1>2, <1>3, <1>4, <1>5

(* A pop keeps the order of ties: what it appends was the least item, and  *)
(* what it pushes could not have been returned before.                     *)
LEMMA PopKeepsTies ==
  ASSUME IInv, TieInv, NEW item \in heap, PopNode(item)
  PROVE  TieInv'
<1> DEFINE node == item.event_id
<1>0. PICK N : N = Len(sorted)
  OBVIOUS
<1>1. /\ N \in Nat /\ Len(sorted)' = N + 1 /\ DOMAIN sorted = 1 .. N
      /\ DOMAIN sorted' = 1 .. (N + 1) /\ sorted'[N + 1] = node
      /\ \A i \in 1 .. N : sorted'[i] = sorted[i]
      /\ \A i \in 1 .. (N + 1) : Emitted(i)' = Emitted(i) /\ Emitted(i) \subseteq Range(sorted)
      /\ Emitted(N + 2)' = Range(sorted')
  BY <1>0, PopKeepsPast
<1>2. \A e, a : \A n \in 0 .. N : \A m \in n .. (N + 1) :
        PushedUnder(e, n, a) => PushedUnder(e, m, a)'
  BY <1>0, PopKeepsPast
<1>3. /\ graph' = graph /\ key' = key /\ node \in Ready
      /\ Range(sorted') = Range(sorted) \cup {node}
  BY PopFacts
<1>4. /\ \A other \in heap \ {item} : Before(item, other)
      /\ heap' = (heap \ {item}) \cup {TieBreaker(p, node) : p \in Released(node)}
  BY DEF PopNode, IsNext
<1>5. \A p \in Released(node) : node \in graph[p] /\ graph[p] \subseteq Range(sorted')
  <2>1. out = [n \in DOMAIN graph |-> graph[n] \ Range(sorted)]
    BY PopFacts DEF IInv, HeapConsistent
  <2>2. QED
    BY <1>3, <2>1 DEF Released, Parents
<1>6. node \notin Range(sorted)
  BY <1>3 DEF Ready
<1>7. PushedUnder(node, N, item)
  BY <1>0 DEF TieInv, ItemsAreKeyed
<1> HIDE DEF node
<1>8. \A i \in 1 .. N : \A a : BeatenBy(i, a) => BeatenBy(i, a)'
  <2> SUFFICES ASSUME NEW i \in 1 .. N, NEW a, BeatenBy(i, a) PROVE BeatenBy(i, a)'
    OBVIOUS
  <2>1. PICK b : PushedUnder(sorted[i], i - 1, b) /\ Before(b, a)
    BY DEF BeatenBy
  <2>2. i - 1 \in 0 .. N /\ i - 1 \in (i - 1) .. (N + 1) /\ sorted'[i] = sorted[i]
    BY <1>1
  <2>3. PushedUnder(sorted[i], i - 1, b)'
    BY <1>2, <2>1, <2>2
  <2>4. QED
    BY <2>1, <2>3 DEF BeatenBy, Before
<1>10. ItemsAreKeyed'
  <2> SUFFICES ASSUME NEW b \in heap' PROVE PushedUnder(b.event_id, N + 1, b)'
    BY <1>1 DEF ItemsAreKeyed
  <2>1. CASE b \in heap
    <3>1. PushedUnder(b.event_id, N, b) /\ N \in 0 .. N /\ N + 1 \in N .. (N + 1)
      BY <1>0, <1>1, <2>1 DEF TieInv, ItemsAreKeyed
    <3>2. QED
      BY <1>2, <3>1
  <2>2. ASSUME NEW p \in Released(node), b = TieBreaker(p, node)
        PROVE  PushedUnder(b.event_id, N + 1, b)'
    <3>1. b.event_id = p /\ b = TieBreaker(p, node)'
      BY <1>3, <2>2 DEF TieBreaker
    <3>2. N + 1 \in 1 .. (N + 1) /\ (N + 1) + 1 = N + 2
      BY <1>1
    <3>3. graph'[p] # {} /\ sorted'[N + 1] \in graph'[p] /\ graph'[p] \subseteq Emitted((N + 1) + 1)'
      BY <1>1, <1>3, <1>5, <3>2
    <3>4. QED
      BY <1>1, <3>1, <3>2, <3>3 DEF PushedUnder
  <2>3. QED
    BY <1>4, <2>1, <2>2
<1>11. \A b : Before(item, b) => BeatenBy(N + 1, b)'
  <2> SUFFICES ASSUME NEW b, Before(item, b) PROVE BeatenBy(N + 1, b)'
    OBVIOUS
  <2>1. (N + 1) - 1 = N /\ N \in 0 .. N /\ N \in N .. (N + 1)
    BY <1>1
  <2>2. PushedUnder(node, (N + 1) - 1, item)'
    BY <1>2, <1>7, <2>1
  <2>3. PushedUnder(sorted[N + 1], (N + 1) - 1, item)'
    BY <1>1, <2>2
  <2>4. QED
    BY <2>3 DEF BeatenBy, Before
<1>12. ItemsHaveWaited'
  <2> SUFFICES ASSUME NEW b \in heap', NEW i \in 1 .. (N + 1),
                      graph'[b.event_id] \subseteq Emitted(i)'
               PROVE  BeatenBy(i, b)'
    BY <1>1 DEF ItemsHaveWaited
  <2>1. graph[b.event_id] \subseteq Emitted(i) /\ Emitted(i) \subseteq Range(sorted)
    BY <1>1, <1>3
  <2>2. CASE b \in heap \ {item} /\ i \in 1 .. N
    <3>1. BeatenBy(i, b)
      BY <1>1, <2>1, <2>2 DEF TieInv, ItemsHaveWaited
    <3>2. QED
      BY <1>8, <2>2, <3>1
  <2>3. CASE b \in heap \ {item} /\ i = N + 1
    BY <1>4, <1>11, <2>3
  <2>4. ASSUME NEW p \in Released(node), b = TieBreaker(p, node) PROVE FALSE
    <3>1. b.event_id = p
      BY <2>4 DEF TieBreaker
    <3>2. QED
      BY <1>5, <1>6, <2>1, <3>1
  <2>5. QED
    BY <1>1, <1>4, <2>2, <2>3, <2>4
<1>13. SortedByItem'
  <2> SUFFICES ASSUME NEW i \in 1 .. (N + 1), NEW j \in 1 .. (N + 1), i < j,
                      ReadyAt(j, i)'
               PROVE  (\E b : PushedUnder(sorted[j], j - 1, b) /\ BeatenBy(i, b))'
    BY <1>1 DEF SortedByItem
  <2>0. i \in 1 .. N /\ graph[sorted'[j]] \subseteq Emitted(i)
    BY <1>1, <1>3 DEF ReadyAt
  <2>1. CASE j \in 1 .. N
    <3>1. sorted'[j] = sorted[j] /\ ReadyAt(j, i)
      BY <1>1, <2>0, <2>1 DEF ReadyAt
    <3>2. PICK b : PushedUnder(sorted[j], j - 1, b) /\ BeatenBy(i, b)
      BY <1>1, <2>0, <2>1, <3>1 DEF TieInv, SortedByItem
    <3>3. j - 1 \in 0 .. N /\ j - 1 \in (j - 1) .. (N + 1)
      BY <1>1, <2>1
    <3>4. PushedUnder(sorted[j], j - 1, b)'
      BY <1>2, <3>1, <3>2, <3>3
    <3>5. BeatenBy(i, b)'
      BY <1>8, <2>0, <3>2
    <3>6. QED
      BY <3>4, <3>5
  <2>2. CASE j = N + 1
    <3>1. BeatenBy(i, item)
      BY <1>1, <2>0, <2>2 DEF TieInv, ItemsHaveWaited, node
    <3>2. BeatenBy(i, item)'
      BY <1>8, <2>0, <3>1
    <3>3. j - 1 = N /\ N \in 0 .. N /\ N \in N .. (N + 1)
      BY <1>1, <2>2
    <3>4. PushedUnder(node, j - 1, item)'
      BY <1>2, <1>7, <3>3
    <3>5. PushedUnder(sorted[j], j - 1, item)'
      BY <1>1, <2>2, <3>4
    <3>6. QED
      BY <3>2, <3>5
  <2>3. QED
    BY <1>1, <2>1, <2>2
<1>14. QED
  BY <1>10, <1>12, <1>13 DEF TieInv

(* Every step of the sort keeps the order of ties.                         *)
LEMMA TieStep == IInv /\ TieInv /\ [Next]_vars => TieInv'
<1> SUFFICES ASSUME IInv, TieInv, [Next]_vars
             PROVE  TieInv'
  OBVIOUS
<1>1. CASE Setup
  <2>1. sorted' = <<>> /\ DOMAIN sorted' = {} /\ graph' = graph /\ key' = key
    BY <1>1 DEF Setup, IInv, HeapConsistent
  <2>2. \A n \in Leaves : TieBreaker(n, n).event_id = n /\ TieBreaker(n, n)' = TieBreaker(n, n)
    BY <2>1 DEF TieBreaker
  <2>3. ASSUME NEW b \in heap' PROVE PushedUnder(b.event_id, Len(sorted), b)'
    <3>1. PICK n \in Leaves : b = TieBreaker(n, n)
      BY <1>1 DEF Setup
    <3>2. graph'[n] = {} /\ b.event_id = n /\ b = TieBreaker(n, n)'
      BY <2>1, <2>2, <3>1 DEF Leaves
    <3>3. QED
      BY <3>2 DEF PushedUnder
  <2>4. QED
    BY <2>1, <2>3 DEF TieInv, ItemsAreKeyed, ItemsHaveWaited, SortedByItem
<1>2. CASE graph' = graph /\ key' = key /\ sorted' = sorted /\ heap' = heap
  <2>1. /\ \A i : Emitted(i)' = Emitted(i)
        /\ \A e, k : TieBreaker(e, k)' = TieBreaker(e, k)
    BY <1>2 DEF Emitted, TieBreaker
  <2>2. \A e, n, a : PushedUnder(e, n, a)' <=> PushedUnder(e, n, a)
    BY <1>2, <2>1 DEF PushedUnder
  <2>3. \A i, a : BeatenBy(i, a)' <=> BeatenBy(i, a)
    BY <1>2, <2>2 DEF BeatenBy, Before
  <2>4. ItemsAreKeyed' /\ ItemsHaveWaited'
    BY <1>2, <2>1, <2>2, <2>3 DEF TieInv, ItemsAreKeyed, ItemsHaveWaited
  <2>5. SortedByItem'
    BY <1>2, <2>1, <2>2, <2>3 DEF TieInv, SortedByItem, ReadyAt
  <2>6. QED
    BY <2>4, <2>5 DEF TieInv
<1>3. ASSUME NEW item \in heap, PopNode(item)
      PROVE  TieInv'
  BY <1>3, PopKeepsTies
<1>4. QED
  BY <1>1, <1>2, <1>3 DEF Next, vars, SetupFails, PopFails, Return

(* Of two events that could both be returned, the one whose heap item is   *)
(* the smaller comes first, for every graph and every key function.        *)
THEOREM TiesAreBrokenByItem == Spec => []TieBreakOrder
<1>1. Init => TieInv
  BY DEF Init, TieInv, ItemsAreKeyed, ItemsHaveWaited, SortedByItem
<1>2. QED
  BY <1>1, TieStep, TiesAreBroken, Safe, PTL DEF Spec

(* Every behaviour of the sort is a behaviour of the abstract              *)
(* specification TopoOrder.                                                *)
THEOREM SortImplementsTopoOrder == Spec => ImplementsTopoOrder
<1>1. Init => Abstract!Init
  BY DEF Init, Abstract!Init, Outcome
<1>2. IInv /\ [Next]_vars => [Abstract!Next]_(Abstract!vars)
  <2> SUFFICES ASSUME IInv, [Next]_vars
               PROVE  [Abstract!Next]_(Abstract!vars)
    OBVIOUS
  <2> USE DEF Outcome
  <2>1. CASE Setup
    BY <2>1 DEF Setup, Abstract!vars
  <2>2. CASE SetupFails
    BY <2>2 DEF SetupFails, Abstract!Next, Abstract!GiveUp
  <2>3. ASSUME NEW item \in heap, PopNode(item)
        PROVE  Abstract!Next
    <3>1. /\ item.event_id \in Ready /\ pc = "loop" /\ pc' = pc /\ graph' = graph
          /\ sorted' = Append(sorted, item.event_id)
      BY <2>3, PopFacts
    <3>2. Abstract!Emit(item.event_id)
      BY <3>1 DEF Abstract!Emit, Abstract!Available, Ready, Range, Abstract!Range
    <3>3. QED
      BY <3>1, <3>2 DEF Abstract!Next, Ready
  <2>4. ASSUME NEW item \in heap, PopFails(item)
        PROVE  Abstract!Next
    BY <2>4 DEF PopFails, Abstract!Next, Abstract!GiveUp
  <2>5. CASE Return
    <3>1. Ready = {}
      BY <2>5 DEF Return, IInv, HeapConsistent
    <3>2. QED
      BY <2>5, <3>1 DEF Return, Ready, Range,
         Abstract!Next, Abstract!Finish, Abstract!Available, Abstract!Range
  <2>6. CASE UNCHANGED vars
    BY <2>6 DEF vars, Abstract!vars
  <2>7. QED
    BY <2>1, <2>2, <2>3, <2>4, <2>5, <2>6 DEF Next
<1>3. QED
  BY <1>1, <1>2, Safe, PTL DEF Spec, ImplementsTopoOrder, Abstract!Spec

-----------------------------------------------------------------------------
(* The sort of the power events.                                           *)

(* What fetch_event answers is an event of the model.                      *)
LEMMA StoreFacts ==
  ASSUME store \in Stores
  PROVE  /\ DOMAIN store \subseteq EventId
         /\ \A e \in DOMAIN store :
              /\ store[e].auth_events \in Seq(EventId)
              /\ store[e].origin_server_ts \in Timestamp
              /\ store[e].content \in PowerLevelsContent
<1>1. DOMAIN store \subseteq EventId /\ \A e \in DOMAIN store : store[e] \in Event
  BY DEF Stores
<1>2. QED
  BY <1>1, EventAssumption

(* The auth events of an event, if it can be fetched.                      *)
LEMMA AuthEventsType ==
  ASSUME store \in Stores
  PROVE  \A e : AuthEvents(e) \in Seq(EventId)
BY StoreFacts DEF AuthEvents

(* get_power_level_for_sender answers a power level.                       *)
LEMMA SenderLevelType ==
  ASSUME store \in Stores, NEW e
  PROVE  SenderLevel(e) \in Level
<1>1. CASE BreaksAt(e) = {}
  BY <1>1, ZeroAssumption DEF SenderLevel
<1>2. CASE BreaksAt(e) # {}
  <2>1. LevelsFor(e) \in PowerLevelsContent
    <3>1. \A i \in BreaksAt(e) : AuthEvents(e)[i] \in DOMAIN store
      BY DEF BreaksAt, IsPowerLevels
    <3>2. QED
      BY <1>2, <3>1, StoreFacts DEF LevelsFor
  <2>2. \A u \in DOMAIN LevelsFor(e).users : LevelsFor(e).users[u] \in Level
    BY <2>1 DEF PowerLevelsContent
  <2>3. LevelsFor(e).users_default \in Level
    BY <2>1 DEF PowerLevelsContent
  <2>4. QED
    BY <1>2, <2>2, <2>3 DEF SenderLevel
<1>3. QED
  BY <1>1, <1>2

(* Popping a vector removes its last element.                              *)
LEMMA RangeOfPop ==
  ASSUME NEW S, NEW s \in Seq(S), s # <<>>
  PROVE  /\ SubSeq(s, 1, Len(s) - 1) \in Seq(S)
         /\ s[Len(s)] \in S
         /\ Range(s) = Range(SubSeq(s, 1, Len(s) - 1)) \cup {s[Len(s)]}
<1> DEFINE t == SubSeq(s, 1, Len(s) - 1)
<1>1. Len(s) \in Nat /\ Len(s) # 0 /\ DOMAIN s = 1 .. Len(s)
  OBVIOUS
<1>2. /\ t \in Seq(S) /\ DOMAIN t = 1 .. (Len(s) - 1)
      /\ \A i \in 1 .. (Len(s) - 1) : t[i] = s[i]
  BY <1>1
<1>3. s[Len(s)] \in S
  BY <1>1
<1>4. Range(s) = {s[i] : i \in 1 .. Len(s)} /\ Range(t) = {s[i] : i \in 1 .. (Len(s) - 1)}
  BY <1>1, <1>2 DEF Range
<1>5. 1 .. Len(s) = (1 .. (Len(s) - 1)) \cup {Len(s)}
  BY <1>1
<1>6. QED
  BY <1>2, <1>3, <1>4, <1>5

(* The auth events still to be seen are the next one and the ones after.   *)
LEMMA RangeOfTail ==
  ASSUME NEW S, NEW s \in Seq(S), s # <<>>
  PROVE  /\ Tail(s) \in Seq(S)
         /\ Head(s) \in S
         /\ Range(s) = {Head(s)} \cup Range(Tail(s))
<1> DEFINE t == Tail(s)
<1>1. Len(s) \in Nat /\ Len(s) # 0 /\ DOMAIN s = 1 .. Len(s) /\ Head(s) = s[1]
  OBVIOUS
<1>2. /\ t \in Seq(S) /\ DOMAIN t = 1 .. (Len(s) - 1)
      /\ \A i \in 1 .. (Len(s) - 1) : t[i] = s[i + 1]
  BY <1>1
<1>3. \A i \in 2 .. Len(s) : (i - 1) \in DOMAIN t /\ t[i - 1] = s[i]
  BY <1>1, <1>2
<1>4. Range(s) \subseteq {Head(s)} \cup Range(t)
  <2> SUFFICES ASSUME NEW i \in DOMAIN s
               PROVE  s[i] \in {Head(s)} \cup Range(t)
    BY DEF Range
  <2>1. CASE i = 1
    BY <1>1, <2>1
  <2>2. CASE i # 1
    <3>1. i \in 2 .. Len(s)
      BY <1>1, <2>2
    <3>2. (i - 1) \in DOMAIN t /\ t[i - 1] = s[i]
      BY <1>3, <3>1
    <3> HIDE DEF t
    <3>3. QED
      BY <3>2 DEF Range
  <2>3. QED
    BY <2>1, <2>2
<1>5. {Head(s)} \cup Range(t) \subseteq Range(s)
  BY <1>1, <1>2 DEF Range
<1>6. Head(s) \in S
  BY <1>1
<1>7. QED
  BY <1>2, <1>4, <1>5, <1>6

(***************************************************************************)
(* The inductive invariant.  While the graph is built, BuildConsistent     *)
(* carries the argument; afterwards the invariant of the sort takes over,  *)
(* which starts from an empty vector and heap, and with a key for every    *)
(* node.                                                                   *)
(***************************************************************************)
SortRuns ==
  phase = "sort" =>
    /\ IInv
    /\ pc # "error" => DOMAIN key = DOMAIN graph

InvPS ==
  /\ TypeOKPS
  /\ BuildConsistent
  /\ GraphIsAuthChains
  /\ SortRuns
  /\ FailsOnlyOnBadLevels

(* The invariant holds before the first event is looked at.                *)
LEMMA InitPSSafe == InitPS => InvPS
<1> SUFFICES ASSUME InitPS
             PROVE  InvPS
  OBVIOUS
<1> USE DEF InitPS
<1>1. TypeOKPS
  <2>1. graph \in [{} -> SUBSET auth_diff] /\ DOMAIN graph = {}
    OBVIOUS
  <2>2. key \in Keys
    <3>1. key \in [{} -> Level \X Timestamp]
      OBVIOUS
    <3>2. QED
      BY <3>1 DEF Keys
  <2>3. auth_diff \subseteq DOMAIN store /\ todo \subseteq auth_diff
    BY DEF PowerEvents
  <2>4. QED
    BY <2>1, <2>2, <2>3 DEF TypeOKPS
<1>2. BuildConsistent
  <2>1. \A S : IsAuthClosed(S) => PowerEvents(auth_diff) \subseteq S
    BY DEF IsAuthClosed
  <2>2. Range(<<>>) = {} /\ DOMAIN graph = {}
    BY DEF Range
  <2>3. QED
    BY <2>1, <2>2 DEF BuildConsistent, Unseen
<1>3. QED
  BY <1>1, <1>2 DEF InvPS, GraphIsAuthChains, SortRuns, FailsOnlyOnBadLevels

(* What the power events, their auth events and their levels are depends   *)
(* on the input alone.                                                     *)
LEMMA InputUnchanged ==
  ASSUME store' = store, auth_diff' = auth_diff
  PROVE  /\ PowerEvents(auth_diff)' = PowerEvents(auth_diff)
         /\ \A n : AuthInDiff(n)' = AuthInDiff(n)
         /\ \A S : IsAuthClosed(S)' <=> IsAuthClosed(S)
         /\ \A n : LevelReadable(n)' <=> LevelReadable(n)
<1>1. PowerEvents(auth_diff)' = PowerEvents(auth_diff)
  BY DEF PowerEvents
<1>2. \A n : AuthEvents(n)' = AuthEvents(n)
  BY DEF AuthEvents
<1>3. \A n : AuthInDiff(n)' = AuthInDiff(n)
  BY <1>2 DEF AuthInDiff
<1>4. \A S : IsAuthClosed(S)' <=> IsAuthClosed(S)
  BY <1>1, <1>3 DEF IsAuthClosed
<1>5. \A n : LevelReadable(n)' <=> LevelReadable(n)
  <2> SUFFICES ASSUME NEW n
               PROVE  LevelReadable(n)' <=> LevelReadable(n)
    OBVIOUS
  <2>1. BreaksAt(n)' = BreaksAt(n)
    BY <1>2 DEF BreaksAt, IsPowerLevels
  <2>2. LevelsFor(n)' = LevelsFor(n)
    BY <1>2, <2>1 DEF LevelsFor
  <2>3. QED
    BY <2>1, <2>2 DEF LevelReadable
<1>6. QED
  BY <1>1, <1>3, <1>4, <1>5

(* Starting on the next power event moves it from the list to the stack.   *)
LEMMA AddEventSafe ==
  ASSUME InvPS, NEW e \in todo, AddEvent(e)
  PROVE  InvPS'
<1>1. /\ phase = "build" /\ phase' = "build" /\ stack = <<>> /\ stack' = <<e>>
      /\ rest = <<>> /\ rest' = <<>> /\ todo' = todo \ {e}
      /\ UNCHANGED <<store, auth_diff, eid, graph, key, out, heap, sorted, pc>>
  BY DEF AddEvent, vars
<1>2. Range(stack) = {} /\ Range(stack') = {e}
  BY <1>1 DEF Range
<1>3. TypeOKPS'
  BY <1>1 DEF InvPS, TypeOKPS
<1>4. BuildConsistent'
  BY <1>1, <1>2, InputUnchanged DEF InvPS, BuildConsistent, Unseen
<1>5. QED
  BY <1>1, <1>3, <1>4 DEF InvPS, GraphIsAuthChains, SortRuns, FailsOnlyOnBadLevels,
     BuildConsistent

(* Popping an event makes it a node, without edges unless it had some, and *)
(* leaves all of its auth events to be seen.                               *)
LEMMA PopEventSafe ==
  ASSUME InvPS, PopEvent
  PROVE  InvPS'
<1> DEFINE e == stack[Len(stack)]
<1>1. /\ phase = "build" /\ phase' = "build" /\ rest = <<>> /\ rest' = AuthEvents(e)
      /\ eid' = e /\ stack # <<>> /\ stack' = SubSeq(stack, 1, Len(stack) - 1)
      /\ graph' = AsNode(graph, e)
      /\ UNCHANGED <<store, auth_diff, todo, key, out, heap, sorted, pc>>
  BY DEF PopEvent
<1>2. stack \in Seq(auth_diff) /\ store \in Stores /\ auth_diff \subseteq DOMAIN store
  BY DEF InvPS, TypeOKPS
<1>3. stack' \in Seq(auth_diff) /\ e \in auth_diff /\ Range(stack) = Range(stack') \cup {e}
  BY <1>1, <1>2, RangeOfPop
<1>4. AuthEvents(e) \in Seq(EventId)
  BY <1>2, AuthEventsType
<1> HIDE DEF e
<1>5. /\ DOMAIN graph' = DOMAIN graph \cup {e}
      /\ \A n \in DOMAIN graph : graph'[n] = graph[n]
      /\ e \notin DOMAIN graph => graph'[e] = {}
      /\ graph' = [n \in DOMAIN graph' |-> graph'[n]]
  BY <1>1 DEF AsNode
<1>6. \A n \in DOMAIN graph : graph[n] \subseteq auth_diff
  BY DEF InvPS, TypeOKPS
<1>7. TypeOKPS'
  <2>1. graph' \in [DOMAIN graph' -> SUBSET auth_diff]
    BY <1>5, <1>6
  <2>2. DOMAIN graph' \subseteq auth_diff
    BY <1>3, <1>5 DEF InvPS, TypeOKPS
  <2>3. QED
    BY <1>1, <1>3, <1>4, <2>1, <2>2 DEF InvPS, TypeOKPS
<1>8. \A S : IsAuthClosed(S)' <=> IsAuthClosed(S)
  BY <1>1, InputUnchanged
<1>9. /\ \A n : AuthInDiff(n)' = AuthInDiff(n)
      /\ PowerEvents(auth_diff)' = PowerEvents(auth_diff)
  BY <1>1, InputUnchanged
<1>10. \A n \in DOMAIN graph : graph[n] = AuthInDiff(n)
  BY <1>1 DEF InvPS, BuildConsistent, Unseen
<1>11. BuildConsistent'
  <2>1. \A n \in DOMAIN graph' : graph'[n] \subseteq DOMAIN graph' \cup Range(stack')
    BY <1>1, <1>3, <1>5 DEF InvPS, BuildConsistent
  <2>2. Range(AuthEvents(e)) \cap auth_diff = AuthInDiff(e)
    BY DEF AuthInDiff
  <2>3. graph'[e] \cup (Range(rest') \cap auth_diff) = AuthInDiff(e)
    BY <1>1, <1>5, <1>10, <2>2
  <2>4. \A n \in DOMAIN graph' \ Unseen' : graph'[n] = AuthInDiff(n)
    <3>1. CASE rest' = <<>>
      <4>1. AuthInDiff(e) = {}
        BY <1>1, <2>2, <3>1 DEF Range
      <4>2. QED
        BY <1>5, <1>10, <4>1
    <3>2. CASE rest' # <<>>
      BY <1>1, <1>5, <1>10, <3>2 DEF Unseen
    <3>3. QED
      BY <3>1, <3>2
  <2>5. Unseen' \subseteq DOMAIN graph'
    BY <1>1, <1>5 DEF Unseen
  <2>6. DOMAIN graph' \cup Range(stack') \cup todo = DOMAIN graph \cup Range(stack) \cup todo
    BY <1>3, <1>5
  <2>7. QED
    BY <1>1, <1>8, <1>9, <2>1, <2>3, <2>4, <2>5, <2>6 DEF InvPS, BuildConsistent
<1>12. QED
  BY <1>1, <1>7, <1>11 DEF InvPS, GraphIsAuthChains, SortRuns, FailsOnlyOnBadLevels,
     BuildConsistent

(* Looking at an auth event adds its edge, and what the edge leads to is a *)
(* node or goes on the stack.                                              *)
LEMMA ScanSafe ==
  ASSUME InvPS, ScanAuthEvent
  PROVE  InvPS'
<1> DEFINE aid == Head(rest)
<1>1. /\ phase = "build" /\ phase' = "build" /\ rest # <<>> /\ rest' = Tail(rest)
      /\ UNCHANGED <<store, auth_diff, todo, eid, key, out, heap, sorted, pc>>
  BY DEF ScanAuthEvent
<1>2. /\ rest' \in Seq(EventId) /\ aid \in EventId
      /\ Range(rest) = {aid} \cup Range(rest')
  BY <1>1, RangeOfTail DEF InvPS, TypeOKPS
<1>3. aid \in auth_diff =>
        /\ stack' = IF aid \notin DOMAIN graph THEN Append(stack, aid) ELSE stack
        /\ graph' = [graph EXCEPT ![eid] = @ \cup {aid}]
  BY DEF ScanAuthEvent, Conflicted, NewNode, NewEdges
<1>4. aid \notin auth_diff => stack' = stack /\ graph' = graph
  BY DEF ScanAuthEvent, Conflicted
<1> HIDE DEF aid
<1>5. eid \in DOMAIN graph /\ graph[eid] \cup (Range(rest) \cap auth_diff) = AuthInDiff(eid)
  BY <1>1 DEF InvPS, BuildConsistent, Unseen
<1>6. /\ DOMAIN graph' = DOMAIN graph
      /\ \A n \in DOMAIN graph \ {eid} : graph'[n] = graph[n]
      /\ graph'[eid] = graph[eid] \cup ({aid} \cap auth_diff)
      /\ graph' = [n \in DOMAIN graph' |-> graph'[n]]
  <2>1. graph = [n \in DOMAIN graph |-> graph[n]]
    BY DEF InvPS, TypeOKPS
  <2>2. QED
    BY <1>3, <1>4, <1>5, <2>1
<1>7. stack \in Seq(auth_diff)
  BY DEF InvPS, TypeOKPS
<1>8. /\ stack' \in Seq(auth_diff)
      /\ Range(stack) \subseteq Range(stack')
      /\ Range(stack') \subseteq Range(stack) \cup ({aid} \cap auth_diff)
      /\ aid \in auth_diff => aid \in DOMAIN graph \cup Range(stack')
  <2>1. CASE aid \in auth_diff /\ aid \notin DOMAIN graph
    <3>1. stack' = Append(stack, aid)
      BY <1>3, <2>1
    <3>2. stack' \in Seq(auth_diff) /\ Range(stack') = Range(stack) \cup {aid}
      BY <1>7, <2>1, <3>1, RangeOfAppend
    <3>3. QED
      BY <2>1, <3>2
  <2>2. CASE ~(aid \in auth_diff /\ aid \notin DOMAIN graph)
    <3>1. stack' = stack
      BY <1>3, <1>4, <2>2
    <3>2. QED
      BY <1>7, <2>2, <3>1
  <2>3. QED
    BY <2>1, <2>2
<1>9. TypeOKPS'
  <2>1. \A n \in DOMAIN graph' : graph'[n] \in SUBSET auth_diff
    BY <1>6 DEF InvPS, TypeOKPS
  <2>2. graph' \in [DOMAIN graph' -> SUBSET auth_diff] /\ DOMAIN graph' \subseteq auth_diff
    BY <1>6, <2>1 DEF InvPS, TypeOKPS
  <2>3. QED
    BY <1>1, <1>2, <1>8, <2>2 DEF InvPS, TypeOKPS
<1>10. \A S : IsAuthClosed(S)' <=> IsAuthClosed(S)
  BY <1>1, InputUnchanged
<1>11. /\ \A n : AuthInDiff(n)' = AuthInDiff(n)
       /\ PowerEvents(auth_diff)' = PowerEvents(auth_diff)
  BY <1>1, InputUnchanged
<1>12. BuildConsistent'
  <2>1. \A n \in DOMAIN graph' : graph'[n] \subseteq DOMAIN graph' \cup Range(stack')
    BY <1>1, <1>6, <1>8 DEF InvPS, BuildConsistent
  <2>2. graph'[eid] \cup (Range(rest') \cap auth_diff) = AuthInDiff(eid)
    BY <1>2, <1>5, <1>6
  <2>3. \A n \in DOMAIN graph' \ Unseen' : graph'[n] = AuthInDiff(n)
    <3>1. \A n \in DOMAIN graph' \ {eid} : graph'[n] = AuthInDiff(n)
      BY <1>1, <1>6 DEF InvPS, BuildConsistent, Unseen
    <3>2. CASE rest' = <<>>
      <4>1. Range(rest') = {}
        BY <3>2 DEF Range
      <4>2. graph'[eid] = AuthInDiff(eid)
        BY <2>2, <4>1
      <4>3. QED
        BY <3>1, <4>2
    <3>3. CASE rest' # <<>>
      BY <1>1, <3>1, <3>3 DEF Unseen
    <3>4. QED
      BY <3>2, <3>3
  <2>4. Unseen' \subseteq DOMAIN graph'
    BY <1>1, <1>5, <1>6 DEF Unseen
  <2>5. ASSUME NEW S \in SUBSET EventId, IsAuthClosed(S)
        PROVE  DOMAIN graph' \cup Range(stack') \cup todo \subseteq S
    <3>1. DOMAIN graph \cup Range(stack) \cup todo \subseteq S
      BY <1>1, <2>5 DEF InvPS, BuildConsistent
    <3>2. AuthInDiff(eid) \subseteq S
      BY <1>5, <2>5, <3>1 DEF IsAuthClosed, InvPS, TypeOKPS
    <3>3. {aid} \cap auth_diff \subseteq S
      BY <1>2, <1>5, <3>2
    <3>4. QED
      BY <1>6, <1>8, <3>1, <3>3
  <2>6. PowerEvents(auth_diff) \subseteq DOMAIN graph' \cup Range(stack') \cup todo
    BY <1>1, <1>6, <1>8 DEF InvPS, BuildConsistent
  <2>7. QED
    BY <1>1, <1>10, <1>11, <2>1, <2>2, <2>3, <2>4, <2>5, <2>6 DEF InvPS, BuildConsistent
<1>13. QED
  BY <1>1, <1>9, <1>12 DEF InvPS, GraphIsAuthChains, SortRuns, FailsOnlyOnBadLevels,
     BuildConsistent

(* When nothing is left to visit, the graph is the one it should be.       *)
LEMMA GraphCompleteMeansExact ==
  ASSUME InvPS, GraphComplete
  PROVE  /\ \A n \in DOMAIN graph : graph[n] = AuthInDiff(n)
         /\ IsAuthClosed(DOMAIN graph)
         /\ \A S \in SUBSET EventId : IsAuthClosed(S) => DOMAIN graph \subseteq S
<1>1. phase = "build" /\ todo = {} /\ stack = <<>> /\ rest = <<>> /\ Range(stack) = {}
  BY DEF GraphComplete, Range
<1>2. \A n \in DOMAIN graph : graph[n] = AuthInDiff(n) /\ graph[n] \subseteq DOMAIN graph
  BY <1>1 DEF InvPS, BuildConsistent, Unseen
<1>3. PowerEvents(auth_diff) \subseteq DOMAIN graph
  BY <1>1 DEF InvPS, BuildConsistent
<1>4. \A S \in SUBSET EventId : IsAuthClosed(S) => DOMAIN graph \subseteq S
  BY <1>1 DEF InvPS, BuildConsistent
<1>5. QED
  BY <1>2, <1>3, <1>4 DEF IsAuthClosed

(* With every level readable, the sort starts with a key for every node.   *)
LEMMA LookUpLevelsSafe ==
  ASSUME InvPS, LookUpLevels
  PROVE  InvPS'
<1>1. /\ GraphComplete /\ phase = "build" /\ phase' = "sort"
      /\ key' = [n \in EventToPl |-> <<SenderLevel(n), store[n].origin_server_ts>>]
      /\ UNCHANGED <<store, auth_diff, todo, stack, eid, rest, graph, out, heap, sorted, pc>>
  BY DEF LookUpLevels, GraphComplete
<1>2. pc = "start" /\ sorted = <<>> /\ heap = {}
  BY <1>1 DEF InvPS, BuildConsistent
<1>3. /\ store \in Stores /\ DOMAIN store \subseteq EventId
      /\ auth_diff \subseteq DOMAIN store /\ DOMAIN graph \subseteq auth_diff
      /\ graph \in [DOMAIN graph -> SUBSET auth_diff]
  BY StoreFacts DEF InvPS, TypeOKPS
<1>4. DOMAIN key' = DOMAIN graph
  BY <1>1, <1>3 DEF EventToPl
<1>5. key' \in Keys
  <2>1. \A n \in EventToPl : <<SenderLevel(n), store[n].origin_server_ts>> \in Level \X Timestamp
    BY <1>3, SenderLevelType, StoreFacts DEF EventToPl
  <2>2. key' \in [EventToPl -> Level \X Timestamp]
    BY <1>1, <2>1
  <2>3. EventToPl \in SUBSET EventId
    BY <1>3 DEF EventToPl
  <2>4. QED
    BY <2>2, <2>3 DEF Keys
<1>6. TypeOKPS'
  BY <1>1, <1>5 DEF InvPS, TypeOKPS
<1>7. GraphIsAuthChains'
  <2>1. /\ \A S : IsAuthClosed(S)' <=> IsAuthClosed(S)
        /\ \A n : AuthInDiff(n)' = AuthInDiff(n)
    BY <1>1, InputUnchanged
  <2>2. QED
    BY <1>1, <2>1, GraphCompleteMeansExact DEF GraphIsAuthChains
<1>8. IInv'
  <2>1. graph \in Graphs
    <3>1. DOMAIN graph \in SUBSET EventId /\ graph \in [DOMAIN graph -> SUBSET EventId]
      BY <1>3
    <3>2. QED
      BY <3>1 DEF Graphs
  <2>2. TypeOK'
    BY <1>1, <1>2, <1>5, <2>1 DEF TypeOK
  <2>3. HeapConsistent' /\ TopologicalOrder' /\ NoEventTwice'
    BY <1>1, <1>2 DEF HeapConsistent, TopologicalOrder, NoEventTwice, IsInjective
  <2>4. QED
    BY <2>2, <2>3 DEF IInv
<1>9. QED
  BY <1>1, <1>2, <1>4, <1>6, <1>7, <1>8 DEF InvPS, BuildConsistent, SortRuns,
     FailsOnlyOnBadLevels

(* Levels that cannot be read end the sort before it starts.               *)
LEMMA LookUpFailsSafe ==
  ASSUME InvPS, LookUpFails
  PROVE  InvPS'
<1>1. /\ GraphComplete /\ phase = "build" /\ phase' = "sort" /\ pc' = "error"
      /\ \E n \in DOMAIN graph : ~LevelReadable(n)
      /\ UNCHANGED <<store, auth_diff, todo, stack, eid, rest, graph, key, out, heap, sorted>>
  BY DEF LookUpFails, GraphComplete
<1>2. sorted = <<>> /\ heap = {}
  BY <1>1 DEF InvPS, BuildConsistent
<1>3. TypeOKPS'
  BY <1>1 DEF InvPS, TypeOKPS
<1>4. GraphIsAuthChains'
  <2>1. /\ \A S : IsAuthClosed(S)' <=> IsAuthClosed(S)
        /\ \A n : AuthInDiff(n)' = AuthInDiff(n)
    BY <1>1, InputUnchanged
  <2>2. QED
    BY <1>1, <2>1, GraphCompleteMeansExact DEF GraphIsAuthChains
<1>5. IInv'
  <2>1. graph \in Graphs
    <3>1. DOMAIN graph \in SUBSET EventId /\ graph \in [DOMAIN graph -> SUBSET EventId]
      BY StoreFacts DEF InvPS, TypeOKPS
    <3>2. QED
      BY <3>1 DEF Graphs
  <2>2. TypeOK'
    BY <1>1, <1>2, <2>1 DEF TypeOK, InvPS, TypeOKPS
  <2>3. HeapConsistent' /\ TopologicalOrder' /\ NoEventTwice'
    BY <1>1, <1>2 DEF HeapConsistent, TopologicalOrder, NoEventTwice, IsInjective
  <2>4. QED
    BY <2>2, <2>3 DEF IInv
<1>6. FailsOnlyOnBadLevels'
  <2>1. \A n : LevelReadable(n)' <=> LevelReadable(n)
    BY <1>1, InputUnchanged
  <2>2. QED
    BY <1>1, <2>1 DEF FailsOnlyOnBadLevels
<1>7. QED
  BY <1>1, <1>3, <1>4, <1>5, <1>6 DEF InvPS, BuildConsistent, SortRuns

(* A step of the sort leaves its input alone and cannot fail for want of a *)
(* key.                                                                    *)
LEMMA SortStepSafe ==
  ASSUME InvPS, SortStep
  PROVE  InvPS'
<1>1. phase = "sort" /\ Next /\ UNCHANGED psVars /\ phase' = "sort"
  BY DEF SortStep, psVars
<1>2. graph' = graph /\ key' = key
  BY <1>1 DEF Next, Setup, SetupFails, PopNode, PopFails, Return
<1>3. IInv
  BY <1>1 DEF InvPS, SortRuns
<1>4. IInv'
  BY <1>1, <1>3, TypeStep, SafeStep DEF IInv
<1>5. UNCHANGED <<store, auth_diff, todo, stack, eid, rest, phase>>
  BY <1>1 DEF psVars
<1>6. TypeOKPS'
  BY <1>2, <1>4, <1>5 DEF InvPS, TypeOKPS, IInv, TypeOK
<1>7. GraphIsAuthChains'
  <2>1. /\ \A S : IsAuthClosed(S)' <=> IsAuthClosed(S)
        /\ \A n : AuthInDiff(n)' = AuthInDiff(n)
    BY <1>5, InputUnchanged
  <2>2. QED
    BY <1>2, <1>5, <2>1 DEF InvPS, GraphIsAuthChains
<1>8. pc' = "error" => pc = "error"
  <2> SUFFICES ASSUME pc # "error", pc' = "error"
               PROVE  FALSE
    OBVIOUS
  <2>1. DOMAIN key = DOMAIN graph
    BY <1>1 DEF InvPS, SortRuns
  <2>2. SetupFails \/ \E item \in heap : PopFails(item)
    BY <1>1 DEF Next, Setup, PopNode, Return
  <2>3. ~SetupFails
    BY <2>1 DEF SetupFails, Leaves
  <2>4. \A item \in heap : item.event_id \in DOMAIN graph
    BY <1>3 DEF IInv, TypeOK
  <2>5. QED
    BY <2>1, <2>2, <2>3, <2>4 DEF PopFails
<1>9. FailsOnlyOnBadLevels'
  <2>1. \A n : LevelReadable(n)' <=> LevelReadable(n)
    BY <1>5, InputUnchanged
  <2>2. QED
    BY <1>2, <1>8, <2>1 DEF InvPS, FailsOnlyOnBadLevels
<1>10. SortRuns'
  <2>1. pc # "error" => DOMAIN key = DOMAIN graph
    BY <1>1 DEF InvPS, SortRuns
  <2>2. pc # "error"
    BY <1>1 DEF Next, Setup, SetupFails, PopNode, PopFails, Return
  <2>3. QED
    BY <1>2, <1>4, <2>1, <2>2 DEF SortRuns
<1>11. QED
  BY <1>1, <1>6, <1>7, <1>9, <1>10 DEF InvPS, BuildConsistent

(* Every step of the power sort preserves the invariant.                   *)
LEMMA InvPSStep == InvPS /\ [NextPS]_allVars => InvPS'
<1> SUFFICES ASSUME InvPS, [NextPS]_allVars
             PROVE  InvPS'
  OBVIOUS
<1>1. CASE NextPS
  BY <1>1, AddEventSafe, PopEventSafe, ScanSafe, LookUpLevelsSafe, LookUpFailsSafe,
     SortStepSafe DEF NextPS
<1>2. CASE UNCHANGED allVars
  <2>1. /\ UNCHANGED <<store, auth_diff, todo, stack, eid, rest, phase>>
        /\ UNCHANGED <<graph, key, out, heap, sorted, pc>>
    BY <1>2 DEF allVars, vars, psVars
  <2>2. TypeOKPS' /\ BuildConsistent' /\ GraphIsAuthChains' /\ FailsOnlyOnBadLevels'
    <3>1. TypeOKPS'
      BY <2>1 DEF InvPS, TypeOKPS, Stores, Keys
    <3>2. BuildConsistent'
      BY <2>1, InputUnchanged DEF InvPS, BuildConsistent, Unseen
    <3>3. GraphIsAuthChains' /\ FailsOnlyOnBadLevels'
      BY <2>1, InputUnchanged DEF InvPS, GraphIsAuthChains, FailsOnlyOnBadLevels
    <3>4. QED
      BY <3>1, <3>2, <3>3
  <2>3. IInv => IInv'
    BY <2>1 DEF IInv, TypeOK, HeapConsistent, Ready, TopologicalOrder, NoEventTwice
  <2>4. QED
    BY <2>1, <2>2, <2>3 DEF InvPS, SortRuns
<1>3. QED
  BY <1>1, <1>2

(* The invariant holds throughout every power sort.                        *)
LEMMA PSSafe == SpecPS => []InvPS
BY InitPSSafe, InvPSStep, PTL DEF SpecPS

(* reverse_topological_power_sort is type correct.                         *)
THEOREM PowerSortTypeCorrect == SpecPS => []TypeOKPS
<1>1. InvPS => TypeOKPS
  BY DEF InvPS
<1>2. QED
  BY <1>1, PSSafe, PTL

(* While the graph grows, every edge leads to a node or to an event still  *)
(* on the stack, and visited nodes have all their edges.                   *)
THEOREM GraphGrowsConsistently == SpecPS => []BuildConsistent
<1>1. InvPS => BuildConsistent
  BY DEF InvPS
<1>2. QED
  BY <1>1, PSSafe, PTL

(* The graph that is sorted is exactly the conflicted auth chains of the   *)
(* power events, for every store and however the events are visited.       *)
THEOREM GraphIsExact == SpecPS => []GraphIsAuthChains
<1>1. InvPS => GraphIsAuthChains
  BY DEF InvPS
<1>2. QED
  BY <1>1, PSSafe, PTL

(* The power sort fails only on power levels that cannot be read.          *)
THEOREM OnlyBadLevelsFail == SpecPS => []FailsOnlyOnBadLevels
<1>1. InvPS => FailsOnlyOnBadLevels
  BY DEF InvPS
<1>2. QED
  BY <1>1, PSSafe, PTL

(* Every conflicted power event is in the sorted vector, unless the auth   *)
(* events form a cycle.                                                    *)
THEOREM NoPowerEventLost == SpecPS => []PowerEventsAllSorted
<1>1. InvPS => PowerEventsAllSorted
  <2> SUFFICES ASSUME InvPS, pc = "done", WellFounded(graph)
               PROVE  PowerEvents(auth_diff) \subseteq Range(sorted)
    BY DEF PowerEventsAllSorted
  <2>1. phase = "sort"
    BY DEF InvPS, TypeOKPS, BuildConsistent
  <2>2. IsAuthClosed(DOMAIN graph) /\ \A n \in DOMAIN graph : graph[n] = AuthInDiff(n)
    BY <2>1 DEF InvPS, GraphIsAuthChains
  <2>3. Closed(graph)
    BY <2>2 DEF Closed, IsAuthClosed, InvPS, TypeOKPS
  <2>4. Range(sorted) = DOMAIN graph
    BY <2>1, <2>3, DoneMeansComplete DEF InvPS, SortRuns, NothingLost
  <2>5. QED
    BY <2>2, <2>4 DEF IsAuthClosed
<1>2. QED
  BY <1>1, PSSafe, PTL

(* Every event is sorted after its conflicted auth events.                 *)
THEOREM AuthEventsComeFirst == SpecPS => []AuthEventsFirst
<1>1. InvPS => AuthEventsFirst
  <2> SUFFICES ASSUME InvPS, NEW i \in DOMAIN sorted
               PROVE  AuthInDiff(sorted[i]) \subseteq Emitted(i)
    BY DEF AuthEventsFirst
  <2>1. phase = "sort"
    <3>1. sorted # <<>>
      OBVIOUS
    <3>2. QED
      BY <3>1 DEF InvPS, TypeOKPS, BuildConsistent
  <2>2. IInv /\ \A n \in DOMAIN graph : graph[n] = AuthInDiff(n)
    BY <2>1 DEF InvPS, SortRuns, GraphIsAuthChains
  <2>3. sorted[i] \in DOMAIN graph
    BY <2>2 DEF IInv, TypeOK
  <2>4. graph[sorted[i]] \subseteq Emitted(i)
    BY <2>2 DEF IInv, TopologicalOrder, Emitted
  <2>5. QED
    BY <2>2, <2>3, <2>4
<1>2. QED
  BY <1>1, PSSafe, PTL
=============================================================================
